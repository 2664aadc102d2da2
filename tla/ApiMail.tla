-------------------------------- MODULE ApiMail --------------------------------
(***************************************************************************)
(* Mail and custom host names in tinai-api: mailboxes, signatures and mail *)
(* domains (routes/mail.ts), kept partly in PostgreSQL and partly in the   *)
(* Stalwart mail server, and the routes of the Cloudflare tunnel           *)
(* (lib/cloudflare.ts), read and written back as one document.  A call of  *)
(* Stalwart, Cloudflare or the DNS may fail; handlers interleave between   *)
(* their calls.                                                            *)
(***************************************************************************)
EXTENDS Naturals, FiniteSets

CONSTANTS
    MailReqs,     \* requests; a row's id, a token and a password are their request
    MailUsers,
    LocalPart,    \* name of the mailbox each user's address is turned into
    MailTenants, MailDomains,
    TunnelReqs, Hosts

VARIABLES
    mailboxes,    \* Stalwart: per name the request whose password opens it, 0 when there is none
    mailTold,     \* history: <<name, request>>, the mailbox and password a user was given
    signatures,   \* per id its user and whether it is the default
    mailDomains,  \* rows of mail_domains: id, tenant, domain, verified
    stDomains,    \* domains in Stalwart, with or without a DKIM signature
    txtRecords,   \* DNS: <<domain, token>>, and its record is there
    txtEver,      \* history: every record there has been
    mailTask,     \* per request: its next step and what it read
    tunnel,       \* the ingress of the tunnel: host names, and "" for the catch-all
    tunnelTask    \* per request: its next step and the ingress it read

mailVars == <<mailboxes, mailTold, signatures, mailDomains, stDomains, txtRecords, txtEver, mailTask>>
tunnelVars == <<tunnel, tunnelTask>>
apiMailVars == <<mailVars, tunnelVars>>

NoMailRow == [tenant |-> "none", domain |-> "none", verified |-> FALSE]
NoSignature == [user |-> "none", default |-> FALSE]
MailIdle == [pc |-> "none", row |-> 0, user |-> "none", default |-> FALSE, row2 |-> NoMailRow]
Names == {LocalPart[u] : u \in MailUsers}

ApiMailInit ==
    /\ mailboxes = [n \in Names |-> 0] /\ mailTold = {}
    /\ signatures = [i \in MailReqs |-> NoSignature]
    /\ mailDomains = [i \in MailReqs |-> NoMailRow] /\ stDomains = [d \in MailDomains |-> "none"]
    /\ txtRecords = {} /\ txtEver = {} /\ mailTask = [q \in MailReqs |-> MailIdle]
    /\ tunnel = {""} /\ tunnelTask = [q \in TunnelReqs |-> [pc |-> "none", host |-> "", read |-> {}]]

MailAt(q, pc)  == mailTask[q].pc = pc
MailGo(q, pc)  == mailTask' = [mailTask EXCEPT ![q].pc = pc]
MailTo(q, rec) == mailTask' = [mailTask EXCEPT ![q] = rec]

(***************************************************************************)
(* Mailboxes                                                               *)
(***************************************************************************)
\* POST /mail/provision reads the address; the mailbox is named by its local
\* part, which users of two domains share.
ReadMailUser(q, u) ==
    /\ MailAt(q, "none") /\ MailTo(q, [MailIdle EXCEPT !.pc = "mailbox", !.user = u])
    /\ UNCHANGED <<mailboxes, mailTold, signatures, mailDomains, stDomains, txtRecords, txtEver, tunnelVars>>

\* Stalwart answers 409 when the name exists; the caller is then given a
\* password that is not the mailbox's.
ProvisionMailbox(q) ==
    LET name == LocalPart[mailTask[q].user] IN
    /\ MailAt(q, "mailbox") /\ MailGo(q, "done")
    /\ \/ /\ mailboxes' = [mailboxes EXCEPT ![name] = IF @ = 0 THEN q ELSE @]
          /\ mailTold' = mailTold \cup {<<name, q>>}
       \/ UNCHANGED <<mailboxes, mailTold>>
    /\ UNCHANGED <<signatures, mailDomains, stDomains, txtRecords, txtEver, tunnelVars>>

(***************************************************************************)
(* Signatures                                                              *)
(***************************************************************************)
CreateSignature(q, u, default) ==
    /\ MailAt(q, "none")
    /\ MailTo(q, [MailIdle EXCEPT !.pc = IF default THEN "clear" ELSE "sign",
                                  !.row = q, !.user = u, !.default = default])
    /\ UNCHANGED <<mailboxes, mailTold, signatures, mailDomains, stDomains, txtRecords, txtEver, tunnelVars>>

\* PUT /mail/signatures/:id finds the row first.
FindSignature(q, i, default) ==
    /\ MailAt(q, "none") /\ signatures[i].user # "none"
    /\ MailTo(q, [MailIdle EXCEPT !.pc = IF default THEN "clear" ELSE "sign",
                                  !.row = i, !.user = signatures[i].user, !.default = default])
    /\ UNCHANGED <<mailboxes, mailTold, signatures, mailDomains, stDomains, txtRecords, txtEver, tunnelVars>>

\* The defaults of the user are cleared in a statement of its own.
ClearDefaults(q) ==
    /\ MailAt(q, "clear") /\ MailGo(q, "sign")
    /\ signatures' = [i \in MailReqs |-> IF signatures[i].user = mailTask[q].user
                                         THEN [signatures[i] EXCEPT !.default = FALSE] ELSE signatures[i]]
    /\ UNCHANGED <<mailboxes, mailTold, mailDomains, stDomains, txtRecords, txtEver, tunnelVars>>

\* INSERT, or UPDATE of a row that may have been deleted meanwhile.
WriteSignature(q) ==
    LET t == mailTask[q] IN
    /\ MailAt(q, "sign") /\ MailGo(q, "done")
    /\ signatures' = IF t.row = q \/ signatures[t.row].user = t.user
                     THEN [signatures EXCEPT ![t.row] = [user |-> t.user, default |-> t.default]]
                     ELSE signatures
    /\ UNCHANGED <<mailboxes, mailTold, mailDomains, stDomains, txtRecords, txtEver, tunnelVars>>

DeleteSignature(q, i) ==
    /\ MailAt(q, "none") /\ MailGo(q, "done")
    /\ signatures' = [signatures EXCEPT ![i] = NoSignature]
    /\ UNCHANGED <<mailboxes, mailTold, mailDomains, stDomains, txtRecords, txtEver, tunnelVars>>

(***************************************************************************)
(* Domains                                                                 *)
(***************************************************************************)
\* POST /mail/domains: Stalwart first; 409 counts as success, other errors are 502.
RegisterDomain(q, t, d) ==
    /\ MailAt(q, "none")
    /\ \/ /\ MailTo(q, [MailIdle EXCEPT !.pc = "insert", !.row2 = [tenant |-> t, domain |-> d, verified |-> FALSE]])
          /\ stDomains' = [stDomains EXCEPT ![d] = IF @ = "none" THEN "plain" ELSE @]
       \/ MailGo(q, "done") /\ stDomains' = stDomains
    /\ UNCHANGED <<mailboxes, mailTold, signatures, mailDomains, txtRecords, txtEver, tunnelVars>>

\* A domain has one row: 409 when it has one already, whoever's it is.
Registered(d) == \E i \in MailReqs : mailDomains[i].domain = d
InsertDomain(q) ==
    /\ MailAt(q, "insert") /\ MailGo(q, "done")
    /\ mailDomains' = IF Registered(mailTask[q].row2.domain) THEN mailDomains
                      ELSE [mailDomains EXCEPT ![q] = mailTask[q].row2]
    /\ UNCHANGED <<mailboxes, mailTold, signatures, stDomains, txtRecords, txtEver, tunnelVars>>

\* A tenant publishes or removes the TXT record with the token of its row.
EditTxt(i) ==
    /\ mailDomains[i] # NoMailRow
    /\ LET rec == <<mailDomains[i].domain, i>> IN
       /\ txtRecords' = IF rec \in txtRecords THEN txtRecords \ {rec} ELSE txtRecords \cup {rec}
       /\ txtEver' = txtEver \cup {rec}
    /\ UNCHANGED <<mailboxes, mailTold, signatures, mailDomains, stDomains, mailTask, tunnelVars>>

\* GET /mail/domains/:id/verify, DELETE and POST .../users read the tenant's row.
ReadDomain(q, i, pc) ==
    /\ MailAt(q, "none") /\ mailDomains[i] # NoMailRow
    /\ pc = "dns" => ~mailDomains[i].verified
    /\ pc = "user" => mailDomains[i].verified
    /\ MailTo(q, [MailIdle EXCEPT !.pc = pc, !.row = i, !.row2 = mailDomains[i]])
    /\ UNCHANGED <<mailboxes, mailTold, signatures, mailDomains, stDomains, txtRecords, txtEver, tunnelVars>>

\* A defect of ResolveTxt: any token of the domain will do.
AnyTxt(q) ==
    /\ MailAt(q, "dns")
    /\ \/ (\E j \in MailReqs : <<mailTask[q].row2.domain, j>> \in txtRecords) /\ MailGo(q, "verified")
       \/ MailGo(q, "done")
    /\ UNCHANGED <<mailboxes, mailTold, signatures, mailDomains, stDomains, txtRecords, txtEver, tunnelVars>>

\* A lookup that fails is a lookup without the record.
ResolveTxt(q) ==
    LET rec == <<mailTask[q].row2.domain, mailTask[q].row>> IN
    /\ MailAt(q, "dns")
    /\ \/ rec \in txtRecords /\ MailGo(q, "verified")
       \/ MailGo(q, "done")
    /\ UNCHANGED <<mailboxes, mailTold, signatures, mailDomains, stDomains, txtRecords, txtEver, tunnelVars>>

\* The row may have gone, and the domain may be another tenant's by now.
MarkVerified(q) ==
    LET i == mailTask[q].row IN
    /\ MailAt(q, "verified") /\ MailGo(q, "dkim")
    /\ mailDomains' = IF mailDomains[i] # NoMailRow THEN [mailDomains EXCEPT ![i].verified = TRUE] ELSE mailDomains
    /\ UNCHANGED <<mailboxes, mailTold, signatures, stDomains, txtRecords, txtEver, tunnelVars>>

SetupDkim(q) ==
    LET d == mailTask[q].row2.domain IN
    /\ MailAt(q, "dkim") /\ MailGo(q, "done")
    /\ stDomains' \in {stDomains, [stDomains EXCEPT ![d] = "signed"]}
    /\ UNCHANGED <<mailboxes, mailTold, signatures, mailDomains, txtRecords, txtEver, tunnelVars>>

\* DELETE /mail/domains/:id: a failure of Stalwart is logged; the row goes next.
DropDomain(q) ==
    /\ MailAt(q, "drop") /\ MailGo(q, "delete")
    /\ stDomains' \in {stDomains, [stDomains EXCEPT ![mailTask[q].row2.domain] = "none"]}
    /\ UNCHANGED <<mailboxes, mailTold, signatures, mailDomains, txtRecords, txtEver, tunnelVars>>

DeleteDomain(q) ==
    /\ MailAt(q, "delete") /\ MailGo(q, "done")
    /\ mailDomains' = [mailDomains EXCEPT ![mailTask[q].row] = NoMailRow]
    /\ UNCHANGED <<mailboxes, mailTold, signatures, stDomains, txtRecords, txtEver, tunnelVars>>

\* POST /mail/domains/:id/users: the mailbox is named by the user name alone;
\* 409 is answered as such.
CreateDomainUser(q, n) ==
    /\ MailAt(q, "user") /\ MailGo(q, "done")
    /\ \/ /\ mailboxes[n] = 0 /\ mailboxes' = [mailboxes EXCEPT ![n] = q]
          /\ mailTold' = mailTold \cup {<<n, q>>}
       \/ UNCHANGED <<mailboxes, mailTold>>
    /\ UNCHANGED <<signatures, mailDomains, stDomains, txtRecords, txtEver, tunnelVars>>

MailNext == \E q \in MailReqs :
    \/ ProvisionMailbox(q) \/ ClearDefaults(q) \/ WriteSignature(q) \/ InsertDomain(q)
    \/ ResolveTxt(q) \/ MarkVerified(q) \/ SetupDkim(q) \/ DropDomain(q) \/ DeleteDomain(q) \/ EditTxt(q)
    \/ \E u \in MailUsers : ReadMailUser(q, u) \/ \E b \in BOOLEAN : CreateSignature(q, u, b)
    \/ \E i \in MailReqs :
          \/ DeleteSignature(q, i) \/ \E b \in BOOLEAN : FindSignature(q, i, b)
          \/ \E pc \in {"dns", "user", "drop"} : ReadDomain(q, i, pc)
    \/ \E t \in MailTenants, d \in MailDomains : RegisterDomain(q, t, d)
    \/ \E n \in Names : CreateDomainUser(q, n)

(***************************************************************************)
(* Routes of the tunnel                                                    *)
(***************************************************************************)
\* getTunnelConfig of addTunnelRoute and removeTunnelRoute; a failure ends them,
\* and a host name that is there already is not added.
GetTunnelConfig(q, h, pc) ==
    /\ tunnelTask[q].pc = "none"
    /\ \/ tunnelTask' = [tunnelTask EXCEPT ![q] =
             [pc |-> IF pc = "add" /\ h \in tunnel THEN "done" ELSE pc, host |-> h, read |-> tunnel]]
       \/ tunnelTask' = [tunnelTask EXCEPT ![q].pc = "done"]
    /\ UNCHANGED <<tunnel, mailVars>>

\* The whole document is written: what another request changed since it was
\* read is undone.
AddTunnelRoute(q) ==
    /\ tunnelTask[q].pc = "add" /\ tunnelTask' = [tunnelTask EXCEPT ![q].pc = "done"]
    /\ tunnel' \in {tunnel, tunnelTask[q].read \cup {tunnelTask[q].host}}
    /\ UNCHANGED mailVars

\* It sees to a catch-all.
RemoveTunnelRoute(q) ==
    /\ tunnelTask[q].pc = "remove" /\ tunnelTask' = [tunnelTask EXCEPT ![q].pc = "done"]
    /\ tunnel' \in {tunnel, (tunnelTask[q].read \ {tunnelTask[q].host}) \cup {""}}
    /\ UNCHANGED mailVars

TunnelNext == \E q \in TunnelReqs :
    \/ AddTunnelRoute(q) \/ RemoveTunnelRoute(q)
    \/ \E h \in Hosts, pc \in {"add", "remove"} : GetTunnelConfig(q, h, pc)

ApiMailNext == MailNext \/ TunnelNext
ApiMailSpec == ApiMailInit /\ [][ApiMailNext]_apiMailVars

(***************************************************************************)
(* Properties                                                              *)
(***************************************************************************)
\* Types of every variable.
ApiMailTypeOK ==
    /\ mailboxes \in [Names -> MailReqs \cup {0}] /\ mailTold \subseteq Names \X MailReqs
    /\ signatures \in [MailReqs -> [user : MailUsers \cup {"none"}, default : BOOLEAN]]
    /\ \A i \in MailReqs : mailDomains[i].domain \in MailDomains \cup {"none"}
    /\ stDomains \in [MailDomains -> {"none", "plain", "signed"}]
    /\ txtRecords \subseteq txtEver /\ txtEver \subseteq MailDomains \X MailReqs
    /\ tunnel \subseteq Hosts \cup {""}

\* A verified domain has had the record with its own row's token, even when
\* the row was deleted and the domain registered by another tenant while a
\* verification was under way (mail.ts:276-311, 341-361).
VerifiedByOwnRecord == \A i \in MailReqs :
    mailDomains[i].verified => <<mailDomains[i].domain, i>> \in txtEver
================================================================================
