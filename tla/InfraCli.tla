-------------------------------- MODULE InfraCli --------------------------------
(***************************************************************************)
(* The command line client (infra/cli/tinai.js): tinai.json is validated,  *)
(* manifests are written to a directory that is kept from one call to the  *)
(* next, applied with kubectl, and the Deployments awaited.  kubectl is    *)
(* external; it may fail half-way, and a Deployment may not become ready.  *)
(***************************************************************************)
EXTENDS Naturals, FiniteSets

CONSTANTS
    Services,     \* names of services, volumes and databases
    Domains,      \* host names
    Images,
    MaxDomains,   \* bound on the domains of tinai.json
    MaxDeploys    \* bound on the calls of `tinai deploy`

ASSUME InfraCliAssumption == {MaxDomains, MaxDeploys} \subseteq Nat

VARIABLES
    spec,         \* tinai.json: services (an image each), volumes, databases, and the
                  \* list of domains
    manifests,    \* .tinai/manifests: file name to content
    cluster,      \* objects in the cluster, by kind and name
    cliAt,        \* what `tinai deploy` does next
    cliLeft,      \* files kubectl has still to apply
    deploys

cliVars == <<spec, manifests, cluster, cliAt, cliLeft, deploys>>

None == "none"
\* A domain names a service, which tinai.json need not have, or names twice.
DomainLists == UNION {[1..n -> [host : Domains, service : Services]] : n \in 0..MaxDomains}
Specs == [services  : [Services -> Images \cup {None}], volumes : SUBSET Services,
          databases : SUBSET Services, domains : DomainLists]
Files == {"deployment", "service", "pvc", "cnpg", "ingress"} \X Services

CliInit ==
    /\ spec \in {s \in Specs : s.volumes = {} /\ s.databases = {}}
    /\ manifests = [f \in {} |-> None] /\ cluster = [o \in {} |-> None]
    /\ cliAt = "idle" /\ cliLeft = {} /\ deploys = 0

\* The user edits tinai.json between two calls.
EditSpec ==
    /\ cliAt = "idle" /\ deploys \in 1..(MaxDeploys - 1) /\ spec' \in Specs
    /\ UNCHANGED <<manifests, cluster, cliAt, cliLeft, deploys>>

\* readSpec, validateSpec: a file that is missing, does not parse or breaks the
\* schema ends the call.
Analyse ==
    /\ cliAt = "idle" /\ deploys < MaxDeploys /\ deploys' = deploys + 1
    /\ cliAt' \in {"idle", "generate"} /\ UNCHANGED <<spec, manifests, cluster, cliLeft>>

\* What the generators write: one Ingress per service, the last domain's, since
\* file and object are named after the service; none for an unknown service.
HasService(s) == spec.services[s] # None
DomainsOf(s)  == {i \in DOMAIN spec.domains : spec.domains[i].service = s}
LastDomain(s) == CHOOSE i \in DomainsOf(s) : \A j \in DomainsOf(s) : j <= i
Content(f) ==
    LET s == f[2] IN
    CASE f[1] = "deployment" -> spec.services[s]
      [] f[1] = "ingress"    -> spec.domains[LastDomain(s)].host
      [] OTHER               -> s
Generated ==
    {f \in Files : \/ f[1] \in {"deployment", "service"} /\ HasService(f[2])
                   \/ f[1] = "pvc" /\ f[2] \in spec.volumes
                   \/ f[1] = "cnpg" /\ f[2] \in spec.databases
                   \/ f[1] = "ingress" /\ HasService(f[2]) /\ DomainsOf(f[2]) # {}}

\* A defect of Generate: a file that exists is not written again.
KeepsManifests ==
    /\ cliAt = "generate" /\ cliAt' = "apply"
    /\ manifests' = [f \in DOMAIN manifests \cup Generated |->
                        IF f \in DOMAIN manifests THEN manifests[f] ELSE Content(f)]
    /\ cliLeft' = DOMAIN manifests \cup Generated
    /\ UNCHANGED <<spec, cluster, deploys>>

\* cmdGenerate: files are overwritten, and none is removed.
Generate ==
    /\ cliAt = "generate" /\ cliAt' = "apply"
    /\ manifests' = [f \in DOMAIN manifests \cup Generated |->
                        IF f \in Generated THEN Content(f) ELSE manifests[f]]
    /\ cliLeft' = DOMAIN manifests \cup Generated
    /\ UNCHANGED <<spec, cluster, deploys>>

\* kubectl apply -f of the whole directory, those of earlier calls too.
KubectlApply ==
    /\ cliAt = "apply"
    /\ \E f \in cliLeft :
          /\ cluster' = [o \in DOMAIN cluster \cup {f} |-> IF o = f THEN manifests[f] ELSE cluster[o]]
          /\ cliLeft' = cliLeft \ {f}
    /\ UNCHANGED <<spec, manifests, cliAt, deploys>>
ApplyFails ==
    /\ cliAt = "apply" /\ cliLeft # {} /\ cliAt' = "idle" /\ cliLeft' = {}
    /\ UNCHANGED <<spec, manifests, cluster, deploys>>

\* pollPodsReady: not ready in five minutes is a warning.
PollPodsReady ==
    /\ cliAt = "apply" /\ cliLeft = {} /\ cliAt' = "complete"
    /\ UNCHANGED <<spec, manifests, cluster, cliLeft, deploys>>
PrintUrls ==
    /\ cliAt = "complete" /\ cliAt' = "idle"
    /\ UNCHANGED <<spec, manifests, cluster, cliLeft, deploys>>

CliNext == EditSpec \/ Analyse \/ Generate \/ KubectlApply \/ ApplyFails \/ PollPodsReady \/ PrintUrls

(***************************************************************************)
(* Properties                                                              *)
(***************************************************************************)
\* Types of every variable.
CliTypeOK ==
    /\ spec \in Specs /\ DOMAIN manifests \subseteq Files /\ DOMAIN cluster \subseteq DOMAIN manifests
    /\ cliAt \in {"idle", "generate", "apply", "complete"} /\ cliLeft \subseteq DOMAIN manifests
    /\ deploys \in 0..MaxDeploys

\* A domain that gets its Ingress: its service is known, and no domain after it
\* in tinai.json names the same one.  The others are passed over, the first of
\* the two with a warning and the second without, and their addresses are
\* printed all the same (tinai.js:190-193, 298-302, 371-380).
Routed(i) ==
    LET d == spec.domains[i] IN
    HasService(d.service) /\ \A j \in DOMAIN spec.domains : j > i => spec.domains[j].service # d.service

\* Every service of tinai.json runs the image it names, every volume and
\* database is there, and every routed domain leads to its service.
ClusterHas(kind, name, what) == <<kind, name>> \in DOMAIN cluster /\ cluster[<<kind, name>>] = what
AsDescribed ==
    /\ \A s \in Services : HasService(s) =>
          ClusterHas("deployment", s, spec.services[s]) /\ ClusterHas("service", s, s)
    /\ \A v \in spec.volumes : ClusterHas("pvc", v, v)
    /\ \A b \in spec.databases : ClusterHas("cnpg", b, b)
    /\ \A i \in DOMAIN spec.domains : Routed(i) =>
          ClusterHas("ingress", spec.domains[i].service, spec.domains[i].host)

\* 'Deploy complete' is printed when the cluster is what tinai.json describes,
\* its routed domains included, whatever earlier calls left in the directory
\* or applied by half (tinai.js:269-303, 322-333, 382-400).
CompleteMeansApplied == cliAt = "complete" => AsDescribed
================================================================================
