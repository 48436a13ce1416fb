----------------------------- MODULE Containers -----------------------------
(***************************************************************************)
(* What traceline makes in Podman and removes again: the network and the   *)
(* relay of a proxied run (runtime/network.py, egress/session.py), the     *)
(* container of one case (runtime/sandbox.py) or of one custom evaluation  *)
(* (runtime/custom_evaluator.py), the topology of the containment probe    *)
(* (runtime/podman.py), and the staged copy an image is built from         *)
(* (runtime/build.py).                                                     *)
(*                                                                         *)
(* Podman runs beside the program: a command that is interrupted may have  *)
(* had its effect, may never have it, or, when it creates, may have it     *)
(* later. A name can be taken once, and a network that is in use cannot be *)
(* removed. The proxy itself lives in the process and dies with it.        *)
(***************************************************************************)
EXTENDS Integers, Sequences, FiniteSets

CONSTANTS
    Hosts,      \* processes, each with one activity
    MaxSlips    \* bound on failed commands, crashes and edits of a source

ASSUME ContainersAssumption == MaxSlips \in Nat

VARIABLES
    present,    \* the networks and containers that exist
    arriving,   \* creations that were interrupted and will still take place
    source,     \* the source directory, which others may edit
    host,       \* per process: its activity, its step, and what it works with
    loose,      \* what is known to be left for an operator to remove
    slips

containersVars == <<present, arriving, source, host, loose, slips>>

\* The names of network and relay come from the run id: every session of a
\* run has the same ones. All other names are drawn at random.
Net == <<"run", "net">>
Relay == <<"run", "relay">>
Own(h, what) == <<h, what>>
Box(h) == Own(h, IF host[h].act = "session" THEN "agent" ELSE "case")

Needs(t) ==
    CASE t[2] \in {"relay", "agent"} -> {Net}
      [] t[2] \in {"server", "client"} -> {Own(t[1], "pnet")}
      [] OTHER -> {}

Attached(t) == {c \in present : t \in Needs(c)}

MovedTo(h, step) == [host[h] EXCEPT !.at = step]
LeftWith(h, step, result) == [host[h] EXCEPT !.at = step, !.result = result]
Host(h, new) == host' = [host EXCEPT ![h] = new]
Slip == slips < MaxSlips /\ slips' = slips + 1

CanMake(t) == t \notin present /\ Needs(t) \subseteq present

\* Made, or refused for want of a free name or a network; or interrupted,
\* which the caller cannot tell from refused. A network whose creation was
\* interrupted has no lease and is left to the operator.
Makes(h, t, made, refused) ==
    \/ /\ CanMake(t)
       /\ present' = present \cup {t} /\ loose' = loose \ {t}
       /\ Host(h, [made EXCEPT !.made = @ \cup {t}])
       /\ UNCHANGED <<arriving, slips>>
    \/ /\ ~CanMake(t)
       /\ Host(h, refused) /\ UNCHANGED <<present, arriving, loose, slips>>
    \/ /\ Slip
       /\ \/ Host(h, refused) /\ UNCHANGED <<present, arriving, loose>>
          \/ /\ CanMake(t)
             /\ present' = present \cup {t}
             /\ loose' = IF t = Net THEN loose \cup {t} ELSE loose \ {t}
             /\ Host(h, [refused EXCEPT !.made = @ \cup {t}])
             /\ UNCHANGED arriving
          \/ /\ arriving' = arriving \cup {t}
             /\ Host(h, refused) /\ UNCHANGED <<present, loose>>

Removes(h, t, removed, kept) ==
    \/ /\ Attached(t) = {}
       /\ present' = present \ {t} /\ loose' = loose \ {t}
       /\ Host(h, removed) /\ UNCHANGED slips
    \/ /\ Attached(t) # {}
       /\ loose' = loose \cup {t} /\ Host(h, kept) /\ UNCHANGED <<present, slips>>
    \/ /\ Slip
       /\ \/ UNCHANGED present
          \/ Attached(t) = {} /\ present' = present \ {t}
       /\ loose' = (loose \cup {t}) \cap present'
       /\ Host(h, kept)

ContainersInit ==
    /\ present = {} /\ arriving = {} /\ loose = {} /\ slips = 0
    /\ source = "approved"
    /\ host = [h \in Hosts |-> [act |-> "none", at |-> "idle", expected |-> "none",
                                staged |-> "none", result |-> "none", made |-> {},
                                tried |-> <<>>]]

OnlyHost == UNCHANGED <<present, arriving, source, loose>>

\* SandboxLimits and SandboxRequest.
SandboxRequests ==
    [image: {"digest", "tag"}, egress: {"none", "proxy", "host"},
     given: SUBSET {"endpoint", "network", "run", "ca"},
     entrypoint: {"absolute", "relative"}, limits: {"bounded", "unbounded"}]

RequestAccepted(r) ==
    /\ r.image = "digest" /\ r.entrypoint = "absolute" /\ r.limits = "bounded"
    /\ r.egress \in {"none", "proxy"}
    /\ r.egress = "proxy" => r.given = {"endpoint", "network", "run", "ca"}

-----------------------------------------------------------------------------
(***************************************************************************)
(* The session of a run: ProxyRunSession, _PodmanProxyRelay,               *)
(* PodmanRunNetwork                                                        *)
(***************************************************************************)
BeginSession(h) ==
    /\ host[h].at = "idle"
    /\ Host(h, [host[h] EXCEPT !.act = "session", !.at = "net", !.expected = "approved"])
    /\ OnlyHost /\ UNCHANGED slips

\* Mutant of CreateNetwork: a network that is there already will do.
CreateNetworkOrReuse(h) ==
    /\ host[h].at = "net" /\ UNCHANGED source
    /\ \/ Makes(h, Net, MovedTo(h, "validate"), MovedTo(h, "done"))
       \/ /\ Net \in present
          /\ Host(h, MovedTo(h, "validate")) /\ UNCHANGED <<present, arriving, loose, slips>>

CreateNetwork(h) ==
    /\ host[h].at = "net" /\ UNCHANGED source
    /\ Makes(h, Net, MovedTo(h, "validate"), MovedTo(h, "done"))

\* A network that does not validate is not removed: there is no lease yet.
ValidateNetwork(h) ==
    /\ host[h].at = "validate"
    /\ \/ Host(h, MovedTo(h, "ready")) /\ UNCHANGED <<loose, slips>>
       \/ Slip /\ Host(h, MovedTo(h, "done")) /\ loose' = loose \cup {Net}
    /\ UNCHANGED <<present, arriving, source>>

\* The listener is bound and the relay's image found, or the network goes.
StartProxy(h) ==
    /\ host[h].at = "ready"
    /\ \/ Host(h, MovedTo(h, "relay")) /\ UNCHANGED slips
       \/ Slip /\ Host(h, MovedTo(h, "unnet"))
    /\ OnlyHost

StartRelay(h) ==
    /\ host[h].at = "relay" /\ UNCHANGED source
    /\ Makes(h, Relay, MovedTo(h, "inspect"), MovedTo(h, "unrelay"))

InspectRelay(h) ==
    /\ host[h].at = "inspect"
    /\ \/ Host(h, MovedTo(h, "open")) /\ UNCHANGED slips
       \/ Slip /\ Host(h, MovedTo(h, "unrelay"))
    /\ OnlyHost

\* One case stands for the cases of the run.
RunCase(h) ==
    /\ host[h].at = "open" /\ host[h].result = "none"
    /\ \E r \in SandboxRequests :
        Host(h, IF RequestAccepted(r) THEN MovedTo(h, "check") ELSE LeftWith(h, "open", "blocked"))
    /\ OnlyHost /\ UNCHANGED slips

CloseSession(h) ==
    /\ host[h].at = "open"
    /\ Host(h, MovedTo(h, "unrelay"))
    /\ OnlyHost /\ UNCHANGED slips

\* What the two removals answer is read by nobody.
StopRelay(h) ==
    /\ host[h].at = "unrelay" /\ UNCHANGED <<arriving, source>>
    /\ Removes(h, Relay, MovedTo(h, "unnet"), MovedTo(h, "unnet"))

RemoveNetwork(h) ==
    /\ host[h].at = "unnet" /\ UNCHANGED <<arriving, source>>
    /\ Removes(h, Net, MovedTo(h, "done"), MovedTo(h, "done"))

-----------------------------------------------------------------------------
(***************************************************************************)
(* PodmanSandbox.run: one case, or one evaluation by custom code           *)
(***************************************************************************)
\* A tree with a link, a special file, too much of anything or nothing at all
\* has no digest.
SnapshotDigest(tree) == IF tree = "linked" THEN "denied" ELSE tree

\* CustomEvaluatorSandbox.evaluate takes the digest of the source it is given.
BeginEvaluation(h) ==
    /\ host[h].at = "idle"
    /\ \E r \in SandboxRequests :
        Host(h, IF RequestAccepted(r) /\ SnapshotDigest(source) # "denied"
                THEN [host[h] EXCEPT !.act = "evaluate", !.at = "check", !.expected = source]
                ELSE LeftWith(h, "done", "denied"))
    /\ OnlyHost /\ UNCHANGED slips

AfterCase(h) == IF host[h].act = "session" THEN "open"
                ELSE IF host[h].act = "evaluate" THEN "score" ELSE "done"
Blocked(h) == LeftWith(h, AfterCase(h), "blocked")

\* A rootless engine with its limits, the image, no cancel yet, the network.
CheckEngine(h) ==
    /\ host[h].at = "check"
    /\ \/ Host(h, MovedTo(h, "digest")) /\ UNCHANGED slips
       \/ Slip /\ Host(h, Blocked(h))
    /\ OnlyHost

DigestSource(h) ==
    /\ host[h].at = "digest"
    /\ Host(h, IF SnapshotDigest(source) = host[h].expected THEN MovedTo(h, "copy") ELSE Blocked(h))
    /\ OnlyHost /\ UNCHANGED slips

\* The tree is copied file by file; an edit meanwhile leaves a mixture.
CopySource(h) ==
    /\ host[h].at = "copy"
    /\ \E tree \in {source, "torn"} : Host(h, [host[h] EXCEPT !.staged = tree, !.at = "staged"])
    /\ OnlyHost /\ UNCHANGED slips

\* Mutant of StagedAsExpected: the copy of a validated tree is trusted.
StagedUnchecked(h) == host[h].expected # "denied"

StagedAsExpected(h) == SnapshotDigest(host[h].staged) = host[h].expected

CheckStaged(h) ==
    /\ host[h].at = "staged"
    /\ Host(h, IF ~StagedAsExpected(h) THEN Blocked(h)
               ELSE MovedTo(h, IF host[h].act = "build" THEN "build" ELSE "create"))
    /\ OnlyHost /\ UNCHANGED slips

\* Mutant of Uncreated: cleaning up starts with a creation that succeeded.
UncreatedForgotten(h) == LeftWith(h, AfterCase(h), "blocked")

\* The container is cleaned up even when its creation failed.
Uncreated(h) == LeftWith(h, "exists", "blocked")

CreateBox(h) ==
    /\ host[h].at = "create" /\ UNCHANGED source
    /\ Makes(h, Box(h), MovedTo(h, "start"), Uncreated(h))

StartBox(h) ==
    /\ host[h].at = "start"
    /\ \/ Host(h, MovedTo(h, "exec")) /\ UNCHANGED slips
       \/ Slip /\ Host(h, LeftWith(h, "exists", "blocked"))
    /\ OnlyHost

\* Completed; or a status other than 0, the time limit, a cancel.
ExecBox(h) ==
    /\ host[h].at = "exec"
    /\ \/ Host(h, LeftWith(h, "collect", "completed"))
       \/ Host(h, LeftWith(h, "exists", "failed"))
    /\ OnlyHost /\ UNCHANGED slips

\* read_output_archive: the members of the archive, in order.
Archives == {<<>>} \cup
    {<<[name |-> "score", kind |-> k, path |-> p, fits |-> f]>> :
        k \in {"file", "link"}, p \in {"inside", "outside"}, f \in BOOLEAN}
    \cup {[i \in {1, 2} |-> [name |-> "score", kind |-> "file", path |-> "inside", fits |-> TRUE]]}

ArchiveAccepted(members) ==
    /\ \A i \in DOMAIN members :
        members[i].kind = "file" /\ members[i].path = "inside" /\ members[i].fits
    /\ \A i, j \in DOMAIN members : members[i].name = members[j].name => i = j

CollectOutput(h) ==
    /\ host[h].at = "collect"
    /\ \/ /\ \E members \in Archives :
               Host(h, IF ArchiveAccepted(members) THEN MovedTo(h, "exists")
                       ELSE LeftWith(h, "exists", "blocked"))
          /\ UNCHANGED slips
       \/ Slip /\ Host(h, LeftWith(h, "exists", "failed"))
    /\ OnlyHost

\* A cleanup that is not complete fails the case and drops its output.
Unclean(h) == LeftWith(h, AfterCase(h), "failed")
LeftHere(h) == loose' = loose \cup ({Box(h)} \cap present)

CheckExists(h) ==
    /\ host[h].at = "exists"
    /\ \/ /\ Host(h, MovedTo(h, IF Box(h) \in present THEN "rm" ELSE AfterCase(h)))
          /\ UNCHANGED <<loose, slips>>
       \/ Slip /\ Host(h, Unclean(h)) /\ LeftHere(h)
    /\ UNCHANGED <<present, arriving, source>>

RemoveBox(h) ==
    /\ host[h].at = "rm" /\ UNCHANGED <<arriving, source>>
    /\ Removes(h, Box(h), MovedTo(h, "absent"), MovedTo(h, "kept"))

ConfirmAbsent(h) ==
    /\ host[h].at \in {"absent", "kept"}
    /\ \/ /\ Host(h, IF host[h].at = "absent" /\ Box(h) \notin present
                     THEN MovedTo(h, AfterCase(h)) ELSE Unclean(h))
          /\ UNCHANGED slips
       \/ Slip /\ Host(h, Unclean(h))
    /\ LeftHere(h)
    /\ UNCHANGED <<present, arriving, source>>

\* score.json may be missing, too large or of another shape.
TakeScore(h) ==
    /\ host[h].at = "score"
    /\ \/ host[h].result = "completed" /\ Host(h, LeftWith(h, "done", "scored"))
       \/ Host(h, LeftWith(h, "done", "denied"))
    /\ OnlyHost /\ UNCHANGED slips

-----------------------------------------------------------------------------
(***************************************************************************)
(* BuildService.prepare                                                    *)
(***************************************************************************)
Profiles == [base: {"digest", "tag"}, entrypoint: {"absolute", "relative"}, egress: {"none", "proxy", "host"}]

ProfileAccepted(p) ==
    p.base = "digest" /\ p.entrypoint = "absolute" /\ p.egress \in {"none", "proxy"}

BeginBuild(h) ==
    /\ host[h].at = "idle"
    /\ \E p \in Profiles :
        Host(h, IF ProfileAccepted(p) /\ SnapshotDigest(source) # "denied"
                THEN [host[h] EXCEPT !.act = "build", !.at = "engine", !.expected = source]
                ELSE LeftWith(h, "done", "denied"))
    /\ OnlyHost /\ UNCHANGED slips

\* _require_rootless_engine.
RequireEngine(h) ==
    /\ host[h].at = "engine"
    /\ \/ Host(h, MovedTo(h, "copy")) /\ UNCHANGED slips
       \/ Slip /\ Host(h, LeftWith(h, "done", "denied"))
    /\ OnlyHost

\* Build and inspect: the image is known by its digest or not at all.
BuildImage(h) ==
    /\ host[h].at = "build"
    /\ \/ Host(h, LeftWith(h, "done", "prepared")) /\ UNCHANGED slips
       \/ Slip /\ Host(h, LeftWith(h, "done", "denied"))
    /\ OnlyHost

-----------------------------------------------------------------------------
(***************************************************************************)
(* preflight and run_containment_probe                                     *)
(***************************************************************************)
Facts == [tier: {"runc", "runsc", "vm", "docker"}, system: {"linux", "darwin"},
          socket: {"unset", "unsafe", "root", "user"},
          connection: {"no_podman", "none", "root", "user"},
          machine: {"no_podman", "stopped", "running"},
          info: {"no_podman", "failed", "rootful", "rootless"}]

Preflight(f) ==
    IF f.tier \notin {"runc", "runsc", "vm"} THEN "runtime_invalid"
    ELSE IF f.tier = "vm" \/ (f.tier = "runsc" /\ f.system # "linux") THEN "runtime_unsupported"
    ELSE IF f.socket = "unsafe" THEN "runtime_socket_invalid"
    ELSE IF f.socket = "root" THEN "rootless_runtime_required"
    ELSE IF f.socket = "unset" /\ f.connection \in {"no_podman", "none"} THEN "runtime_unavailable"
    ELSE IF f.socket = "unset" /\ f.connection = "root" THEN "rootless_runtime_required"
    ELSE IF f.system = "darwin" /\ f.machine # "running" THEN "runtime_unavailable"
    ELSE IF f.info \in {"no_podman", "failed"} THEN "runtime_unavailable"
    ELSE IF f.info = "rootful" THEN "rootless_runtime_required"
    ELSE "ready"

\* _is_root_connection, _socket_override and _machine_is_running, seen from
\* outside: a host that is ready talks to a rootless engine it can reach,
\* through an explicit socket whatever the default connection is.
ASSUME ReadyIsRootless ==
    \A f \in Facts : Preflight(f) = "ready" <=>
        /\ f.tier = "runc" \/ (f.tier = "runsc" /\ f.system = "linux")
        /\ f.info = "rootless" /\ (f.system = "darwin" => f.machine = "running")
        /\ f.socket = "user" \/ (f.socket = "unset" /\ f.connection = "user")

\* The hosts considered are a good one and those that differ from it in one
\* point.
GoodFacts == [tier |-> "runc", system |-> "linux", socket |-> "unset",
              connection |-> "user", machine |-> "stopped", info |-> "rootless"]
NearFacts ==
    {[GoodFacts EXCEPT !.tier = x] : x \in {"runc", "runsc", "vm", "docker"}}
    \cup {[GoodFacts EXCEPT !.system = "darwin", !.machine = x] : x \in {"stopped", "running"}}
    \cup {[GoodFacts EXCEPT !.socket = x] : x \in {"unsafe", "root", "user"}}
    \cup {[GoodFacts EXCEPT !.connection = x] : x \in {"no_podman", "none", "root"}}
    \cup {[GoodFacts EXCEPT !.info = x] : x \in {"no_podman", "failed", "rootful"}}

BeginProbe(h) ==
    /\ host[h].at = "idle"
    /\ \E f \in NearFacts :
        Host(h, IF Preflight(f) = "ready"
                THEN [host[h] EXCEPT !.act = "probe", !.at = "pnet", !.result = "failed"]
                ELSE LeftWith(h, "done", "blocked"))
    /\ OnlyHost /\ UNCHANGED slips

\* resource_attempts keeps what was asked for, and whether it is known to be there.
Tried(h, step, what, started) ==
    [host[h] EXCEPT !.at = step, !.tried = Append(@, [what |-> what, started |-> started])]

Attempt(h, what, next) ==
    /\ host[h].at = what /\ UNCHANGED source
    /\ Makes(h, Own(h, what), Tried(h, next, what, TRUE), Tried(h, "clean", what, FALSE))

StartTopology(h) ==
    Attempt(h, "pnet", "server") \/ Attempt(h, "server", "client") \/ Attempt(h, "client", "dial")

\* The witness answers, and the dial out is refused with wget's own status.
Dial(h) ==
    /\ host[h].at = "dial"
    /\ \/ Host(h, LeftWith(h, "clean", "observed")) /\ UNCHANGED slips
       \/ Slip /\ Host(h, MovedTo(h, "clean"))
    /\ OnlyHost

LastTried(h) == host[h].tried[Len(host[h].tried)]

\* In the reverse order; what is not known to have started is looked for first.
CleanProbe(h) ==
    /\ host[h].at = "clean" /\ host[h].tried # <<>>
    /\ UNCHANGED <<arriving, source>>
    /\ LET t == Own(h, LastTried(h).what)
           gone == [host[h] EXCEPT !.tried = SubSeq(@, 1, Len(@) - 1)]
           kept == [gone EXCEPT !.result = "failed"] IN
       IF LastTried(h).started THEN Removes(h, t, gone, kept)
       ELSE \/ /\ t \notin present
               /\ Host(h, gone) /\ UNCHANGED <<present, loose, slips>>
            \/ t \in present /\ Removes(h, t, gone, kept)
            \/ /\ Slip /\ loose' = loose \cup ({t} \cap present)
               /\ Host(h, kept) /\ UNCHANGED present

EndProbe(h) ==
    /\ host[h].at = "clean" /\ host[h].tried = <<>>
    /\ Host(h, MovedTo(h, "done"))
    /\ OnlyHost /\ UNCHANGED slips

-----------------------------------------------------------------------------
(***************************************************************************)
(* What happens around the program                                         *)
(***************************************************************************)
EditSource ==
    /\ Slip
    /\ source' \in {"approved", "edited", "linked"} \ {source}
    /\ UNCHANGED <<present, arriving, host, loose>>

\* An interrupted creation takes place after all, if it still can.
TakesEffect(t) ==
    /\ t \in arriving /\ arriving' = arriving \ {t}
    /\ IF CanMake(t) THEN present' = present \cup {t} /\ loose' = loose \cup {t}
                     ELSE UNCHANGED <<present, loose>>
    /\ UNCHANGED <<source, host, slips>>

\* What a process asks Podman to make at its step.
Making(h) ==
    CASE host[h].at = "net" -> {Net}
      [] host[h].at = "relay" -> {Relay}
      [] host[h].at = "create" -> {Box(h)}
      [] host[h].at \in {"pnet", "server", "client"} -> {Own(h, host[h].at)}
      [] OTHER -> {}

CrashHost(h) ==
    /\ host[h].at \notin {"idle", "done"} /\ Slip
    /\ arriving' \in {arriving, arriving \cup Making(h)}
    /\ loose' = loose \cup (host[h].made \cap present)
    /\ Host(h, LeftWith(h, "done", "crashed"))
    /\ UNCHANGED <<present, source>>

\* An operator removes what is left of processes that are over.
Tidy(t) ==
    /\ t \in loose /\ Attached(t) = {}
    /\ \A h \in Hosts : t \in host[h].made => host[h].at = "done"
    /\ present' = present \ {t} /\ loose' = loose \ {t}
    /\ UNCHANGED <<arriving, source, host, slips>>

ContainersNext ==
    \/ \E h \in Hosts :
        \/ BeginSession(h) \/ CreateNetwork(h) \/ ValidateNetwork(h) \/ StartProxy(h)
        \/ StartRelay(h) \/ InspectRelay(h) \/ RunCase(h) \/ CloseSession(h)
        \/ StopRelay(h) \/ RemoveNetwork(h)
        \/ BeginEvaluation(h) \/ CheckEngine(h) \/ DigestSource(h) \/ CopySource(h) \/ CheckStaged(h)
        \/ CreateBox(h) \/ StartBox(h) \/ ExecBox(h) \/ CollectOutput(h)
        \/ CheckExists(h) \/ RemoveBox(h) \/ ConfirmAbsent(h) \/ TakeScore(h)
        \/ BeginBuild(h) \/ RequireEngine(h) \/ BuildImage(h)
        \/ BeginProbe(h) \/ StartTopology(h) \/ Dial(h) \/ CleanProbe(h) \/ EndProbe(h)
        \/ CrashHost(h)
    \/ EditSource
    \/ \E t \in arriving : TakesEffect(t)
    \/ \E t \in loose : Tidy(t)

ContainersSpec == ContainersInit /\ [][ContainersNext]_containersVars

-----------------------------------------------------------------------------
\* Nothing is left in Podman that nobody is going to remove, failures and
\* interrupted commands included, except what is known to be lost: a removal
\* or its check was not confirmed, a creation came late, a network was never
\* leased, or its process died. (The cleanups of sandbox.py:288-376,
\* egress/session.py:61-195 and podman.py:248-277.)
NothingLeftBehind ==
    \A t \in present \ loose : \E h \in Hosts : t \in host[h].made /\ host[h].at # "done"

\* While the session of a run is open its network and its relay are there,
\* although another process that executes the same run uses the same names and
\* removes what it finds under them. (The create of network.py:41-52 that a
\* taken name refuses, before relay and cleanup of session.py:146-195.)
UndisturbedSession ==
    \A h \in Hosts : host[h].act = "session" /\ host[h].at \in {"open", "check", "create", "exec"} =>
        {Net, Relay} \subseteq present

\* What is mounted in a container, or copied into an image, is the snapshot the
\* request names, although the directory it comes from may change at any time.
\* (The digests around the copies of sandbox.py:328-335 and build.py:80-104.)
ContainerRunsItsSnapshot ==
    \A h \in Hosts : host[h].at \in {"start", "exec", "collect"} \/ host[h].result = "prepared" =>
        host[h].staged = host[h].expected
=============================================================================
