--------------------------- MODULE OutboundBuild ---------------------------
(***************************************************************************)
(* build_outbounds (mirage/core/outbound.py): leaves first, then the groups *)
(* in rounds, each as soon as all its children exist.                      *)
(***************************************************************************)
EXTENDS Naturals, Sequences, SequencesExt

CONSTANTS Configs    \* raw configurations: sequences of [tag, kind, kids]

VARIABLES items,     \* entries the first pass has not read
          waiting,   \* pending: groups the round has not tried
          retry,     \* next_round
          progress,  \* a group was built in this round
          out,       \* tags built
          phase,     \* "leaves", "groups", "built", "error"
          config     \* what was read, for the properties

buildVars == <<items, waiting, retry, progress, out, phase, config>>

GroupKinds == {"urltest", "fallback", "selector"}
LeafKinds == {"mirage", "pyrealiy", "direct", "block"}
Implicit == {"direct", "block"}
Proxy == [tag |-> "proxy", kind |-> "mirage", kids |-> {}]

(* No outbounds: the legacy top-level server becomes one, or is missing too. *)
BuildInit ==
    /\ config \in Configs \cup {<<Proxy>>, <<>>}
    /\ items = config
    /\ waiting = <<>> /\ retry = <<>> /\ progress = FALSE
    /\ out = {}
    /\ phase = IF config = <<>> THEN "error" ELSE "leaves"

(* The first pass; the tag of a group is compared with the leaves before it. *)
(* An entry that is turned down is left where it is.                         *)
ReadItem ==
    /\ phase = "leaves" /\ items # <<>>
    /\ LET i == Head(items) IN
         \/ /\ i.tag \in out \/ i.kind \notin LeafKinds \cup GroupKinds
            /\ phase' = "error"
            /\ UNCHANGED <<items, out, waiting>>
         \/ /\ i.tag \notin out /\ i.kind \in LeafKinds
            /\ items' = Tail(items) /\ out' = out \cup {i.tag}
            /\ UNCHANGED <<waiting, phase>>
         \/ /\ i.tag \notin out /\ i.kind \in GroupKinds
            /\ items' = Tail(items) /\ waiting' = Append(waiting, i)
            /\ UNCHANGED <<out, phase>>
    /\ UNCHANGED <<retry, progress, config>>

(* getaddrinfo fails for the server of a mirage entry: SystemExit.           *)
ResolveFails ==
    /\ phase = "leaves" /\ items # <<>>
    /\ Head(items).kind \in {"mirage", "pyrealiy"}
    /\ phase' = "error"
    /\ UNCHANGED <<items, waiting, retry, progress, out, config>>

AddImplicit ==
    /\ phase = "leaves" /\ items = <<>>
    /\ out' = out \cup Implicit
    /\ phase' = "groups"
    /\ UNCHANGED <<items, waiting, retry, progress, config>>

(* Mutant: a group whose children are all known or waiting is built.         *)
TryGroup_Forward ==
    /\ phase = "groups" /\ waiting # <<>>
    /\ LET g == Head(waiting) IN
         IF g.kids \subseteq out \cup {w.tag : w \in ToSet(waiting)}
         THEN out' = out \cup {g.tag} /\ progress' = TRUE /\ UNCHANGED <<retry, phase>>
         ELSE retry' = Append(retry, g) /\ UNCHANGED <<out, progress, phase>>
    /\ waiting' = Tail(waiting)
    /\ UNCHANGED <<items, config>>

TryGroup ==
    /\ phase = "groups" /\ waiting # <<>>
    /\ LET g == Head(waiting) IN
         \/ g.kids = {} /\ phase' = "error" /\ UNCHANGED <<out, retry, progress>>
         \/ /\ g.kids # {} /\ g.kids \subseteq out
            /\ out' = out \cup {g.tag} /\ progress' = TRUE
            /\ UNCHANGED <<retry, phase>>
         \/ /\ ~(g.kids \subseteq out)
            /\ retry' = Append(retry, g)
            /\ UNCHANGED <<out, progress, phase>>
    /\ waiting' = Tail(waiting)
    /\ UNCHANGED <<items, config>>

EndRound ==
    /\ phase = "groups" /\ waiting = <<>>
    /\ phase' = IF retry = <<>> THEN "built" ELSE IF progress THEN "groups" ELSE "error"
    /\ waiting' = retry /\ retry' = <<>> /\ progress' = FALSE
    /\ UNCHANGED <<items, out, config>>

BuildNext == ReadItem \/ ResolveFails \/ AddImplicit \/ TryGroup \/ EndRound

BuildSpec == BuildInit /\ [][BuildNext]_buildVars

-----------------------------------------------------------------------------
Entries == ToSet(config)
GroupEntries == {e \in Entries : e.kind \in GroupKinds}
Defined == {e.tag : e \in Entries} \cup Implicit
Stuck(S) == S # {} /\ \A g \in S : g.kids = {} \/ \E k \in g.kids :
                        k \notin Defined \/ \E h \in S : h.tag = k
Bad == \E S \in SUBSET GroupEntries : Stuck(S)

(* No two entries have a tag in common, and no group is called like one of   *)
(* the two leaves that are there anyway.                                     *)
Distinct ==
    /\ \A i, j \in DOMAIN config : config[i].tag = config[j].tag => i = j
    /\ \A g \in GroupEntries : g.tag \notin Implicit

(* The rounds accept exactly the configurations without circular, dangling   *)
(* or empty groups: what is built has no set of groups each of which needs a *)
(* child that is in the set or nowhere, and what is turned down after the    *)
(* last leaf has one (outbound.py:419-447).                                  *)
BuildExact ==
    /\ phase = "built" /\ Distinct => ~Bad /\ out = Defined
    /\ phase = "error" /\ items = <<>> /\ config # <<>> => Bad
=============================================================================
