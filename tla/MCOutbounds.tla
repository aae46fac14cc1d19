---------------------------- MODULE MCOutbounds ----------------------------
(* The pool of one outbound, the times of its connects, the construction   *)
(* of the outbound tree and the choice among its nodes, each on a small    *)
(* instance.  A behaviour is one of the four: what the pools tell the tree *)
(* (a build succeeded in so many ms, or failed) is an environment step of  *)
(* OutboundGroups, an order to build one of BuildStagger.                  *)
EXTENDS MCConnPool, BuildStagger, OutboundBuild, OutboundGroups

VARIABLE part

(* Three groups of up to two children each, among themselves, a leaf and a   *)
(* tag nobody defines; a duplicate leaf; an unknown type.                    *)
Entry(t, k, kids) == [tag |-> t, kind |-> k, kids |-> kids]
ChildTags == {"a", "nowhere", "g1", "g2", "g3"}
Children == {{x, y} : x, y \in ChildTags} \cup {{}}
SmallConfigs ==
    {<<Entry("g1", "urltest", x), Entry("a", "mirage", {}),
       Entry("g2", "fallback", y), Entry("g3", "selector", z)>> : x, y, z \in Children}
    \cup {<<Entry("a", "mirage", {}), Entry("a", "direct", {})>>,
          <<Entry("direct", "direct", {}), Entry("a", "vmess", {})>>,
          <<Entry("direct", "urltest", {"direct"})>>}

(* An urltest group in another one, beside a fallback group that shares a    *)
(* leaf with it, all below a selector.                                       *)
Tree == [a |-> "mirage", b |-> "mirage", direct |-> "direct", inner |-> "urltest",
         outer |-> "urltest", spare |-> "fallback", pick |-> "selector"]
TreeKids == [inner |-> <<"a", "b">>, outer |-> <<"inner", "spare">>,
             spare |-> <<"b", "direct">>, pick |-> <<"outer", "spare">>]
TreeOrder == <<"a", "b", "direct", "inner", "spare", "outer", "pick">>

(* The tree is one the proofs are about.                                     *)
ASSUME TreeAssumption == OrderedTree

allVars == <<vars, part, staggerVars, buildVars, groupVars>>

(* What stands still: no configuration has been read; every node answers.    *)
BuildIdle == /\ config = <<>> /\ items = <<>> /\ waiting = <<>> /\ retry = <<>>
             /\ progress = FALSE /\ out = Implicit /\ phase = "built"
GroupsIdle == GroupsInit /\ up = [n \in Mirages |-> TRUE] /\ cur["pick"] = "outer"

MCInit ==
    /\ Init /\ StaggerInit
    /\ \/ part \in {"pool", "slots"} /\ BuildIdle /\ GroupsIdle
       \/ part = "build" /\ BuildInit /\ GroupsIdle
       \/ part = "groups" /\ BuildIdle /\ GroupsInit

PoolStep(A) == part = "pool" /\ A /\ UNCHANGED <<part, staggerVars, buildVars, groupVars>>
SlotStep(A) == part = "slots" /\ A /\ UNCHANGED <<part, vars, buildVars, groupVars>>
BuildStep(A) == part = "build" /\ A /\ UNCHANGED <<part, vars, staggerVars, groupVars>>
GroupsStep(A) == part = "groups" /\ A /\ UNCHANGED <<part, vars, staggerVars, buildVars>>

(* The configuration has been read; the clock has come to its bound.         *)
Over == /\ \/ part = "build" /\ phase \in {"built", "error"}
           \/ part = "slots" /\ now = MaxTime
        /\ UNCHANGED allVars

MCNext == PoolStep(Next) \/ SlotStep(StaggerNext) \/ BuildStep(BuildNext)
          \/ GroupsStep(GroupsNext) \/ Over

(* The fairness of ConnPool and of OutboundGroups.                           *)
MCFairness ==
    /\ WF_allVars(PoolStep(WarmupDone)) /\ WF_allVars(PoolStep(BuildStart))
    /\ WF_allVars(PoolStep(BuildOk \/ BuildFail))
    /\ \A p \in Requesters :
        /\ WF_allVars(PoolStep(DiscardHead(p) \/ HandOut(p) \/ GetTimeout(p)))
        /\ WF_allVars(PoolStep(DirectOk(p) \/ DirectFail(p)))
    /\ WF_allVars(GroupsStep(Scan))
    /\ \A n \in Mirages :
        WF_allVars(GroupsStep(ProbeEnd(n))) /\ WF_allVars(GroupsStep(Age(n)))

MCSpec == MCInit /\ [][MCNext]_allVars /\ MCFairness

=============================================================================
