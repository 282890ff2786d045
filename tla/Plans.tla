------------------------------- MODULE Plans -------------------------------
(***************************************************************************)
(* A service plan, its bandwidth profile and the radgroupreply rows that    *)
(* RADIUS authentication reads for its group: plansvc.Create, Update and    *)
(* Delete, each a transaction taken statement by statement, several at      *)
(* once.  An UPDATE waits for a transaction that has written the plan's     *)
(* row, and then works on what that one has left; a statement that fails    *)
(* rolls its transaction back.                                              *)
(*                                                                          *)
(* A definition whose name ends in _Bug is the one that follows it with a   *)
(* mistake in it; no specification uses it.                                 *)
(***************************************************************************)
EXTENDS Naturals, Sequences

CONSTANTS
  Planners,     \* requests under way at once
  NoPlanner,    \* nobody: no transaction has written the plan's row
  PlanInputs    \* what a request may ask for

\* The parts of a rate limit, in the order of the Mikrotik-Rate-Limit string.
RateParts == <<"limit", "burst", "threshold", "time", "priority">>

\* An override of the whole string, the parts that are filled in, and whether
\* the plan has an address pool.
AllInputs == [override : BOOLEAN, filled : SUBSET {RateParts[i] : i \in 1..5}, pool : BOOLEAN]

ASSUME PlansAssumption ==
  /\ NoPlanner \notin Planners
  /\ PlanInputs \subseteq AllInputs
  /\ PlanInputs # {}

NoReplies == {}

VARIABLES
  plan,         \* plans: "none", "live" or "deleted"
  profile,      \* plans.pool_name and bandwidth_profiles, as one input
  replies,      \* radgroupreply: the attributes of the plan's group
  planner,      \* where each request stands
  doing,        \* "create", "update" or "delete"
  asks,         \* the input of each request
  dropped,      \* the replies its DELETE has found
  planLock      \* the transaction that has written the plan's row

planVars == <<plan, profile, replies, planner, doing, asks, dropped, planLock>>

SomeInput == CHOOSE i \in PlanInputs : TRUE

PlanInit ==
  /\ plan = "none"
  /\ profile = SomeInput
  /\ replies = NoReplies
  /\ planner = [r \in Planners |-> "idle"]
  /\ doing = [r \in Planners |-> "create"]
  /\ asks = [r \in Planners |-> SomeInput]
  /\ dropped = [r \in Planners |-> NoReplies]
  /\ planLock = NoPlanner

-----------------------------------------------------------------------------
\* MikrotikRate: the override, or the parts up to the first one that is missing;
\* nothing without a limit.
MikrotikRate(i) ==
  IF i.override THEN {"override"}
    ELSE {RateParts[n] : n \in {k \in 1..5 : \A j \in 1..k : RateParts[j] \in i.filled}}

\* The attributes syncBandwidthAndGroup gives the group.
GroupAttrs(i) ==
  (IF MikrotikRate(i) = {} THEN {} ELSE {<<"Mikrotik-Rate-Limit", MikrotikRate(i)>>})
    \cup (IF i.pool THEN {<<"Framed-Pool", {}>>} ELSE {})

PlanTypeOK ==
  /\ plan \in {"none", "live", "deleted"}
  /\ profile \in PlanInputs
  /\ replies \subseteq UNION {GroupAttrs(i) : i \in PlanInputs}
  /\ planner \in [Planners -> {"idle", "write", "replies", "commit"}]
  /\ doing \in [Planners -> {"create", "update", "delete"}]
  /\ asks \in [Planners -> PlanInputs]
  /\ planLock \in Planners \cup {NoPlanner}

-----------------------------------------------------------------------------
\* A valid request.  Delete has read the plan before, without a lock.
BeginPlanning(r, what, input) ==
  /\ planner[r] = "idle"
  /\ IF what = "create"
       THEN plan = "none" /\ \A q \in Planners : planner[q] # "idle" => doing[q] # "create"
       ELSE plan = "live"
  /\ planner' = [planner EXCEPT ![r] = "write"]
  /\ doing' = [doing EXCEPT ![r] = what]
  /\ asks' = [asks EXCEPT ![r] = input]
  /\ UNCHANGED <<plan, profile, replies, dropped, planLock>>

WritePlan_Bug(r) ==     \* an update that does not lock the plan first
  /\ planner[r] = "write"
  /\ doing[r] = "update" => plan = "live"
  /\ planner' = [planner EXCEPT ![r] = "replies"]
  /\ planLock' = IF doing[r] = "update" THEN planLock ELSE r
  /\ UNCHANGED <<plan, profile, replies, doing, asks, dropped>>

\* INSERT, UPDATE or SoftDelete of the plan and, but for the latter, the profile's
\* upsert.  An update of a deleted plan finds nothing and fails; deleting it once
\* more does no harm.
WritePlan(r) ==
  /\ planner[r] = "write"
  /\ planLock = NoPlanner
  /\ doing[r] = "update" => plan = "live"
  /\ planner' = [planner EXCEPT ![r] = "replies"]
  /\ planLock' = r
  /\ UNCHANGED <<plan, profile, replies, doing, asks, dropped>>

\* SetGroupReply: the DELETE; its INSERTs are staged until the commit.
SetGroupReply(r) ==
  /\ planner[r] = "replies"
  /\ planner' = [planner EXCEPT ![r] = "commit"]
  /\ dropped' = [dropped EXCEPT ![r] = replies]
  /\ UNCHANGED <<plan, profile, replies, doing, asks, planLock>>

PlanningDone(r) ==
  /\ planner' = [planner EXCEPT ![r] = "idle"]
  /\ dropped' = [dropped EXCEPT ![r] = NoReplies]
  /\ planLock' = IF planLock = r THEN NoPlanner ELSE planLock

CommitPlan(r) ==
  /\ planner[r] = "commit"
  /\ IF doing[r] = "delete"
       THEN /\ plan' = "deleted"
            /\ replies' = replies \ dropped[r]
            /\ UNCHANGED profile
       ELSE /\ plan' = IF doing[r] = "create" THEN "live" ELSE plan
            /\ profile' = asks[r]
            /\ replies' = (replies \ dropped[r]) \cup GroupAttrs(asks[r])
  /\ PlanningDone(r)
  /\ UNCHANGED <<doing, asks>>

\* The plan's name is taken, another statement fails, or the process dies.
AbortPlan(r) ==
  /\ planner[r] # "idle"
  /\ PlanningDone(r)
  /\ UNCHANGED <<plan, profile, replies, doing, asks>>

PlanNext ==
  \E r \in Planners :
    \/ \E what \in {"create", "update", "delete"}, input \in PlanInputs : BeginPlanning(r, what, input)
    \/ WritePlan(r) \/ SetGroupReply(r) \/ CommitPlan(r) \/ AbortPlan(r)

PlanSpec == PlanInit /\ [][PlanNext]_planVars

-----------------------------------------------------------------------------
\* The group of a plan has the attributes its row and its profile call for, and
\* the group of a deleted plan has none: the three tables go together however
\* edits and a deletion overlap or fail.
RepliesMatchPlan == replies = IF plan = "live" THEN GroupAttrs(profile) ELSE NoReplies

=============================================================================
