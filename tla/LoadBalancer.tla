---------------------------- MODULE LoadBalancer ----------------------------
(***************************************************************************)
(* The load balancing policies of load_balancing.c: a list of backend      *)
(* addresses with weights and health flags, and the three ways to pick one *)
(* of them.  Every operation is one critical section of policy->mutex, and *)
(* one action.  A pick is identified by the position of the backend in the *)
(* list (0 for NULL), since the same address may have been added twice.    *)
(***************************************************************************)
EXTENDS Integers, Sequences, FiniteSets

CONSTANTS
    Addresses,      \* backend addresses
    Weights,        \* the weights passed to grpc_lb_policy_add_address
    IntMax,         \* the largest int
    MaxBackends,    \* bound: backends added
    MaxPicks        \* bound: picks remembered

ASSUME LoadBalancerAssumption ==
    /\ IntMax \in Nat \ {0}
    /\ Weights \subseteq -(IntMax + 1) .. IntMax
    /\ MaxBackends \in Nat
    /\ MaxPicks \in Nat

VARIABLES
    policy,      \* policy->type, or "destroyed"
    list,        \* policy->addresses
    index,       \* policy->current_index
    picks        \* history: the picks since the list last changed

policyVars == <<policy, list, index, picks>>

Policies == {"ROUND_ROBIN", "PICK_FIRST", "WEIGHTED"}

Available(l) == {i \in 1 .. Len(l) : l[i].available}

Least(S) == CHOOSE i \in S : \A j \in S : i <= j

-----------------------------------------------------------------------------
\* grpc_lb_round_robin_pick: the first available backend found from the
\* current index on, going round the list at most once.
RoundRobinPick(l, start) ==
    LET found == {k \in 0 .. Len(l) - 1 : l[((start + k) % Len(l)) + 1].available}
    IN  IF found = {} THEN 0 ELSE ((start + Least(found)) % Len(l)) + 1

\* A pick that returns a backend advances the index by one.
Bug_AdvanceTwice(l, i) == (i + 2) % Len(l)
Advance(l, i) == (i + 1) % Len(l)

\* grpc_lb_pick_first_pick
PickFirstPick(l) == IF Available(l) = {} THEN 0 ELSE Least(Available(l))

\* An int plus a weight, which is positive: the sum may wrap around at the upper
\* end of the ints.
Wrap(x) == IF x > IntMax THEN x - 2 * (IntMax + 1) ELSE x

\* The weights of the available backends among the first k, summed in an int.
WeightUpTo(l) ==
    LET sum[k \in 0 .. Len(l)] ==
          IF k = 0 THEN 0
          ELSE Wrap(sum[k - 1] + (IF l[k].available THEN l[k].weight ELSE 0))
    IN  sum

TotalWeight(l) == WeightUpTo(l)[Len(l)]

\* rand() % total_weight has the sign of rand(), also if the total is negative.
Randoms(l) ==
    0 .. (IF TotalWeight(l) < 0 THEN -TotalWeight(l) ELSE TotalWeight(l)) - 1

\* grpc_lb_weighted_pick, for a random number r.
Bug_WeightedPick(l, r) ==
    LET hit == {i \in Available(l) : WeightUpTo(l)[i] >= r}
    IN  IF hit = {} THEN 0 ELSE Least(hit)
WeightedPick(l, r) ==
    LET hit == {i \in Available(l) : WeightUpTo(l)[i] > r}
    IN  IF hit = {} THEN 0 ELSE Least(hit)

-----------------------------------------------------------------------------
\* grpc_lb_policy_create
PolicyInit ==
    /\ policy \in Policies
    /\ list = <<>>
    /\ index = 0
    /\ picks = <<>>

\* grpc_lb_policy_add_address: at the end, available, with weight at least 1.
Backend(a, w) == [address |-> a, weight |-> IF w > 0 THEN w ELSE 1, available |-> TRUE]

AddAddress(a, w) ==
    /\ policy \in Policies
    /\ Len(list) < MaxBackends
    /\ list' = Append(list, Backend(a, w))
    /\ picks' = <<>>
    /\ UNCHANGED <<policy, index>>

\* grpc_lb_policy_mark_available and _mark_unavailable: the first backend
\* with that address.
Mark(a, b) ==
    LET found == {i \in 1 .. Len(list) : list[i].address = a}
    IN  /\ found # {}
        /\ list' = [list EXCEPT ![Least(found)].available = b]
        /\ picks' = <<>>
        /\ UNCHANGED <<policy, index>>

Remember(i) == picks' = Append(picks, i)

\* grpc_lb_policy_pick
RoundRobin ==
    /\ policy = "ROUND_ROBIN"
    /\ list # <<>>
    /\ Remember(RoundRobinPick(list, index))
    /\ index' = IF RoundRobinPick(list, index) = 0 THEN index ELSE Advance(list, index)
    /\ UNCHANGED <<policy, list>>

PickFirst ==
    /\ policy = "PICK_FIRST"
    /\ list # <<>>
    /\ Remember(PickFirstPick(list))
    /\ UNCHANGED <<policy, list, index>>

Weighted ==
    /\ policy = "WEIGHTED"
    /\ list # <<>>
    /\ \/ TotalWeight(list) = 0 /\ Remember(0)
       \/ \E r \in Randoms(list) : Remember(WeightedPick(list, r))
    /\ UNCHANGED <<policy, list, index>>

\* With no backend yet every policy returns NULL, and changes nothing.
Pick == Len(picks) < MaxPicks /\ (RoundRobin \/ PickFirst \/ Weighted)

\* grpc_lb_policy_destroy
DestroyPolicy ==
    /\ policy' = "destroyed"
    /\ list' = <<>>
    /\ index' = 0
    /\ picks' = <<>>

PolicyNext ==
    \/ \E a \in Addresses, w \in Weights : AddAddress(a, w)
    \/ \E a \in Addresses, b \in BOOLEAN : Mark(a, b)
    \/ Pick
    \/ DestroyPolicy

PolicySpec == PolicyInit /\ [][PolicyNext]_policyVars

-----------------------------------------------------------------------------
\* No sum of weights overflows: one that does is negative at first.
NoOverflow(l) == \A k \in 0 .. Len(l) : WeightUpTo(l)[k] >= 0

\* Whatever has been added and marked before, a pick of any policy returns an
\* available backend; it returns NULL only if there is none, or if the weights
\* overflow.  Round robin serves every available backend in as many picks as
\* there are backends, from wherever it starts: all of them once if all are
\* available, and none is left out if some are not.
PicksFair ==
    /\ \A k \in 1 .. Len(picks) :
         \/ picks[k] \in Available(list)
         \/ /\ picks[k] = 0
            /\ Available(list) = {} \/ (policy = "WEIGHTED" /\ ~NoOverflow(list))
    /\ policy = "ROUND_ROBIN" =>
         \A i \in Available(list), j \in 1 .. Len(picks) :
             j + Len(list) - 1 <= Len(picks) =>
                 \E k \in j .. j + Len(list) - 1 : picks[k] = i

\* Unless the weights overflow, the weighted policy gives each available
\* backend exactly its weight's share of the random numbers, and the others
\* none.
WeightedShare ==
    NoOverflow(list) =>
        \A i \in 1 .. Len(list) :
            Cardinality({r \in Randoms(list) : WeightedPick(list, r) = i})
              = IF list[i].available THEN list[i].weight ELSE 0
=============================================================================
