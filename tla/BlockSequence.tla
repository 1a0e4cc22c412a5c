---------------------------- MODULE BlockSequence ----------------------------
(***************************************************************************)
(* The lists of one peerToDispatch: absorb2, which takes a batch of blocks *)
(* into p.distances and merges it into p.sequence, and squeeze, which      *)
(* walks that sequence for the next request.  Both are checked against the *)
(* set operators of BlockSets that Dispatcher is built from.               *)
(*                                                                         *)
(* absorb2 holds p.lock from its first to its last line: a step is a call. *)
(***************************************************************************)
EXTENDS BlockSets, SequencesExt

CONSTANTS
    Owner,      \* the peer of this worker
    Batches     \* lists of blocks absorb2 may be called with

ASSUME BatchesAssumption == Owner \in Peers /\ Batches \subseteq Seq(Cids)

VARIABLES
    distances,  \* blocks with an entry in the sync.Map p.distances
    sequence    \* the slice p.sequence

lists == <<distances, sequence>>

-----------------------------------------------------------------------------
Closer(c, d) == Distance[Owner][c] < Distance[Owner][d]

BugSkipsKnown(acc, c) ==
    IF c \in acc.dist THEN acc
    ELSE [acc EXCEPT !.dist = @ \cup {c}, !.unadd = Append(@, c)]

\* The first loop of absorb2: a block with a distance ends it.
Collect(acc, c) ==
    IF acc.stopped \/ c \in acc.dist THEN [acc EXCEPT !.stopped = TRUE]
    ELSE [acc EXCEPT !.dist = @ \cup {c}, !.unadd = Append(@, c)]

BugComparesBackwards(s, t, m) ==
    IF m.p1 > Len(s) \/ (m.p2 <= Len(t) /\ Closer(s[m.p1], t[m.p2]))
    THEN [m EXCEPT !.out = Append(@, t[m.p2]), !.p2 = @ + 1]
    ELSE [m EXCEPT !.out = Append(@, s[m.p1]), !.p1 = @ + 1]

\* One turn of the merge loop over the old sequence s and the sorted batch t.
MergeTurn(s, t, m) ==
    IF m.p1 > Len(s) \/ (m.p2 <= Len(t) /\ ~Closer(s[m.p1], t[m.p2]))
    THEN [m EXCEPT !.out = Append(@, t[m.p2]), !.p2 = @ + 1]
    ELSE [m EXCEPT !.out = Append(@, s[m.p1]), !.p1 = @ + 1]

Merge(s, t) ==
    FoldLeft(LAMBDA m, i : MergeTurn(s, t, m),
             [p1 |-> 1, p2 |-> 1, out |-> <<>>],
             [i \in 1..(Len(s) + Len(t)) |-> i]).out

\* sort.Sort by distance: the blocks of t, which are different ones, nearest first.
Sorted(t) ==
    CHOOSE q \in [DOMAIN t -> ToSet(t)] :
        /\ ToSet(q) = ToSet(t)
        /\ \A i, j \in DOMAIN t : i < j => Closer(q[i], q[j])

absorb2(blks) ==
    LET r == FoldLeft(Collect,
                      [dist |-> distances, unadd |-> <<>>, stopped |-> FALSE],
                      blks)
        sorted == Sorted(r.unadd)
    IN /\ distances' = r.dist
       /\ sequence' = IF r.stopped THEN sequence
                      ELSE IF sequence = <<>> THEN sorted
                      ELSE Merge(sequence, sorted)

SequenceInit == distances = {} /\ sequence = <<>>

SequenceNext == \E blks \in Batches : absorb2(blks)

SequenceSpec == SequenceInit /\ [][SequenceNext]_lists

-----------------------------------------------------------------------------
BugTestsFirst(queryState, s, n, acc, c) ==
    IF acc.full \/ queryState[c] # s THEN acc
    ELSE IF acc.fetched >= n THEN [acc EXCEPT !.full = TRUE]
    ELSE [acc EXCEPT !.result = Append(@, c), !.fetched = @ + 1]

\* One turn of a loop of squeeze: append, count, then compare.
SqueezeTurn(queryState, s, n, acc, c) ==
    IF acc.full \/ queryState[c] # s THEN acc
    ELSE [result |-> Append(acc.result, c), fetched |-> acc.fetched + 1,
          full |-> acc.fetched + 1 >= n]

\* squeeze for n blocks when queryState does not change meanwhile: the Empty
\* blocks, then the Pending ones if there were fewer than n.
squeeze(queryState, n) ==
    LET pass(s, acc) == FoldLeft(LAMBDA x, c : SqueezeTurn(queryState, s, n, x, c),
                                 acc, sequence)
        first == pass("Empty", [result |-> <<>>, fetched |-> 0, full |-> FALSE])
    IN IF first.fetched < n
       THEN pass("Pending", [first EXCEPT !.full = FALSE]).result
       ELSE first.result

-----------------------------------------------------------------------------
\* The merge keeps p.sequence sorted by distance and free of repetitions, also
\* after calls that stored distances and returned early: the blocks nearest to
\* the peer are asked for first and numOfRequest counts a block once.
SequenceSorted ==
    \A i, j \in DOMAIN sequence : i < j => Closer(sequence[i], sequence[j])

\* absorb2 computes what Dispatcher says of it: AbsorbDistances, and
\* AbsorbSequence as a set.
AbsorbAgrees ==
    [][\A blks \in Batches : absorb2(blks) =>
          /\ distances' = AbsorbDistances(distances, blks)
          /\ ToSet(sequence') = AbsorbSequence(distances, ToSet(sequence), blks)]_lists

\* squeeze computes what Dispatcher says of it: the nearest Empty blocks, at
\* least one of them if there is any, then the nearest Pending ones up to n.
SqueezeAgrees ==
    \A queryState \in [Cids -> {"Empty", "Pending", "Filled"}] :
    \A n \in 0..Cardinality(Cids) :
       LET S(s)    == {c \in ToSet(sequence) : queryState[c] = s}
           empties == Nearest(Owner, S("Empty"), IF n = 0 THEN 1 ELSE n)
           rest    == n - Cardinality(empties)
           got     == squeeze(queryState, n)
       IN /\ ToSet(got) = empties \cup (IF rest > 0 THEN Nearest(Owner, S("Pending"), rest)
                                        ELSE {})
          /\ Len(got) = Cardinality(ToSet(got))
==============================================================================
