--------------------------- MODULE LifecycleStore ---------------------------
(***************************************************************************)
(* What the chant/lifecycle branch promises its users: every checkout      *)
(* holds a small file store, a write replaces or extends one file in one   *)
(* indivisible step and touches nothing else, and files of records only    *)
(* ever grow.  One published copy is shared; taking it over never drops a  *)
(* record the checkout already holds.                                      *)
(***************************************************************************)
EXTENDS Integers, Sequences

CONSTANTS
  Clone,    \* the checkouts
  Path,     \* the files of the store
  Ledger,   \* the files that grow record by record
  Baseline, \* the files whose entries a write adds to or takes the place of
  Token     \* one identifier per write

VARIABLES
  store,    \* store[c][x]: what checkout c holds under x, <<>> when absent
  pub       \* the published copy

storeVars == <<store, pub>>

Empty == [x \in Path |-> <<>>]

\* t holds everything s holds, in the same places.
Extends(s, t) == /\ Len(s) <= Len(t)
                 /\ \A i \in 1..Len(s) : t[i] = s[i]

\* s with some entries, at least one, given to write t: old ones, or one more.
Taken(s, t) ==
  {[i \in DOMAIN s \cup E |-> IF i \in E THEN t ELSE s[i]] : E \in (SUBSET (1..Len(s) + 1)) \ {{}}}

\* What file x may hold once write t has been added to the content s.
Added(x, s, t) == IF x \in Ledger THEN {Append(s, t)}
                  ELSE IF x \in Baseline THEN Taken(s, t)
                  ELSE {<<t>>}

StoreInit == /\ store = [c \in Clone |-> Empty]
             /\ pub = Empty

Record(c, x, t) == /\ \E s \in Added(x, store[c][x], t) :
                        store' = [store EXCEPT ![c][x] = s]
                   /\ UNCHANGED pub

Publish(c) == /\ pub' = store[c]
              /\ UNCHANGED store

Integrate(c) == /\ \A x \in Ledger : Extends(store[c][x], pub[x])
                /\ store' = [store EXCEPT ![c] = pub]
                /\ UNCHANGED pub

Reset(c) == /\ store' = [store EXCEPT ![c] = Empty]
            /\ UNCHANGED pub

StoreNext == \E c \in Clone :
                \/ \E x \in Path, t \in Token : Record(c, x, t)
                \/ Publish(c)
                \/ Integrate(c)
                \/ Reset(c)

StoreSpec == StoreInit /\ [][StoreNext]_storeVars
=============================================================================
