------------------------------ MODULE CIDRList ------------------------------
(***************************************************************************)
(* The ordering of CIDR lists (app/router/config.go, type CIDRList).       *)
(*                                                                         *)
(* A GeoIP/CIDR matcher flattens its lists into one CIDRList, sorts it     *)
(* with sort.Sort through the Len/Less/Swap methods of CIDRList, and       *)
(* removes entries that the ordering cannot tell apart before it builds    *)
(* its lookup structure.  The module models Less exactly as written, the   *)
(* sort that drives Len/Less/Swap (Go's insertion sort, which sort.Sort    *)
(* uses on lists of up to 12 entries), and the de-duplication that the     *)
(* specification describes, and checks the result against the order the   *)
(* specification states: shorter address first, then bytes, then prefix.  *)
(*                                                                         *)
(* The state machine has one step: a matcher is built from an input list.  *)
(***************************************************************************)
EXTENDS Naturals, Sequences, SequencesExt

CONSTANTS
  IpLens,     \* address lengths in bytes (4 and 16 in the code)
  Bytes,      \* byte values an address may hold
  PrefixLens,   \* prefix lengths
  MaxEntries  \* longest input list

ASSUME IpLens \subseteq Nat \ {0} /\ Bytes \subseteq Nat /\ PrefixLens \subseteq Nat

\* A CIDR message: its address bytes and its prefix length.
CIDR == [ip : UNION {[1..n -> Bytes] : n \in IpLens}, prefix : PrefixLens]

VARIABLES
  input,   \* the flattened list handed to the matcher
  result,  \* the sorted, de-duplicated list the lookup is built from
  built    \* whether the matcher has been built

vars == <<input, result, built>>

-----------------------------------------------------------------------------
(* Mutant forms of Less, each a plausible slip in the code.                *)

\* The length test reversed: longer addresses sort first.
LessLongerFirst(ci, cj) ==
  \/ Len(ci.ip) > Len(cj.ip)
  \/ /\ Len(ci.ip) = Len(cj.ip)
     /\ LET diff == {k \in DOMAIN ci.ip : ci.ip[k] # cj.ip[k]}
        IN IF diff = {} THEN ci.prefix < cj.prefix
           ELSE ci.ip[Min(diff)] < cj.ip[Min(diff)]

\* The final prefix comparison forgotten: "return false".
LessIgnoringPrefix(ci, cj) ==
  \/ Len(ci.ip) < Len(cj.ip)
  \/ /\ Len(ci.ip) = Len(cj.ip)
     /\ LET diff == {k \in DOMAIN ci.ip : ci.ip[k] # cj.ip[k]}
        IN IF diff = {} THEN FALSE
           ELSE ci.ip[Min(diff)] < cj.ip[Min(diff)]

-----------------------------------------------------------------------------
(* CIDRList.Less: a shorter address first; for equal lengths, the first    *)
(* differing byte decides; for equal addresses, the shorter prefix.        *)
Less(ci, cj) ==
  \/ Len(ci.ip) < Len(cj.ip)
  \/ /\ Len(ci.ip) = Len(cj.ip)
     /\ LET diff == {k \in DOMAIN ci.ip : ci.ip[k] # cj.ip[k]}
        IN IF diff = {} THEN ci.prefix < cj.prefix
           ELSE ci.ip[Min(diff)] < cj.ip[Min(diff)]

(* One pass of the insertion sort: the new last element is swapped with   *)
(* its left neighbour while Less(j, j-1) holds.                            *)
RECURSIVE Insert(_, _)
Insert(s, x) ==
  IF s = <<>> \/ ~Less(x, Last(s))
  THEN Append(s, x)
  ELSE Append(Insert(Front(s), x), Last(s))

(* sort.Sort over Len/Less/Swap: insert the elements one by one.           *)
SortCIDRs(l) == FoldLeft(Insert, <<>>, l)

(* De-duplication of a sorted list: an entry the order cannot tell from   *)
(* its predecessor is dropped.                                             *)
Dedup(s) ==
  LET keep == {i \in DOMAIN s : i = 1 \/ Less(s[i - 1], s[i])}
  IN [n \in 1..Cardinality(keep) |-> s[CHOOSE i \in keep :
                                        Cardinality({k \in keep : k <= i}) = n]]

-----------------------------------------------------------------------------
Init ==
  /\ input \in SeqOf(CIDR, MaxEntries)
  /\ result = <<>>
  /\ built = FALSE

(* Building the matcher: sort the flattened list, then de-duplicate it.    *)
BuildMatcher ==
  /\ ~built
  /\ result' = Dedup(SortCIDRs(input))
  /\ built' = TRUE
  /\ UNCHANGED input

Next == BuildMatcher

Spec == Init /\ [][Next]_vars

-----------------------------------------------------------------------------
(* The order the specification states: address length, then the address   *)
(* bytes lexicographically, then the prefix length.                        *)
RECURSIVE LexLess(_, _)
LexLess(a, b) ==
  /\ a # <<>>
  /\ \/ Head(a) < Head(b)
     \/ Head(a) = Head(b) /\ LexLess(Tail(a), Tail(b))

Key(c) == <<Len(c.ip)>> \o c.ip \o <<c.prefix>>

SpecLess(ci, cj) ==
  \/ Len(ci.ip) < Len(cj.ip)
  \/ Len(ci.ip) = Len(cj.ip) /\ LexLess(Key(ci), Key(cj))

TypeOK ==
  /\ input \in SeqOf(CIDR, MaxEntries)
  /\ result \in SeqOf(CIDR, MaxEntries)
  /\ built \in BOOLEAN

(* Once built, the list the lookup uses is strictly increasing in the     *)
(* order the specification states, whatever order the entries came in:    *)
(* sort.Sort through CIDRList.Less puts it in that order and leaves no     *)
(* duplicates behind de-duplication.                                       *)
SortedInSpecOrder ==
  built => IsSorted(result, SpecLess)

(* De-duplication never drops an entry that differs from every kept one:  *)
(* the matcher covers exactly the ranges it was given.  It needs Less to   *)
(* tell every two distinct CIDRs apart.                                    *)
NoDistinctEntryLost ==
  built => ToSet(result) = ToSet(input)

=============================================================================
