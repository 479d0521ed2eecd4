--------------------------- MODULE MessageProofs ---------------------------
(***************************************************************************)
(* Proofs about what a user does with messages: the browser's mailbox      *)
(* beside the rows of the service (Mailbox), and the files that are        *)
(* attached to what he writes (Attachments).  They hold for any sets of    *)
(* messages, files, events, requests and folders, any page size and any    *)
(* number of calls.                                                        *)
(*                                                                         *)
(* Mailbox: MailboxInv is inductive.  A step concerns one call (OneCall),  *)
(* changes rows (MailStep), or rewrites the list, after which no rollback  *)
(* on its way is the list's own (RestatedKeeps); the lemmas follow those   *)
(* three.  Attachments: IInv is inductive, so a file nobody took while     *)
(* another deleted it is readable while it has a row, and no upload less   *)
(* than a day old disappears but with its message.                         *)
(***************************************************************************)
EXTENDS Attachments, Mailbox, FiniteSetTheorems, SequenceTheorems, TLAPS

(* Lists.  A nonempty set of naturals has a least element. *)
LEMMA LeastNatural ==
  ASSUME NEW T \in SUBSET Nat, T # {}
  PROVE  \E x \in T : \A y \in T : x <= y
<1> DEFINE Below == {0 .. y : y \in T}
<1>1. Below \subseteq FiniteSubsetsOf(Nat) /\ Below # {}
  <2>1. ASSUME NEW y \in T PROVE 0 .. y \in SUBSET Nat /\ IsFiniteSet(0 .. y)
    BY FS_Interval
  <2> QED  BY <2>1 DEF FiniteSubsetsOf
<1>2. PICK X \in Below : \A Y \in Below : ~ (<<Y, X>> \in StrictSubsetOrdering(Nat))
  <2> HIDE DEF Below
  <2> QED  BY <1>1, FS_StrictSubsetOrderingWellFounded, WFMin
<1>3. PICK x \in T : X = 0 .. x  BY <1>2
<1>4. ASSUME NEW y \in T PROVE x <= y
  <2> SUFFICES ASSUME y < x PROVE FALSE  BY <1>3
  <2>1. 0 .. y \subseteq 0 .. x /\ x \in 0 .. x /\ x \notin 0 .. y
    BY <1>3
  <2>2. 0 .. y \in SUBSET Nat /\ 0 .. x \in SUBSET Nat /\ 0 .. y # 0 .. x
    BY <2>1
  <2>3. <<0 .. y, 0 .. x>> \in StrictSubsetOrdering(Nat)
    BY <2>1, <2>2 DEF StrictSubsetOrdering
  <2> QED  BY <1>2, <1>3, <2>3
<1> QED  BY <1>4

(* `list' holds the numbers of S, smallest first. *)
Enumerates(list, S) ==
  /\ list \in [1 .. Cardinality(S) -> S]
  /\ \A i, j \in DOMAIN list : i < j => list[i] < list[j]
  /\ \A x \in S : \E i \in DOMAIN list : list[i] = x

(* A number below all the others goes in front of their enumeration. *)
LEMMA InFront ==
  ASSUME NEW S \in SUBSET Nat, IsFiniteSet(S), NEW x \in S, \A y \in S : x <= y,
         NEW g, Enumerates(g, S \ {x})
  PROVE  \E list : Enumerates(list, S)
<1> DEFINE n == Cardinality(S)  m == Cardinality(S \ {x})
           f == [i \in 1 .. n |-> IF i = 1 THEN x ELSE g[i - 1]]
<1>1. n \in Nat /\ m \in Nat /\ n = m + 1
  <2>1. n \in Nat  BY FS_CardinalityType
  <2>2. IsFiniteSet(S \ {x}) /\ m = n - 1  BY FS_RemoveElement
  <2>3. m \in Nat  BY <2>2, FS_CardinalityType
  <2> QED  BY <2>1, <2>2, <2>3
<1> HIDE DEF n, m
<1>2. /\ g \in [1 .. m -> S \ {x}] /\ DOMAIN g = 1 .. m
      /\ \A i, j \in 1 .. m : i < j => g[i] < g[j]
      /\ \A y \in S \ {x} : \E i \in 1 .. m : g[i] = y
  BY DEF Enumerates, m
<1>3. f \in [1 .. n -> S]
  BY <1>1, <1>2
<1>4. \A i, j \in 1 .. n : i < j => f[i] < f[j]
  <2> SUFFICES ASSUME NEW i \in 1 .. n, NEW j \in 1 .. n, i < j PROVE f[i] < f[j]
    OBVIOUS
  <2>1. j - 1 \in 1 .. m /\ f[j] = g[j - 1] /\ f[j] \in S \ {x}
    BY <1>1, <1>2
  <2>2. CASE i = 1
    <3>1. f[i] = x  BY <1>1, <2>2
    <3>2. f[j] \in S \ {x} /\ x \in Nat /\ f[j] \in Nat /\ x <= f[j] /\ f[j] # x  BY <2>1
    <3> QED  BY <3>1, <3>2
  <2>3. CASE i # 1
    <3>1. i - 1 \in 1 .. m /\ f[i] = g[i - 1] /\ i - 1 < j - 1  BY <1>1, <2>3
    <3> QED  BY <1>2, <2>1, <3>1
  <2> QED  BY <2>2, <2>3
<1>5. \A y \in S : \E i \in 1 .. n : f[i] = y
  <2> SUFFICES ASSUME NEW y \in S PROVE \E i \in 1 .. n : f[i] = y  OBVIOUS
  <2>1. CASE y = x
    <3>1. 1 \in 1 .. n /\ f[1] = x  BY <1>1
    <3> QED  BY <2>1, <3>1
  <2>2. CASE y # x
    <3>1. PICK i \in 1 .. m : g[i] = y  BY <1>2, <2>2
    <3>2. i + 1 \in 1 .. n /\ f[i + 1] = y  BY <1>1, <3>1
    <3> QED  BY <3>2
  <2> QED  BY <2>1, <2>2
<1>6. DOMAIN f = 1 .. n  OBVIOUS
<1>7. Enumerates(f, S)
  <2> HIDE DEF f
  <2> QED  BY <1>3, <1>4, <1>5, <1>6 DEF Enumerates, n
<1> QED  BY <1>7

(* Every finite set of numbers can be listed in order: among the sets that *)
(* cannot be there is no smallest.                                         *)
LEMMA Enumerable ==
  ASSUME NEW S \in SUBSET Nat, IsFiniteSet(S)
  PROVE  \E list : Enumerates(list, S)
<1> DEFINE Lost == {T \in SUBSET S : ~ \E list : Enumerates(list, T)}
<1>1. ASSUME NEW T \in SUBSET S PROVE IsFiniteSet(T) /\ T \in SUBSET Nat
  BY FS_Subset
<1>2. ASSUME Lost # {} PROVE FALSE
  <2>1. PICK T \in Lost : \A U \in Lost : ~ (<<U, T>> \in StrictSubsetOrdering(S))
    <3>1. Lost \subseteq FiniteSubsetsOf(S)  BY <1>1 DEF FiniteSubsetsOf
    <3> HIDE DEF Lost
    <3> QED  BY <1>2, <3>1, FS_StrictSubsetOrderingWellFounded, WFMin
  <2>2. T \in SUBSET S /\ IsFiniteSet(T) /\ T \in SUBSET Nat  BY <1>1, <2>1
  <2>3. CASE T = {}
    <3>1. Cardinality(T) = 0  BY <2>3, FS_EmptySet
    <3>2. Enumerates([i \in 1 .. 0 |-> i], T)
      BY <2>3, <3>1 DEF Enumerates
    <3> QED  BY <2>1, <3>2
  <2>4. CASE T # {}
    <3>1. PICK x \in T : \A y \in T : x <= y  BY <2>2, <2>4, LeastNatural
    <3>2. <<T \ {x}, T>> \in StrictSubsetOrdering(S)
      BY <2>2, <3>1 DEF StrictSubsetOrdering
    <3>3. T \ {x} \notin Lost  BY <2>1, <3>2
    <3>4. PICK g : Enumerates(g, T \ {x})  BY <2>2, <3>3
    <3>5. \E list : Enumerates(list, T)  BY <2>2, <3>1, <3>4, InFront
    <3> QED  BY <2>1, <3>5
  <2> QED  BY <2>3, <2>4
<1> QED  BY <1>2

LEMMA AscendingFacts ==
  ASSUME NEW S \in SUBSET Nat, IsFiniteSet(S)
  PROVE  /\ Cardinality(S) \in Nat
         /\ Ascending(S) \in [1 .. Cardinality(S) -> S]
         /\ DOMAIN Ascending(S) = 1 .. Cardinality(S)
         /\ \A i, j \in 1 .. Cardinality(S) : i < j => Ascending(S)[i] < Ascending(S)[j]
         /\ \A x \in S : \E i \in 1 .. Cardinality(S) : Ascending(S)[i] = x
<1>1. PICK list : Enumerates(list, S)  BY Enumerable
<1>2. Enumerates(Ascending(S), S)  BY <1>1 DEF Ascending, Enumerates
<1>3. Cardinality(S) \in Nat  BY FS_CardinalityType
<1> QED  BY <1>2, <1>3 DEF Enumerates

(* What the rows of a listing are: every element once, newest first. *)
LEMMA NewestFacts ==
  ASSUME NEW S \in SUBSET Nat, IsFiniteSet(S)
  PROVE  /\ Cardinality(S) \in Nat
         /\ Newest(S) \in [1 .. Cardinality(S) -> S]
         /\ Newest(S) \in Seq(S) /\ Len(Newest(S)) = Cardinality(S)
         /\ \A i, j \in 1 .. Cardinality(S) : i < j => Newest(S)[i] > Newest(S)[j]
         /\ \A x \in S : \E i \in 1 .. Cardinality(S) : Newest(S)[i] = x
<1> DEFINE n == Cardinality(S)  up == Ascending(S)
<1>1. /\ n \in Nat /\ up \in [1 .. n -> S]
      /\ \A i, j \in 1 .. n : i < j => up[i] < up[j]
      /\ \A x \in S : \E i \in 1 .. n : up[i] = x
  BY AscendingFacts
<1>2. Newest(S) = [i \in 1 .. n |-> up[n + 1 - i]]  BY DEF Newest
<1> HIDE DEF n, up
<1>3. \A i \in 1 .. n : n + 1 - i \in 1 .. n  BY <1>1
<1>4. Newest(S) \in [1 .. n -> S]  BY <1>1, <1>2, <1>3
<1>5. Newest(S) \in Seq(S) /\ Len(Newest(S)) = n  BY <1>1, <1>4
<1>6. ASSUME NEW i \in 1 .. n, NEW j \in 1 .. n, i < j PROVE Newest(S)[i] > Newest(S)[j]
  <2>1. n + 1 - j < n + 1 - i  BY <1>1, <1>6
  <2>2. up[n + 1 - j] < up[n + 1 - i]  BY <1>1, <1>3, <2>1
  <2>3. up[n + 1 - j] \in Nat /\ up[n + 1 - i] \in Nat  BY <1>1, <1>3
  <2> QED  BY <1>2, <2>2, <2>3
<1>7. ASSUME NEW x \in S PROVE \E i \in 1 .. n : Newest(S)[i] = x
  <2>1. PICK i \in 1 .. n : up[i] = x  BY <1>1
  <2>2. n + 1 - i \in 1 .. n /\ n + 1 - (n + 1 - i) = i  BY <1>1
  <2> QED  BY <1>2, <2>1, <2>2
<1> QED  BY <1>1, <1>4, <1>5, <1>6, <1>7 DEF n

(* The ids of a list of rows, and what appending does to them. *)
LEMMA IdsFacts ==
  ASSUME NEW list \in Seq(Item)
  PROVE  /\ Len(list) \in Nat /\ DOMAIN list = 1 .. Len(list) /\ Ids(list) \subseteq Msgs
         /\ \A i \in DOMAIN list : list[i] \in Item /\ list[i].id \in Msgs /\ list[i].id \in Ids(list)
         /\ \A m \in Ids(list) : \E i \in DOMAIN list : list[i].id = m
<1>1. /\ Len(list) \in Nat /\ DOMAIN list = 1 .. Len(list)
      /\ \A i \in 1 .. Len(list) : list[i] \in Item
  BY LenProperties, ElementOfSeq
<1>2. \A i \in DOMAIN list : list[i].id \in Msgs /\ list[i].id \in Ids(list)
  BY <1>1 DEF Item, Ids
<1> QED  BY <1>1, <1>2 DEF Ids

LEMMA AppendFacts ==
  ASSUME MailboxAssumption, NEW s \in Seq(Item), NEW t \in Seq(Item)
  PROVE  /\ s \o t \in Seq(Item) /\ Ids(s \o t) = Ids(s) \cup Ids(t)
         /\ Fresh(s) /\ Fresh(t) => Fresh(s \o t)
         /\ /\ Descending(s) /\ Descending(t)
            /\ \A m \in Ids(s), n \in Ids(t) : m > n
            => Descending(s \o t)
<1> DEFINE k == Len(s)  n == Len(s) + Len(t)  st == s \o t
<1>1. /\ k \in Nat /\ n \in Nat /\ Len(t) \in Nat /\ DOMAIN s = 1 .. k /\ DOMAIN t = 1 .. Len(t)
      /\ st \in Seq(Item) /\ DOMAIN st = 1 .. n
      /\ \A i \in 1 .. n : st[i] = IF i <= k THEN s[i] ELSE t[i - k]
  BY LenProperties, ConcatProperties
<1> HIDE DEF st
<1>2. \A i \in 1 .. n : \/ i \in DOMAIN s /\ st[i] = s[i]
                        \/ i - k \in DOMAIN t /\ st[i] = t[i - k] /\ i > k
  BY <1>1
<1>3. /\ \A i \in DOMAIN s : i \in DOMAIN st /\ st[i] = s[i]
      /\ \A i \in DOMAIN t : i + k \in DOMAIN st /\ st[i + k] = t[i]
  BY <1>1
<1>4. Ids(st) = Ids(s) \cup Ids(t)
  <2>1. Ids(st) \subseteq Ids(s) \cup Ids(t)  BY <1>1, <1>2 DEF Ids
  <2>2. Ids(s) \subseteq Ids(st)  BY <1>3 DEF Ids
  <2>3. Ids(t) \subseteq Ids(st)
    <3> SUFFICES ASSUME NEW i \in DOMAIN t PROVE t[i].id \in Ids(st)  BY DEF Ids
    <3> QED  BY <1>3 DEF Ids
  <2> QED  BY <2>1, <2>2, <2>3
<1>5. Fresh(s) /\ Fresh(t) => Fresh(st)
  BY <1>1, <1>2 DEF Fresh
<1>6. ASSUME Descending(s), Descending(t), \A a \in Ids(s), b \in Ids(t) : a > b
      PROVE  Descending(st)
  <2> SUFFICES ASSUME NEW i \in DOMAIN st, NEW j \in DOMAIN st, i < j
               PROVE  st[i].id > st[j].id
    BY DEF Descending
  <2>1. CASE i \in DOMAIN s /\ st[i] = s[i] /\ j \in DOMAIN s /\ st[j] = s[j]
    BY <1>6, <2>1 DEF Descending
  <2>2. CASE i \in DOMAIN s /\ st[i] = s[i] /\ j - k \in DOMAIN t /\ st[j] = t[j - k]
    BY <1>6, <2>2 DEF Ids
  <2>3. CASE /\ i - k \in DOMAIN t /\ st[i] = t[i - k] /\ i > k
             /\ j - k \in DOMAIN t /\ st[j] = t[j - k]
    <3>1. i - k < j - k  BY <1>1
    <3> QED  BY <1>6, <2>3, <3>1 DEF Descending
  <2>4. CASE i > k /\ j \in DOMAIN s  BY <1>1, <2>4
  <2> QED  BY <1>1, <1>2, <2>1, <2>2, <2>3, <2>4
<1> QED  BY <1>1, <1>4, <1>5, <1>6 DEF st

(* The patch of a deletion takes out the deleted rows and nothing else. *)
LEMMA RemainingFacts ==
  ASSUME NEW list \in Seq(Item), NEW ids
  PROVE  /\ Remaining(list, ids) \in Seq(Item)
         /\ Ids(Remaining(list, ids)) = Ids(list) \ ids
         /\ Fresh(list) => Fresh(Remaining(list, ids))
         /\ Descending(list) => Descending(Remaining(list, ids))
<1> DEFINE K == {i \in DOMAIN list : list[i].id \notin ids}
           n == Cardinality(K)  f == Ascending(K)  w == Remaining(list, ids)
<1>1. /\ Len(list) \in Nat /\ DOMAIN list = 1 .. Len(list)
      /\ \A i \in DOMAIN list : list[i] \in Item
  BY IdsFacts
<1>2. K \in SUBSET Nat /\ IsFiniteSet(K)
  <2>1. IsFiniteSet(1 .. Len(list))  BY <1>1, FS_Interval
  <2> QED  BY <1>1, <2>1, FS_Subset
<1>3. /\ n \in Nat /\ f \in [1 .. n -> K] /\ DOMAIN f = 1 .. n
      /\ \A i, j \in 1 .. n : i < j => f[i] < f[j]
      /\ \A x \in K : \E i \in 1 .. n : f[i] = x
  <2> HIDE DEF K
  <2> QED  BY <1>2, AscendingFacts
<1>4. w = [i \in 1 .. n |-> list[f[i]]]  BY <1>3 DEF Remaining
<1>5. \A i \in 1 .. n : /\ f[i] \in DOMAIN list /\ list[f[i]].id \notin ids
                        /\ list[f[i]] \in Item
  BY <1>1, <1>3
<1>6. \A x \in DOMAIN list : list[x].id \notin ids => \E i \in 1 .. n : f[i] = x
  BY <1>3
<1> HIDE DEF K, n, f, w
<1>7. w \in Seq(Item) /\ DOMAIN w = 1 .. n /\ \A i \in 1 .. n : w[i] = list[f[i]]
  BY <1>3, <1>4, <1>5
<1>8. Ids(w) = Ids(list) \ ids
  <2>1. Ids(w) \subseteq Ids(list) \ ids  BY <1>5, <1>7 DEF Ids
  <2>2. ASSUME NEW x \in DOMAIN list, list[x].id \notin ids PROVE list[x].id \in Ids(w)
    <3>1. PICK i \in 1 .. n : f[i] = x  BY <1>6, <2>2
    <3> QED  BY <1>7, <3>1 DEF Ids
  <2> QED  BY <2>1, <2>2 DEF Ids
<1>9. Fresh(list) => Fresh(w)
  BY <1>5, <1>7 DEF Fresh
<1>10. Descending(list) => Descending(w)
  BY <1>3, <1>5, <1>7 DEF Descending
<1> QED  BY <1>7, <1>8, <1>9, <1>10 DEF w

(* The patch of a mark changes no id and no order. *)
LEMMA MarkedFacts ==
  ASSUME shown \in Seq(Item), NEW ids, NEW deed \in {"spam", "notSpam", "read", "unread"}
  PROVE  /\ PatchedList(deed, ids) \in Seq(Item) /\ Ids(PatchedList(deed, ids)) = Ids(shown)
         /\ Descending(shown) => Descending(PatchedList(deed, ids))
         /\ Ids(shown) \cap ids = {} => PatchedList(deed, ids) = shown
<1> DEFINE list == shown  w == PatchedList(deed, ids)
<1>0. w = [i \in DOMAIN list |-> IF list[i].id \in ids THEN Marked(deed, list[i]) ELSE list[i]]
  BY DEF PatchedList
<1> HIDE DEF w
<1>1. /\ Len(list) \in Nat /\ DOMAIN list = 1 .. Len(list)
      /\ \A i \in DOMAIN list : list[i] \in Item /\ list[i].id \in Ids(list)
  BY IdsFacts
<1>2. \A x \in Item : Marked(deed, x) \in Item /\ Marked(deed, x).id = x.id
  BY DEF Marked, Item
<1>3. /\ DOMAIN w = DOMAIN list
      /\ \A i \in DOMAIN list : w[i] \in Item /\ w[i].id = list[i].id
  BY <1>0, <1>1, <1>2
<1>4. w \in Seq(Item)  BY <1>0, <1>1, <1>3
<1>5. Ids(w) = Ids(list)  BY <1>3 DEF Ids
<1>6. Descending(list) => Descending(w)  BY <1>3 DEF Descending
<1>7. ASSUME Ids(list) \cap ids = {} PROVE w = list
  <2>1. \A i \in DOMAIN list : w[i] = list[i]  BY <1>0, <1>1, <1>7
  <2>2. Len(w) = Len(list) /\ \A i \in 1 .. Len(list) : w[i] = list[i]
    BY <1>1, <1>3, <1>4, <2>1, LenProperties
  <2> QED  BY <1>4, <2>2, SeqEqual
<1> QED  BY <1>4, <1>5, <1>6, <1>7 DEF w

(* What `list' returns: the rows of a view below a cursor, down to where   *)
(* the next page begins, each once and newest first.                       *)
LEMMA PageFacts ==
  ASSUME MailboxAssumption, NEW v, NEW after \in Msgs \cup {NoCursor},
         NEW page, page = PageOf(RowsBelow(v, after)),
         NEW next, next = NextCursor(RowsBelow(v, after))
  PROVE  /\ page \in Seq(Msgs) /\ DOMAIN page = 1 .. Len(page) /\ Len(page) \in Nat
         /\ next \in Msgs \cup {NoCursor} /\ (after # NoCursor => next < after)
         /\ \A i, j \in DOMAIN page : i < j => page[i] > page[j]
         /\ \A i \in DOMAIN page : page[i] \in Between(InView(v), after, next)
         /\ \A m \in Between(InView(v), after, next) : \E i \in DOMAIN page : page[i] = m
<1> DEFINE S == {m \in InView(v) : after = NoCursor \/ m < after}
           n == Cardinality(S)  s == Newest(S)  listed == RowsBelow(v, after)
           k == IF n > PageSize THEN PageSize + 1 ELSE n
           p == IF n > PageSize THEN PageSize ELSE n
<1>1. S \in SUBSET Nat /\ IsFiniteSet(S) /\ S \subseteq Msgs
  <2>1. S \in SUBSET Msgs  BY DEF InView
  <2> HIDE DEF S
  <2> QED  BY <2>1, FS_Subset DEF MailboxAssumption
<1>2. /\ n \in Nat /\ s \in [1 .. n -> S] /\ s \in Seq(S) /\ Len(s) = n
      /\ \A i, j \in 1 .. n : i < j => s[i] > s[j]
      /\ \A x \in S : \E i \in 1 .. n : s[i] = x
  <2> HIDE DEF S
  <2> QED  BY <1>1, NewestFacts
<1>3. listed = SubSeq(s, 1, k)
  BY <1>2 DEF RowsBelow
<1>4. /\ S \in SUBSET InView(v) /\ PageSize \in Nat \ {0}
      /\ \A m \in S : after = NoCursor \/ m < after
      /\ \A m \in S : m >= next => m \in Between(InView(v), after, next)
  BY DEF MailboxAssumption, Between
<1>below. \A m \in Between(InView(v), after, next) : m \in S /\ m >= next
  BY DEF Between
<1> HIDE DEF S, n, s
<1>5. k \in 0 .. n /\ p \in 0 .. k /\ k \in Int /\ p \in Int  BY <1>2, <1>4
<1>6. listed \in Seq(S) /\ Len(listed) = k /\ \A i \in 1 .. k : listed[i] = s[i]
  <2>1. \A i \in 1 .. k : s[i] \in S  BY <1>2, <1>5
  <2>2. /\ SubSeq(s, 1, k) \in Seq(S) /\ Len(SubSeq(s, 1, k)) = (IF 1 <= k THEN k - 1 + 1 ELSE 0)
        /\ \A i \in 1 .. k - 1 + 1 : SubSeq(s, 1, k)[i] = s[1 + i - 1]
    <3> HIDE DEF k
    <3> QED  BY <1>5, <2>1, SubSeqProperties
  <2> HIDE DEF k, listed
  <2> QED  BY <1>2, <1>3, <1>5, <2>2
<1>7. page = SubSeq(listed, 1, p) /\ next = IF k > PageSize THEN listed[PageSize] ELSE NoCursor
  <2>1. p = IF k > PageSize THEN PageSize ELSE k  BY <1>2, <1>4
  <2> QED  BY <1>6, <2>1 DEF PageOf, NextCursor
<1> HIDE DEF listed
<1>8. page \in Seq(S) /\ Len(page) = p /\ \A i \in 1 .. p : page[i] = s[i]
  <2>1. \A i \in 1 .. p : listed[i] \in S /\ listed[i] = s[i]  BY <1>2, <1>5, <1>6
  <2>2. /\ SubSeq(listed, 1, p) \in Seq(S)
        /\ Len(SubSeq(listed, 1, p)) = (IF 1 <= p THEN p - 1 + 1 ELSE 0)
        /\ \A i \in 1 .. p - 1 + 1 : SubSeq(listed, 1, p)[i] = listed[1 + i - 1]
    <3> HIDE DEF p, k
    <3> QED  BY <1>5, <2>1, SubSeqProperties
  <2> HIDE DEF p, k
  <2> QED  BY <1>5, <1>7, <2>1, <2>2
<1>9. /\ next \in S \cup {NoCursor}
      /\ n > PageSize => p = PageSize /\ next = s[p] /\ p \in 1 .. n
      /\ n <= PageSize => p = n /\ next = NoCursor
  BY <1>2, <1>4, <1>6, <1>7
<1>10. page \in Seq(Msgs) /\ DOMAIN page = 1 .. p /\ p \in Nat
  BY <1>1, <1>5, <1>8, SeqMonotonic, LenProperties
<1>11. next \in Msgs \cup {NoCursor} /\ (after # NoCursor => next < after)
  BY <1>1, <1>4, <1>9 DEF MailboxAssumption, NoCursor
<1>12. \A i \in 1 .. p : i \in 1 .. n /\ page[i] = s[i] /\ page[i] \in S
  BY <1>2, <1>5, <1>8
<1>13. \A i, j \in DOMAIN page : i < j => page[i] > page[j]
  BY <1>2, <1>10, <1>12
<1>14. ASSUME NEW i \in DOMAIN page PROVE page[i] \in Between(InView(v), after, next)
  <2>1. page[i] \in S /\ page[i] = s[i] /\ i \in 1 .. n  BY <1>10, <1>12, <1>14
  <2>2. page[i] >= next
    <3>1. CASE n > PageSize
      <4>1. i <= p  BY <1>10, <1>14
      <4>2. s[i] \in Nat /\ s[p] \in Nat /\ (i < p => s[i] > s[p])
        BY <1>1, <1>2, <1>9, <2>1, <3>1
      <4>3. i < p \/ i = p  BY <4>1, <2>1, <1>5
      <4> QED  BY <1>9, <2>1, <3>1, <4>2, <4>3
    <3>2. CASE n <= PageSize
      <4>1. page[i] \in Nat  BY <1>1, <2>1
      <4> QED  BY <1>9, <3>2, <4>1 DEF NoCursor
    <3> QED  BY <1>2, <1>4, <3>1, <3>2
  <2> QED  BY <1>4, <2>1, <2>2
<1>15. ASSUME NEW m \in Between(InView(v), after, next)
       PROVE  \E i \in DOMAIN page : page[i] = m
  <2>1. m \in S /\ m >= next  BY <1>below, Zenon
  <2>2. PICK i \in 1 .. n : s[i] = m  BY <1>2, <2>1
  <2>3. i \in 1 .. p
    <3>1. CASE n > PageSize
      <4>1. s[i] \in Nat /\ s[p] \in Nat /\ (p < i => s[p] > s[i])
        BY <1>1, <1>2, <1>9, <2>2, <3>1
      <4> QED  BY <1>5, <1>9, <2>1, <2>2, <3>1, <4>1
    <3>2. CASE n <= PageSize  BY <1>9, <2>2, <3>2
    <3> QED  BY <1>2, <1>4, <3>1, <3>2
  <2> QED  BY <1>10, <1>12, <2>2, <2>3
<1> QED  BY <1>8, <1>10, <1>11, <1>13, <1>14, <1>15

-----------------------------------------------------------------------------
(* The mailbox.  A step touches the calls of the browser one at a time, or  *)
(* the rows of the service and every page on its way.                      *)
LEMMA CallFacts ==
  ASSUME MailboxTypeOK, NEW c \in Call
  PROVE  calls[c] \in CallType
BY DEF MailboxTypeOK

LEMMA NoCallType ==
  /\ NoCall \in CallType /\ Over \in CallType
  /\ \A v \in Views, after \in Msgs \cup {NoCursor} :
       /\ Asking(v, after) \in CallType /\ Asking(v, after).pc = "asked"
       /\ Asking(v, after).deed = "" /\ Asking(v, after).of = v
       /\ Asking(v, after).ids = {} /\ Asking(v, after).purge = {}
       /\ Asking(v, after).tag = {}
  /\ NoCall.pc = "idle" /\ NoCall.deed = ""
  /\ Over.pc = "over" /\ Over.deed = "" /\ Over.ids = {} /\ Over.purge = {} /\ Over.tag = {}
<1>1. <<>> \in Seq(Item)  BY EmptySeq
<1>2. NoCall \in CallType  BY <1>1 DEF NoCall, CallType, NoCursor, Mutating, Working
<1>3. Over \in CallType  BY <1>1 DEF Over, NoCall, CallType, NoCursor, Mutating, Working
<1>4. ASSUME NEW v \in Views, NEW after \in Msgs \cup {NoCursor}
      PROVE  Asking(v, after) \in CallType
  BY <1>1, <1>4 DEF Asking, NoCall, CallType, NoCursor, Mutating, Working
<1> QED  BY <1>2, <1>3, <1>4 DEF NoCall, Over, Asking

(* A call is idle, reads, is over, or carries a mutation: how an empty one *)
(* satisfies the invariant.                                                *)
LEMMA Empty ==
  ASSUME NEW c \in Call, calls[c].deed = "", calls[c].ids = {}, calls[c].purge = {},
         calls[c].tag = {}, calls[c].pc \in {"idle", "asked", "over"},
         calls[c].pc = "asked" => calls[c].of \in Views
  PROVE  StageInv(c) /\ PageInv(c) /\ \A d \in Call : LaterPage(c, d) /\ LaterPage(d, c)
BY DEF StageInv, PageInv, LaterPage, Mutating, Working

LEMMA InitMailbox ==
  ASSUME MailboxAssumption, MailboxInit
  PROVE  MailboxInv
<1>1. view \in Views  BY DEF MailboxInit, MailboxAssumption, Views
<1>2. \A c \in Call : \/ calls[c] = Asking(view, NoCursor)
                      \/ calls[c] = NoCall
  BY DEF MailboxInit
<1>3. \A c \in Call : /\ calls[c] \in CallType /\ calls[c].deed = ""
                      /\ calls[c].pc \in {"idle", "asked"} /\ calls[c].ids = {}
                      /\ calls[c].purge = {} /\ calls[c].tag = {}
                      /\ (calls[c].pc = "asked" => calls[c].of \in Views)
  <2> SUFFICES ASSUME NEW c \in Call
               PROVE  /\ calls[c] \in CallType /\ calls[c].deed = ""
                      /\ calls[c].pc \in {"idle", "asked"} /\ calls[c].ids = {}
                      /\ calls[c].purge = {} /\ calls[c].tag = {}
                      /\ (calls[c].pc = "asked" => calls[c].of \in Views)
    OBVIOUS
  <2>1. CASE calls[c] = Asking(view, NoCursor)
    <3>1. NoCursor \in Msgs \cup {NoCursor}  OBVIOUS
    <3>2. /\ Asking(view, NoCursor) \in CallType /\ Asking(view, NoCursor).pc = "asked"
          /\ Asking(view, NoCursor).deed = "" /\ Asking(view, NoCursor).of = view
          /\ Asking(view, NoCursor).ids = {} /\ Asking(view, NoCursor).purge = {}
          /\ Asking(view, NoCursor).tag = {}
      BY <1>1, <3>1, NoCallType, Zenon
    <3> QED  BY <1>1, <2>1, <3>2
  <2>2. CASE calls[c] = NoCall
    <3>1. NoCall.ids = {} /\ NoCall.purge = {} /\ NoCall.tag = {}  BY DEF NoCall
    <3> QED  BY <2>2, <3>1, NoCallType
  <2> QED  BY <1>2, <2>1, <2>2
<1>4. MailboxTypeOK
  <2>1. mail \in [Msgs -> Row]  BY DEF MailboxInit, Row
  <2>2. calls \in [Call -> CallType]  BY <1>3 DEF MailboxInit
  <2>3. onScreen \in [of : Views, end : Msgs \cup {NoCursor}, version : Nat,
                      members : SUBSET Msgs]
    BY <1>1 DEF MailboxInit
  <2>4. shown \in Seq(Item)  BY EmptySeq DEF MailboxInit
  <2> QED  BY <1>1, <2>1, <2>2, <2>3, <2>4 DEF MailboxTypeOK, MailboxInit
<1>5. tangled = TRUE /\ onScreen.version = 0 /\ version = 0 /\ unfair = {}
  BY DEF MailboxInit
<1>6. ScreenInv /\ HonestInv
  <2>1. \A c \in Call : ~Pending(c)  BY <1>3 DEF Pending, Patching
  <2>2. onScreen.version <= version  BY <1>5
  <2> QED  BY <1>5, <2>1, <2>2 DEF ScreenInv, HonestInv
<1>7. \A c \in Call : StageInv(c) /\ PageInv(c) /\ \A d \in Call : LaterPage(c, d)
  BY <1>3, Empty
<1>8. \A c, d \in Call : OverlapInv(c, d)  BY <1>3 DEF OverlapInv
<1> QED  BY <1>4, <1>5, <1>6, <1>7, <1>8 DEF MailboxInv

(* What a step leaves alone. *)
LEMMA StillHonest ==
  ASSUME UNCHANGED <<mail, onScreen>>, NEW list
  PROVE  /\ Honest(list)' = Honest(list) /\ Whole(list)' = Whole(list)
         /\ InView(onScreen.of)' = InView(onScreen.of)
         /\ Fresh(list)' = Fresh(list)
BY DEF Honest, Whole, Fresh, InView, Between, Node, Descending, Ids

(* A step of one call that leaves rows and screen alone keeps the          *)
(* invariant when the call goes on to satisfy its part.                    *)
Keeps(c) ==
  /\ calls'[c].deed = "delete" /\ calls'[c].pc \in {"sent", "tags"} =>
       /\ calls[c].deed = "delete" /\ calls[c].pc \in {"sent", "tags"}
       /\ calls'[c].ids = calls[c].ids /\ calls'[c].due = calls[c].due
  /\ calls'[c].deed = "delete" /\ calls'[c].pc \in {"sent", "tags", "trash"} =>
       /\ calls[c].deed = "delete" /\ calls[c].pc \in {"sent", "tags", "trash"}
       /\ calls'[c].ids = calls[c].ids
  /\ Patching(c)' => /\ Patching(c) /\ calls'[c].stale = calls[c].stale
                     /\ calls'[c].before = calls[c].before
  /\ Patching(c) /\ Effective(c) =>
       Patching(c)' /\ Effective(c)' /\ calls'[c].stale = calls[c].stale

LEMMA OneCall ==
  ASSUME MailboxInv, MailboxTypeOK', NEW c \in Call,
         \A d \in Call : d # c => calls'[d] = calls[d],
         UNCHANGED <<mail, shown, version, onScreen, tangled, unfair>>,
         Keeps(c), StageInv(c)', PageInv(c)',
         \A d \in Call : LaterPage(c, d)' /\ LaterPage(d, c)',
         /\ calls'[c].pc = "paged" /\ ~tangled /\ calls'[c].of = onScreen.of
         /\ calls'[c].version >= onScreen.version
         => onScreen.members \subseteq calls'[c].members
  PROVE  MailboxInv'
<1>1. \A d \in Call : StageInv(d)'
  <2>1. ASSUME NEW d \in Call, d # c PROVE StageInv(d)'
    <3>1. StageInv(d) /\ calls'[d] = calls[d]  BY <2>1 DEF MailboxInv
    <3> QED  BY <3>1 DEF StageInv, Trashed, Mutating, Working
  <2> QED  BY <2>1
<1>2. \A d \in Call : PageInv(d)'
  <2>1. ASSUME NEW d \in Call, d # c PROVE PageInv(d)'
    <3>1. PageInv(d) /\ calls'[d] = calls[d]  BY <2>1 DEF MailboxInv
    <3> QED  BY <3>1 DEF PageInv, InView, Fresh, Node, Between, Descending, Ids
  <2> QED  BY <2>1
<1>3. \A d, e \in Call : LaterPage(d, e)'
  <2>1. ASSUME NEW d \in Call, NEW e \in Call, d # c, e # c PROVE LaterPage(d, e)'
    <3>1. LaterPage(d, e) /\ calls'[d] = calls[d] /\ calls'[e] = calls[e]
      BY <2>1 DEF MailboxInv
    <3> QED  BY <3>1 DEF LaterPage
  <2> QED  BY <2>1
<1>4. \A d, e \in Call : d # e => OverlapInv(d, e)'
  <2>1. ASSUME NEW d \in Call, NEW e \in Call, d # e PROVE OverlapInv(d, e)'
    <3>1. OverlapInv(d, e)  BY <2>1 DEF MailboxInv
    <3>2. CASE d = c
      <4>1. calls'[e] = calls[e]  BY <2>1, <3>2
      <4> QED  BY <3>1, <3>2, <4>1 DEF OverlapInv, Keeps
    <3>3. CASE e = c
      <4>1. calls'[d] = calls[d]  BY <2>1, <3>3
      <4> QED  BY <3>1, <3>3, <4>1 DEF OverlapInv, Keeps
    <3>4. CASE d # c /\ e # c
      <4>1. calls'[e] = calls[e] /\ calls'[d] = calls[d]  BY <3>4
      <4> QED  BY <3>1, <4>1 DEF OverlapInv
    <3> QED  BY <3>2, <3>3, <3>4
  <2> QED  BY <2>1
<1>5. \A d \in Call : Pending(d)' => Pending(d) /\ calls'[d].before = calls[d].before
  BY DEF Pending, Patching, Keeps
<1>6. \A d \in Call : Patching(d) /\ Effective(d) =>
        Patching(d)' /\ Effective(d)' /\ calls'[d].stale = calls[d].stale
  <2>1. ASSUME NEW d \in Call, d # c PROVE Effective(d)' = Effective(d) /\ Patching(d)' = Patching(d)
    BY <2>1 DEF Effective, Patching, IsStored
  <2> QED  BY <2>1 DEF Keeps
<1>7. \A list : Honest(list)' = Honest(list) /\ Whole(list)' = Whole(list)
  BY StillHonest
<1>8. ScreenInv'
  <2>1. onScreen'.version <= version'  BY DEF MailboxInv, ScreenInv
  <2>2. \A d, e \in Call : Pending(d)' /\ Pending(e)' => d = e
    BY <1>5 DEF MailboxInv, ScreenInv
  <2>3. ASSUME ~tangled'
        PROVE  /\ onScreen'.members \subseteq InView(onScreen.of)' /\ Whole(shown)'
               /\ \A d \in Call : Pending(d)' => Whole(calls[d].before)'
    <3>1. /\ onScreen.members \subseteq InView(onScreen.of) /\ Whole(shown)
          /\ \A d \in Call : Pending(d) => Whole(calls[d].before)
      BY <2>3 DEF MailboxInv, ScreenInv
    <3>2. onScreen'.members \subseteq InView(onScreen.of)'
      BY <3>1 DEF InView
    <3>3. Whole(shown)'
      BY <3>1 DEF Whole, Descending, Ids
    <3>4. ASSUME NEW d \in Call, Pending(d)' PROVE Whole(calls[d].before)'
      <4>1. Whole(calls[d].before) /\ calls'[d].before = calls[d].before
        BY <1>5, <3>1, <3>4
      <4> QED  BY <4>1 DEF Whole, Descending, Ids
    <3> QED  BY <3>2, <3>3, <3>4
  <2>4. ASSUME ~tangled', NEW d \in Call, calls'[d].pc = "paged",
               calls'[d].of = onScreen'.of, calls'[d].version >= onScreen'.version
        PROVE  onScreen'.members \subseteq calls'[d].members
    BY <2>4 DEF MailboxInv, ScreenInv
  <2> QED  BY <2>1, <2>2, <2>3, <2>4 DEF ScreenInv
<1>9. HonestInv'
  <2> SUFFICES ASSUME ~tangled, onScreen.version = version
               PROVE  HonestInv'
    BY DEF HonestInv
  <2>1. CASE \E d \in Call : Patching(d) /\ calls[d].stale /\ Effective(d)
    BY <1>6, <2>1 DEF HonestInv
  <2>2. CASE /\ \A d \in Call : Pending(d) => Honest(calls[d].before)
             /\ Honest(shown) \/ \E d \in Call : Pending(d) /\ Effective(d)
    <3>1. ASSUME NEW d \in Call, Pending(d)' PROVE Honest(calls[d].before)'
      <4>1. Honest(calls[d].before) /\ calls'[d].before = calls[d].before
        BY <1>5, <2>2, <3>1
      <4> QED  BY <4>1 DEF Honest, InView, Fresh, Node, Between, Ids
    <3>2. Honest(shown) => Honest(shown)'
      BY DEF Honest, InView, Fresh, Node, Between, Ids
    <3>3. \A d \in Call : Pending(d) /\ Effective(d) => Pending(d)' /\ Effective(d)'
      BY <1>6 DEF Pending, Patching
    <3> QED  BY <2>2, <3>1, <3>2, <3>3 DEF HonestInv
  <2> QED  BY <2>1, <2>2 DEF MailboxInv, HonestInv
<1> QED  BY <1>1, <1>2, <1>3, <1>4, <1>8, <1>9 DEF MailboxInv


(* A call that holds no page when it has moved. *)
LEMMA OneStage ==
  ASSUME MailboxInv, MailboxTypeOK', NEW c \in Call,
         \A d \in Call : d # c => calls'[d] = calls[d],
         UNCHANGED <<mail, shown, version, onScreen, tangled, unfair>>,
         Keeps(c), StageInv(c)', calls'[c].pc # "paged"
  PROVE  MailboxInv'
<1>1. PageInv(c)'  BY DEF PageInv
<1>2. \A d \in Call : LaterPage(c, d)' /\ LaterPage(d, c)'  BY DEF LaterPage
<1> QED  BY <1>1, <1>2, OneCall

LEMMA OneUpdate ==
  ASSUME MailboxTypeOK, NEW c \in Call, NEW q \in CallType, calls' = [calls EXCEPT ![c] = q]
  PROVE  /\ calls' \in [Call -> CallType] /\ calls'[c] = q
         /\ \A d \in Call : d # c => calls'[d] = calls[d]
BY DEF MailboxTypeOK

(* A query goes out, or a request is over, that no mutation still needs. *)
LEMMA Empties ==
  ASSUME MailboxInv, NEW c \in Call, NEW q \in CallType,
         calls' = [calls EXCEPT ![c] = q],
         q.deed = "", q.ids = {}, q.purge = {}, q.tag = {}, q.pc \in {"asked", "over"},
         q.pc = "asked" => q.of \in Views,
         ~ (Patching(c) /\ Effective(c)),
         view' \in Views, cursor' \in Msgs \cup {NoCursor}, loading' \in BOOLEAN,
         selected' \subseteq Msgs,
         UNCHANGED <<mail, shown, foreign, history>>
  PROVE  MailboxInv'
<1>1. MailboxTypeOK  BY DEF MailboxInv
<1>2. /\ calls' \in [Call -> CallType] /\ calls'[c] = q
      /\ \A d \in Call : d # c => calls'[d] = calls[d]
  BY <1>1, OneUpdate
<1>3. MailboxTypeOK'  BY <1>1, <1>2 DEF MailboxTypeOK, history
<1>4. Keeps(c)  BY <1>2 DEF Keeps, Patching
<1>5. StageInv(c)' /\ calls'[c].pc # "paged"
  BY <1>2 DEF StageInv, Mutating, Working
<1> QED  BY <1>2, <1>3, <1>4, <1>5, OneStage DEF history

(* The requests of the browser that are queries. *)
LEMMA AskStep ==
  ASSUME MailboxInv, NEW c \in Call, FreshCall(c), NEW v \in Views,
         NEW after \in Msgs \cup {NoCursor},
         calls' = [calls EXCEPT ![c] = Asking(v, after)],
         view' \in Views, cursor' \in Msgs \cup {NoCursor}, loading' = TRUE,
         selected' \subseteq Msgs, UNCHANGED <<mail, shown, foreign, history>>
  PROVE  MailboxInv'
<1>1. ~Patching(c)
  <2>1. StageInv(c) /\ calls[c].pc = "idle"  BY DEF MailboxInv, FreshCall
  <2> QED  BY <2>1 DEF StageInv, Patching, Mutating, Working
<1>2. /\ Asking(v, after) \in CallType /\ Asking(v, after).pc = "asked"
      /\ Asking(v, after).deed = "" /\ Asking(v, after).of = v
      /\ Asking(v, after).ids = {} /\ Asking(v, after).purge = {}
      /\ Asking(v, after).tag = {}
  BY NoCallType, Zenon
<1> QED  BY <1>1, <1>2, Empties

LEMMA QueryStep ==
  ASSUME MailboxAssumption, MailboxInv, NEW c \in Call,
         \/ \E f \in Folders : SetView(c, f)
         \/ SetUnreadOnly(c) \/ ReloadMessages(c) \/ LoadMore(c)
  PROVE  MailboxInv'
<1>1. /\ view \in Views /\ cursor \in Msgs \cup {NoCursor} /\ selected \subseteq Msgs
      /\ view.folder \in Folders /\ view.unreadOnly \in BOOLEAN
      /\ \A f \in Folders : [folder |-> f, unreadOnly |-> FALSE] \in Views
      /\ [view EXCEPT !.unreadOnly = ~@] \in Views
  BY DEF MailboxInv, MailboxTypeOK, Views
<1>2. CASE \E f \in Folders : SetView(c, f)
  <2>1. PICK f \in Folders : SetView(c, f)  BY <1>2
  <2> QED  BY <1>1, <2>1, AskStep DEF SetView
<1>3. CASE SetUnreadOnly(c)  BY <1>1, <1>3, AskStep DEF SetUnreadOnly
<1>4. CASE ReloadMessages(c)  BY <1>1, <1>4, AskStep DEF ReloadMessages
<1>5. CASE LoadMore(c)  BY <1>1, <1>5, AskStep DEF LoadMore
<1> QED  BY <1>2, <1>3, <1>4, <1>5

(* The answers that leave the list as it is. *)
LEMMA AnswerStep ==
  ASSUME MailboxAssumption, MailboxInv, NEW c \in Call,
         HandleDone(c) \/ ArchiveRefused(c) \/ FetchFails(c)
  PROVE  MailboxInv'
<1>1. /\ view \in Views /\ cursor \in Msgs \cup {NoCursor} /\ selected \subseteq Msgs
      /\ loading \in BOOLEAN /\ NoCursor \in Msgs \cup {NoCursor}
  BY DEF MailboxInv, MailboxTypeOK
<1>2. /\ Over \in CallType /\ Over.pc = "over" /\ Over.deed = "" /\ Over.ids = {}
      /\ Over.purge = {} /\ Over.tag = {}
  BY NoCallType
<1>3. CASE HandleDone(c)
  <2> DEFINE a == Asking(view, NoCursor)
             q == [a EXCEPT !.clears = calls[c].deed = "archive"]
  <2>1. /\ a \in CallType /\ a.pc = "asked" /\ a.deed = "" /\ a.of = view
        /\ a.ids = {} /\ a.purge = {} /\ a.tag = {}
    <3>1. view \in Views /\ NoCursor \in Msgs \cup {NoCursor}  BY <1>1
    <3>2. /\ Asking(view, NoCursor) \in CallType /\ Asking(view, NoCursor).pc = "asked"
          /\ Asking(view, NoCursor).deed = "" /\ Asking(view, NoCursor).of = view
          /\ Asking(view, NoCursor).ids = {} /\ Asking(view, NoCursor).purge = {}
          /\ Asking(view, NoCursor).tag = {}
      BY <3>1, NoCallType, Zenon
    <3> QED  BY <3>2
  <2> HIDE DEF a
  <2>2. /\ q \in CallType /\ q.pc = "asked" /\ q.deed = "" /\ q.of = view
        /\ q.ids = {} /\ q.purge = {} /\ q.tag = {}
    BY <2>1 DEF CallType
  <2>3. calls' = [calls EXCEPT ![c] = q]  BY <1>3 DEF HandleDone, Rereads, a
  <2> HIDE DEF q
  <2>4. ~Effective(c)  BY <1>3 DEF HandleDone, Effective, Working
  <2>5. /\ view' \in Views /\ cursor' \in Msgs \cup {NoCursor} /\ loading' \in BOOLEAN
        /\ selected' \subseteq Msgs /\ UNCHANGED <<mail, shown, foreign, history>>
    BY <1>1, <1>3 DEF HandleDone, Deselected
  <2> QED  BY <1>1, <2>2, <2>3, <2>4, <2>5, Empties
<1>4. CASE ArchiveRefused(c)
  <2>1. ~Patching(c)  BY <1>4 DEF ArchiveRefused, Patching
  <2> QED  BY <1>1, <1>2, <1>4, <2>1, Empties DEF ArchiveRefused
<1>5. CASE FetchFails(c)
  <2>1. ~Effective(c)  BY <1>5 DEF FetchFails, Effective, Working
  <2>2. loading' \in BOOLEAN /\ selected' \subseteq Msgs  BY <1>1, <1>5 DEF FetchFails
  <2> QED  BY <1>1, <1>2, <1>5, <2>1, <2>2, Empties DEF FetchFails
<1> QED  BY <1>3, <1>4, <1>5

(* A mutation that moves on its own: the rows and the list stay. *)
LEMMA Moves ==
  ASSUME MailboxInv, NEW c \in Call, NEW q \in CallType,
         calls' = [calls EXCEPT ![c] = q],
         UNCHANGED <<mail, client, foreign, history>>,
         q.pc # "paged", Keeps(c), StageInv(c)'
  PROVE  MailboxInv'
<1>1. MailboxTypeOK  BY DEF MailboxInv
<1>2. /\ calls' \in [Call -> CallType] /\ calls'[c] = q
      /\ \A d \in Call : d # c => calls'[d] = calls[d]
  BY <1>1, OneUpdate
<1>3. MailboxTypeOK'  BY <1>1, <1>2 DEF MailboxTypeOK, history, client
<1> QED  BY <1>2, <1>3, OneStage DEF history, client

LEMMA SetArchivedStep ==
  ASSUME MailboxInv, NEW c \in Call, SetArchived(c)
  PROVE  MailboxInv'
<1> DEFINE q == [NoCall EXCEPT !.pc = "sent", !.deed = "archive", !.ids = selected]
<1>1. StageInv(c) /\ calls[c].pc = "idle" /\ selected \subseteq Msgs /\ MailboxTypeOK
  BY DEF MailboxInv, SetArchived, FreshCall, MailboxTypeOK
<1>2. NoCall \in CallType /\ NoCall.purge = {} /\ NoCall.tag = {}
  <2>1. NoCall \in CallType  BY NoCallType
  <2> QED  BY <2>1 DEF NoCall
<1>3. /\ q \in CallType /\ q.pc = "sent" /\ q.deed = "archive" /\ q.ids = selected
      /\ q.purge = {} /\ q.tag = {}
  BY <1>1, <1>2 DEF CallType, Mutating
<1>4. calls' = [calls EXCEPT ![c] = q]  BY DEF SetArchived
<1> HIDE DEF q
<1>5. calls'[c] = q  BY <1>1, <1>3, <1>4, OneUpdate
<1>6. Keeps(c)
  BY <1>1, <1>3, <1>5 DEF Keeps, Patching, Effective, StageInv, Mutating, Working
<1>7. StageInv(c)'  BY <1>3, <1>5 DEF StageInv, Mutating, Working
<1> QED  BY <1>3, <1>4, <1>6, <1>7, Moves DEF SetArchived

LEMMA LoadStep ==
  ASSUME MailboxInv, NEW c \in Call, Load(c)
  PROVE  MailboxInv'
<1> DEFINE p == calls[c]  found == {m \in p.ids : IsStored(m)}
           pc == IF found = {} THEN "answered" ELSE IF p.deed = "delete" THEN "tags" ELSE "apply"
           q == [p EXCEPT !.purge = found, !.pc = pc]
<1>1. StageInv(c) /\ p.pc = "sent" /\ p \in CallType /\ calls \in [Call -> CallType]
  BY CallFacts DEF MailboxInv, MailboxTypeOK, Load
<1>2. p.ids \subseteq Msgs  BY <1>1 DEF CallType
<1>3. /\ q \in CallType /\ q.pc = pc /\ q.deed = p.deed /\ q.ids = p.ids
      /\ q.purge = found /\ q.tag = p.tag /\ q.stale = p.stale /\ q.before = p.before
      /\ q.due = p.due
  BY <1>1, <1>2 DEF CallType, Mutating, Working
<1>4. calls' = [calls EXCEPT ![c] = q]  BY <1>1 DEF Load
<1>5. found = {} <=> ~ \E m \in p.ids : IsStored(m)  OBVIOUS
<1> HIDE DEF q
<1>6. calls'[c] = q  BY <1>1, <1>4
<1>7. Keeps(c)
  <2>1. found # {} => pc \in {"tags", "apply"}  OBVIOUS
  <2>2. Effective(c) => Effective(c)'
    BY <1>1, <1>3, <1>5, <1>6, <2>1 DEF Effective, Working
  <2> QED  BY <1>1, <1>3, <1>6, <2>2 DEF Keeps, Patching
<1>8. StageInv(c)'
  <2>1. found \subseteq p.ids  OBVIOUS
  <2> HIDE DEF found
  <2>2. mail' = mail  BY DEF Load
  <2>3. \A m : Trashed(m)' = Trashed(m)  BY <2>2 DEF Trashed
  <2> QED  BY <1>1, <1>3, <1>6, <2>1, <2>3 DEF StageInv, Mutating, Working
<1> QED  BY <1>3, <1>4, <1>7, <1>8, Moves DEF Load

LEMMA RefusedStep ==
  ASSUME MailboxInv, NEW c \in Call, calls[c].pc \in Mutating,
         NEW q \in CallType, calls' = [calls EXCEPT ![c] = q],
         UNCHANGED <<mail, client, foreign, history>>,
         q.pc = "refused", q.deed = calls[c].deed, q.ids = calls[c].ids,
         q.before = calls[c].before, q.stale = calls[c].stale,
         q.purge \subseteq q.ids, q.tag \subseteq q.ids
  PROVE  MailboxInv'
<1>1. StageInv(c) /\ MailboxTypeOK  BY DEF MailboxInv
<1>2. calls'[c] = q  BY <1>1, OneUpdate
<1>3. Effective(c)'  BY <1>2 DEF Effective, Working
<1>4. Keeps(c)  BY <1>2, <1>3 DEF Keeps, Patching
<1>5. StageInv(c)'  BY <1>1, <1>2 DEF StageInv, Mutating, Working
<1> QED  BY <1>4, <1>5, Moves

LEMMA RefuseStep ==
  ASSUME MailboxInv, NEW c \in Call, calls[c].pc \in Mutating, Refuse(c),
         UNCHANGED <<client, foreign, tangled, unfair>>
  PROVE  MailboxInv'
<1> DEFINE q == [calls[c] EXCEPT !.pc = "refused"]
<1>1. StageInv(c) /\ calls[c] \in CallType  BY CallFacts DEF MailboxInv
<1>2. /\ q \in CallType /\ q.pc = "refused" /\ q.deed = calls[c].deed /\ q.ids = calls[c].ids
      /\ q.before = calls[c].before /\ q.stale = calls[c].stale
      /\ q.purge = calls[c].purge /\ q.tag = calls[c].tag
  BY <1>1 DEF CallType, Mutating, Working
<1>3. calls' = [calls EXCEPT ![c] = q]  BY DEF Refuse, Go
<1>4. UNCHANGED <<mail, client, foreign, history>>  BY DEF Refuse, history
<1>5. q.purge \subseteq q.ids /\ q.tag \subseteq q.ids  BY <1>1, <1>2 DEF StageInv
<1> QED  BY <1>2, <1>3, <1>4, <1>5, RefusedStep

LEMMA FailStep ==
  ASSUME MailboxInv, NEW c \in Call, Fail(c)
  PROVE  MailboxInv'
<1> DEFINE q == [calls[c] EXCEPT !.pc = "refused", !.purge = {}, !.tag = {}, !.due = {}]
<1>1. calls[c] \in CallType  BY CallFacts DEF MailboxInv
<1>2. /\ q \in CallType /\ q.pc = "refused" /\ q.deed = calls[c].deed /\ q.ids = calls[c].ids
      /\ q.before = calls[c].before /\ q.stale = calls[c].stale
      /\ q.purge = {} /\ q.tag = {}
  BY <1>1 DEF CallType, Mutating, Working
<1>3. calls' = [calls EXCEPT ![c] = q] /\ calls[c].pc \in Mutating
  BY DEF Fail, Mutating, Working
<1> QED  BY <1>2, <1>3, RefusedStep DEF Fail

LEMMA ReadTagsStep ==
  ASSUME MailboxInv, NEW c \in Call, ReadTags(c)
  PROVE  MailboxInv'
<1> DEFINE p == calls[c]  purge == AlreadyTrashed(p.purge)  tag == p.purge \ purge
           pc == IF purge = p.purge THEN "purge" ELSE "trash"
           q == [p EXCEPT !.purge = purge, !.tag = tag, !.pc = pc]
<1>1. StageInv(c) /\ p.pc = "tags" /\ p \in CallType /\ calls \in [Call -> CallType]
  BY CallFacts DEF MailboxInv, MailboxTypeOK, ReadTags
<1>2. p.ids \subseteq Msgs /\ p.purge \subseteq p.ids /\ p.deed = "delete"
      /\ \A m \in p.ids : Trashed(m) => m \in p.due
  BY <1>1 DEF CallType, StageInv
<1>3. purge \subseteq p.ids /\ tag \subseteq p.ids /\ purge \subseteq p.due
      /\ purge \subseteq Msgs /\ tag \subseteq Msgs
  BY <1>2 DEF AlreadyTrashed
<1>4. /\ q \in CallType /\ q.pc = pc /\ q.deed = p.deed /\ q.ids = p.ids
      /\ q.purge = purge /\ q.tag = tag /\ q.stale = p.stale /\ q.before = p.before
      /\ q.due = p.due
  BY <1>1, <1>3 DEF CallType, Mutating, Working
<1>5. calls' = [calls EXCEPT ![c] = q]  BY <1>1 DEF ReadTags
<1>6. pc \in {"purge", "trash"}  OBVIOUS
<1> HIDE DEF q, pc, purge, tag
<1>7. calls'[c] = q  BY <1>1, <1>5
<1>8. Keeps(c)
  BY <1>1, <1>2, <1>4, <1>6, <1>7 DEF Keeps, Patching, Effective, Working
<1>9. StageInv(c)'
  BY <1>2, <1>3, <1>4, <1>6, <1>7 DEF StageInv, Mutating, Working
<1> QED  BY <1>4, <1>5, <1>6, <1>8, <1>9, Moves DEF ReadTags

(* A query reads its page: the truth at this version. *)
LEMMA ListStep ==
  ASSUME MailboxAssumption, MailboxInv, NEW c \in Call, List(c)
  PROVE  MailboxInv'
<1> DEFINE p == calls[c]  listed == RowsBelow(p.of, p.after)
           ids == PageOf(listed)  next == NextCursor(listed)
           page == [i \in DOMAIN ids |-> Node(ids[i])]
           q == [p EXCEPT !.pc = "paged", !.page = page, !.next = next,
                          !.version = version, !.members = InView(p.of)]
<1>1. /\ StageInv(c) /\ p.pc = "asked" /\ p \in CallType /\ calls \in [Call -> CallType]
      /\ MailboxTypeOK /\ version \in Nat /\ mail \in [Msgs -> Row]
  BY CallFacts DEF MailboxInv, MailboxTypeOK, List
<1>2. p.after \in Msgs \cup {NoCursor}  BY <1>1 DEF CallType
<1>3. p.of \in Views /\ p.deed = ""  BY <1>1 DEF StageInv, Mutating, Working
<1>4. /\ ids \in Seq(Msgs) /\ DOMAIN ids = 1 .. Len(ids) /\ Len(ids) \in Nat
      /\ next \in Msgs \cup {NoCursor} /\ (p.after # NoCursor => next < p.after)
      /\ \A i, j \in DOMAIN ids : i < j => ids[i] > ids[j]
      /\ \A i \in DOMAIN ids : ids[i] \in Between(InView(p.of), p.after, next)
      /\ \A m \in Between(InView(p.of), p.after, next) : \E i \in DOMAIN ids : ids[i] = m
  BY <1>2, PageFacts
<1>5. calls' = [calls EXCEPT ![c] = q]  BY DEF List
<1> HIDE DEF ids, next
<1>6. \A i \in DOMAIN ids : ids[i] \in Msgs  BY <1>4, ElementOfSeq
<1>7. \A m \in Msgs : Node(m) \in Item /\ Node(m).id = m
  BY <1>1 DEF Node, Item, Row
<1>8. /\ page \in Seq(Item) /\ DOMAIN page = DOMAIN ids
      /\ \A i \in DOMAIN ids : page[i] = Node(ids[i]) /\ page[i].id = ids[i]
  <2>1. \A i \in 1 .. Len(ids) : Node(ids[i]) \in Item /\ Node(ids[i]).id = ids[i]
    BY <1>4, <1>6, <1>7
  <2>2. page = [i \in 1 .. Len(ids) |-> Node(ids[i])]  BY <1>4
  <2> HIDE DEF page
  <2>3. page \in Seq(Item)  BY <1>4, <2>1, <2>2
  <2> QED  BY <1>4, <2>1, <2>2, <2>3
<1> HIDE DEF page
<1>9. InView(p.of) \subseteq Msgs  BY DEF InView
<1>10. /\ q \in CallType /\ q.pc = "paged" /\ q.deed = "" /\ q.ids = p.ids
       /\ q.purge = p.purge /\ q.tag = p.tag /\ q.of = p.of /\ q.after = p.after
       /\ q.page = page /\ q.next = next /\ q.version = version
       /\ q.members = InView(p.of)
  BY <1>1, <1>3, <1>4, <1>8, <1>9 DEF CallType
<1> HIDE DEF q
<1>11. calls'[c] = q /\ \A d \in Call : d # c => calls'[d] = calls[d]
  BY <1>1, <1>5, <1>10, OneUpdate
<1>12. UNCHANGED <<mail, view, shown, cursor, loading, selected, foreign, version,
                   onScreen, tangled, unfair>>
  BY DEF List, client, history
<1>13. MailboxTypeOK'
  BY <1>1, <1>5, <1>10, <1>12, OneUpdate DEF MailboxTypeOK
<1>14. Keeps(c)  BY <1>1, <1>3, <1>10, <1>11 DEF Keeps, Patching
<1>15. StageInv(c)'
  BY <1>1, <1>3, <1>10, <1>11 DEF StageInv, Mutating, Working
<1>16. Ids(page) = Between(InView(p.of), p.after, next)
  <2>1. Ids(page) = {ids[i] : i \in DOMAIN ids}  BY <1>8 DEF Ids
  <2> QED  BY <1>4, <2>1
<1>17. Fresh(page) /\ Descending(page)
  BY <1>4, <1>8 DEF Fresh, Descending
<1>18. version <= version  BY <1>1
<1>19. PageInv(c)'
  <2>1. \A m \in Ids(page) : m >= next /\ (p.after # NoCursor => m < p.after)
    BY <1>16 DEF Between
  <2>2. InView(calls[c].of)' = InView(p.of)
    BY <1>10, <1>11, <1>12 DEF InView
  <2>3. /\ calls'[c].page = page /\ calls'[c].next = next /\ calls'[c].after = p.after
        /\ calls'[c].of = p.of /\ calls'[c].members = InView(p.of)
        /\ calls'[c].version = version
    BY <1>10, <1>11
  <2>4. Ids(calls[c].page)' = Ids(page) /\ Descending(calls[c].page)'
    BY <1>17, <2>3 DEF Ids, Descending
  <2>5. Fresh(calls[c].page)'
    BY <1>12, <1>17, <2>3 DEF Fresh, Node
  <2>6. Between(calls[c].members, calls[c].after, calls[c].next)' = Ids(page)
    BY <1>16, <2>3 DEF Between
  <2>7. \A m \in Ids(calls[c].page)' :
           m >= calls'[c].next /\ (calls'[c].after # NoCursor => m < calls'[c].after)
    BY <2>1, <2>3, <2>4
  <2>8. calls'[c].after # NoCursor => calls'[c].next < calls'[c].after
    BY <1>4, <2>3
  <2>9. calls'[c].version <= version' /\ calls'[c].members = InView(calls[c].of)'
    BY <1>12, <1>18, <2>2, <2>3
  <2> QED  BY <2>4, <2>5, <2>6, <2>7, <2>8, <2>9 DEF PageInv
<1>20. ASSUME NEW d \in Call PROVE LaterPage(c, d)' /\ LaterPage(d, c)'
  <2>1. CASE d = c  BY <2>1 DEF LaterPage
  <2>2. CASE d # c
    <3>1. PageInv(d) /\ calls'[d] = calls[d] /\ calls[d] \in CallType
      BY <1>11, <2>2, CallFacts DEF MailboxInv
    <3>5. ASSUME calls[d].pc = "paged", calls[d].of = p.of
          PROVE  calls[d].members \subseteq InView(p.of)
      BY <3>1, <3>5 DEF PageInv
    <3>2. LaterPage(c, d)'
      BY <1>10, <1>11, <3>1, <3>5 DEF LaterPage
    <3>3. ASSUME calls[d].pc = "paged", calls[d].of = p.of, calls[d].version >= version
          PROVE  InView(p.of) \subseteq calls[d].members
      <4>1. calls[d].version \in Nat  BY <3>1 DEF CallType
      <4>2. calls[d].version <= version  BY <3>1, <3>3 DEF PageInv
      <4>3. calls[d].version = version  BY <1>1, <3>3, <4>1, <4>2
      <4> QED  BY <3>1, <3>3, <4>3 DEF PageInv
    <3>4. LaterPage(d, c)'
      BY <1>10, <1>11, <3>1, <3>3 DEF LaterPage
    <3> QED  BY <3>2, <3>4
  <2> QED  BY <2>1, <2>2
<1>21. ~tangled => onScreen.members \subseteq InView(onScreen.of)
  BY DEF MailboxInv, ScreenInv
<1>22. ~tangled /\ calls'[c].of = onScreen.of => onScreen.members \subseteq calls'[c].members
  <2>1. calls'[c].of = p.of /\ calls'[c].members = InView(p.of)  BY <1>10, <1>11
  <2>2. ASSUME ~tangled, p.of = onScreen.of PROVE onScreen.members \subseteq InView(p.of)
    BY <1>21, <2>2 DEF InView
  <2> QED  BY <2>1, <2>2
<1> QED  BY <1>11, <1>12, <1>13, <1>14, <1>15, <1>19, <1>20, <1>22, OneCall

(* When rows change: what becomes of a call that is not the one answered,  *)
(* or of the one that is.                                                  *)
Follows(cs, table, d) ==
  /\ cs[d] \in CallType
  /\ /\ cs[d].deed = calls[d].deed /\ cs[d].ids = calls[d].ids
     /\ cs[d].before = calls[d].before /\ cs[d].stale = calls[d].stale
     /\ cs[d].purge = calls[d].purge /\ cs[d].tag = calls[d].tag
     /\ cs[d].of = calls[d].of /\ cs[d].after = calls[d].after
     /\ cs[d].page = calls[d].page /\ cs[d].next = calls[d].next
     /\ cs[d].version = calls[d].version /\ cs[d].members = calls[d].members
  /\ calls[d].due \subseteq cs[d].due
  /\ \/ cs[d].pc = calls[d].pc
     \/ calls[d].pc \in {"apply", "trash", "purge"} /\ cs[d].pc = "answered"
     \/ calls[d].pc = "trash" /\ cs[d].pc = "purge"
  /\ calls[d].deed = "delete" /\ calls[d].pc \in {"sent", "tags"} =>
        \A m \in calls[d].ids : "TRASH" \in table[m].tags => m \in cs[d].due

LEMMA MailStep ==
  ASSUME MailboxInv, NEW table \in [Msgs -> Row], NEW cs, MailChanges(table, cs),
         UNCHANGED <<client, tangled>>, foreign' \in Nat, unfair' = {},
         \A d \in Call : Follows(cs, table, d)
  PROVE  MailboxInv'
<1>1. /\ MailboxTypeOK /\ mail' = table /\ version' = version + 1 /\ version \in Nat
      /\ version + 1 \in Nat /\ onScreen.version \in Nat /\ onScreen.version <= version
      /\ \A d \in Call : calls[d] \in CallType /\ StageInv(d) /\ PageInv(d)
  BY CallFacts DEF MailboxInv, MailboxTypeOK, MailChanges, ScreenInv
<1>2. \A d \in Call :
         calls'[d] = IF cs[d].pc # "paged" THEN cs[d]
                     ELSE [cs[d] EXCEPT !.members = StillIn(cs[d].members, cs[d].of, table)]
  BY DEF MailChanges
<1>3. ASSUME NEW d \in Call
      PROVE  /\ calls'[d] \in CallType
             /\ calls'[d].deed = calls[d].deed /\ calls'[d].ids = calls[d].ids
             /\ calls'[d].before = calls[d].before /\ calls'[d].stale = calls[d].stale
             /\ calls'[d].purge = calls[d].purge /\ calls'[d].tag = calls[d].tag
             /\ calls'[d].of = calls[d].of /\ calls'[d].after = calls[d].after
             /\ calls'[d].page = calls[d].page /\ calls'[d].next = calls[d].next
             /\ calls'[d].version = calls[d].version /\ calls'[d].due = cs[d].due
             /\ calls'[d].pc = cs[d].pc
             /\ cs[d].pc = "paged" =>
                   calls'[d].members = StillIn(calls[d].members, calls[d].of, table)
  <2>1. Follows(cs, table, d)  OBVIOUS
  <2>2. cs[d].members \subseteq Msgs /\ cs[d] \in CallType
    BY <2>1 DEF Follows, CallType
  <2>3. StillIn(cs[d].members, cs[d].of, table) \subseteq Msgs
    BY <2>2 DEF StillIn
  <2>4. CASE cs[d].pc # "paged"
    <3>1. calls'[d] = cs[d]  BY <1>2, <2>4
    <3> QED  BY <2>1, <2>4, <3>1 DEF Follows
  <2>5. CASE cs[d].pc = "paged"
    <3>1. calls'[d] = [cs[d] EXCEPT !.members = StillIn(cs[d].members, cs[d].of, table)]
      BY <1>2, <2>5
    <3>2. calls'[d] \in CallType  BY <2>2, <2>3, <3>1 DEF CallType
    <3>3. /\ calls'[d].deed = cs[d].deed /\ calls'[d].ids = cs[d].ids
          /\ calls'[d].before = cs[d].before /\ calls'[d].stale = cs[d].stale
          /\ calls'[d].purge = cs[d].purge /\ calls'[d].tag = cs[d].tag
          /\ calls'[d].of = cs[d].of /\ calls'[d].after = cs[d].after
          /\ calls'[d].page = cs[d].page /\ calls'[d].next = cs[d].next
          /\ calls'[d].version = cs[d].version /\ calls'[d].due = cs[d].due
          /\ calls'[d].pc = cs[d].pc
          /\ calls'[d].members = StillIn(cs[d].members, cs[d].of, table)
      BY <2>2, <3>1 DEF CallType
    <3> QED  BY <2>1, <3>2, <3>3 DEF Follows
  <2> QED  BY <2>4, <2>5
<1>4. ASSUME NEW d \in Call
      PROVE  /\ calls[d].due \subseteq calls'[d].due
             /\ \/ calls'[d].pc = calls[d].pc
                \/ calls[d].pc \in {"apply", "trash", "purge"} /\ calls'[d].pc = "answered"
                \/ calls[d].pc = "trash" /\ calls'[d].pc = "purge"
             /\ calls[d].deed = "delete" /\ calls[d].pc \in {"sent", "tags"} =>
                  \A m \in calls[d].ids : "TRASH" \in table[m].tags => m \in calls'[d].due
             /\ calls'[d].pc = "paged" =>
                  /\ calls[d].pc = "paged"
                  /\ calls'[d].members = StillIn(calls[d].members, calls[d].of, table)
  <2>1. Follows(cs, table, d)  OBVIOUS
  <2> QED  BY <1>3, <2>1 DEF Follows
<1>5. /\ onScreen'.of = onScreen.of /\ onScreen'.end = onScreen.end
      /\ onScreen'.version = onScreen.version
      /\ onScreen'.members = StillIn(onScreen.members, onScreen.of, table)
      /\ onScreen' \in [of : Views, end : Msgs \cup {NoCursor}, version : Nat,
                        members : SUBSET Msgs]
  BY <1>1 DEF MailChanges, MailboxTypeOK, StillIn
<1>6. \A S, v : StillIn(S, v, table) \subseteq S
  BY DEF StillIn
<1>7. \A v : \A S \in SUBSET Msgs : StillIn(S, v, table) \subseteq {m \in Msgs : Lists(v, table[m])}
  BY DEF StillIn
<1>8. \A S, T, v : S \subseteq T => StillIn(S, v, table) \subseteq StillIn(T, v, table)
  BY DEF StillIn
<1>9. MailboxTypeOK'
  <2>1. calls' \in [Call -> CallType]
    <3>1. DOMAIN calls' = Call /\ calls' = [c \in Call |-> calls'[c]]  BY DEF MailChanges
    <3> QED  BY <1>3, <3>1
  <2> QED  BY <1>1, <1>5, <2>1 DEF MailboxTypeOK, client
<1>10. ASSUME NEW d \in Call PROVE StageInv(d)'
  <2>1. StageInv(d)  BY <1>1
  <2>2. \A m : Trashed(m)' <=> "TRASH" \in table[m].tags  BY <1>1 DEF Trashed
  <2> QED  BY <1>3, <1>4, <2>1, <2>2 DEF StageInv, Mutating, Working
<1>11. ASSUME NEW d \in Call PROVE PageInv(d)'
  <2> SUFFICES ASSUME calls'[d].pc = "paged" PROVE PageInv(d)'  BY DEF PageInv
  <2>1. PageInv(d) /\ calls[d].pc = "paged" /\ calls[d] \in CallType  BY <1>1, <1>4
  <2>2. calls[d].members \subseteq Msgs /\ calls[d].version \in Nat  BY <2>1 DEF CallType
  <2>3. calls'[d].members \subseteq InView(calls[d].of)'
    BY <1>1, <1>3, <1>4, <1>7, <2>2 DEF InView
  <2>4. calls'[d].members \subseteq calls[d].members  BY <1>4, <1>6
  <2>5. calls[d].version <= version /\ calls'[d].version = calls[d].version
    BY <1>3, <2>1 DEF PageInv
  <2>6. calls'[d].version <= version' /\ calls'[d].version # version'
    BY <1>1, <2>2, <2>5
  <2>7. Between(calls[d].members, calls[d].after, calls[d].next)'
           \subseteq Between(calls[d].members, calls[d].after, calls[d].next)
    BY <1>3, <2>4 DEF Between
  <2>8. Descending(calls[d].page)' /\ Ids(calls[d].page)' = Ids(calls[d].page)
    BY <1>3, <2>1 DEF PageInv, Descending, Ids
  <2>9. /\ Between(calls[d].members, calls[d].after, calls[d].next) \subseteq Ids(calls[d].page)
        /\ \A m \in Ids(calls[d].page) :
              m >= calls[d].next /\ (calls[d].after # NoCursor => m < calls[d].after)
        /\ calls[d].after # NoCursor => calls[d].next < calls[d].after
    BY <2>1 DEF PageInv
  <2>10. /\ \A m \in Ids(calls[d].page)' :
              m >= calls'[d].next /\ (calls'[d].after # NoCursor => m < calls'[d].after)
         /\ calls'[d].after # NoCursor => calls'[d].next < calls'[d].after
    BY <1>3, <2>8, <2>9
  <2> QED  BY <2>3, <2>6, <2>7, <2>8, <2>9, <2>10 DEF PageInv
<1>12. ASSUME NEW c \in Call, NEW d \in Call PROVE LaterPage(c, d)'
  <2>1. LaterPage(c, d)  BY DEF MailboxInv
  <2> SUFFICES ASSUME calls'[c].pc = "paged", calls'[d].pc = "paged",
                      calls'[c].of = calls'[d].of, calls'[c].version >= calls'[d].version
               PROVE  calls'[d].members \subseteq calls'[c].members
    BY DEF LaterPage
  <2>2. /\ calls[c].pc = "paged" /\ calls[d].pc = "paged" /\ calls[c].of = calls[d].of
        /\ calls[c].version >= calls[d].version
    BY <1>3, <1>4
  <2>3. calls[d].members \subseteq calls[c].members  BY <2>1, <2>2 DEF LaterPage
  <2>4. StillIn(calls[d].members, calls[d].of, table)
           \subseteq StillIn(calls[c].members, calls[c].of, table)
    BY <1>8, <2>2, <2>3
  <2> QED  BY <1>4, <2>4
<1>13. ASSUME NEW c \in Call, NEW d \in Call, c # d PROVE OverlapInv(c, d)'
  <2>1. OverlapInv(c, d)  BY <1>13 DEF MailboxInv
  <2> SUFFICES ASSUME calls'[c].deed = "delete", calls'[c].pc \in {"sent", "tags"},
                      calls'[d].deed = "delete", calls'[d].pc \in {"sent", "tags", "trash"}
               PROVE  calls'[c].ids \cap calls'[d].ids \subseteq calls'[c].due
    BY DEF OverlapInv
  <2>2. calls[c].pc \in {"sent", "tags"} /\ calls[d].pc \in {"sent", "tags", "trash"}
    BY <1>4
  <2>3. calls[c].ids \cap calls[d].ids \subseteq calls[c].due
    BY <1>3, <2>1, <2>2 DEF OverlapInv
  <2> QED  BY <1>3, <1>4, <2>3
<1>14. shown' = shown /\ tangled' = tangled  BY DEF client
<1>15. ASSUME NEW list, Whole(list) PROVE Whole(list)'
  BY <1>5, <1>6, <1>15 DEF Whole, Descending, Ids
<1>16. ScreenInv'
  <2>1. onScreen'.version <= version'  BY <1>1, <1>5
  <2>2. \A d \in Call : Pending(d)' <=> Pending(d)  BY <1>3 DEF Pending, Patching
  <2>3. \A c, d \in Call : Pending(c)' /\ Pending(d)' => c = d
    BY <2>2 DEF MailboxInv, ScreenInv
  <2>4. ASSUME ~tangled'
        PROVE  onScreen'.members \subseteq InView(onScreen.of)' /\ Whole(shown)'
    <3>1. onScreen.members \subseteq Msgs  BY <1>1 DEF MailboxTypeOK
    <3>2. onScreen'.members \subseteq InView(onScreen.of)'
      BY <1>1, <1>5, <1>7, <3>1 DEF InView
    <3>3. Whole(shown)  BY <1>14, <2>4 DEF MailboxInv, ScreenInv
    <3>4. Whole(shown)'  BY <1>5, <1>6, <1>14, <3>3 DEF Whole, Descending, Ids
    <3> QED  BY <3>2, <3>4
  <2>5. ASSUME ~tangled', NEW d \in Call, Pending(d)' PROVE Whole(calls[d].before)'
    <3>1. Whole(calls[d].before) /\ calls'[d].before = calls[d].before
      BY <1>3, <1>14, <2>2, <2>5 DEF MailboxInv, ScreenInv
    <3> QED  BY <1>5, <1>6, <3>1 DEF Whole, Descending, Ids
  <2>6. ASSUME ~tangled', NEW d \in Call, calls'[d].pc = "paged",
               calls'[d].of = onScreen'.of, calls'[d].version >= onScreen'.version
        PROVE  onScreen'.members \subseteq calls'[d].members
    <3>1. /\ ~tangled /\ calls[d].pc = "paged" /\ calls[d].of = onScreen.of
          /\ calls[d].version >= onScreen.version
      BY <1>3, <1>4, <1>5, <1>14, <2>6
    <3>2. onScreen.members \subseteq calls[d].members
      BY <3>1 DEF MailboxInv, ScreenInv
    <3>3. StillIn(onScreen.members, onScreen.of, table)
             \subseteq StillIn(calls[d].members, calls[d].of, table)
      BY <1>8, <3>1, <3>2
    <3> QED  BY <1>4, <1>5, <2>6, <3>3
  <2> QED  BY <2>1, <2>3, <2>4, <2>5, <2>6 DEF ScreenInv
<1>17. HonestInv'
  <2>1. onScreen'.version # version'  BY <1>1, <1>5
  <2> QED  BY <2>1 DEF HonestInv
<1> QED  BY <1>9, <1>10, <1>11, <1>12, <1>13, <1>16, <1>17 DEF MailboxInv

LEMMA Goes ==
  ASSUME MailboxInv, NEW c \in Call, NEW table \in [Msgs -> Row], NEW pc,
         \/ calls[c].pc \in {"apply", "trash", "purge"} /\ pc = "answered"
         \/ calls[c].pc = "trash" /\ pc = "purge",
         \A d \in Call : d # c /\ calls[d].deed = "delete" /\ calls[d].pc \in {"sent", "tags"} =>
            \A m \in calls[d].ids : "TRASH" \in table[m].tags => m \in calls[d].due
  PROVE  \A d \in Call : Follows(Go(c, pc), table, d)
<1> SUFFICES ASSUME NEW d \in Call PROVE Follows(Go(c, pc), table, d)  OBVIOUS
<1>1. calls[d] \in CallType /\ calls \in [Call -> CallType]
  BY CallFacts DEF MailboxInv, MailboxTypeOK
<1>2. CASE d # c
  <2>1. Go(c, pc)[d] = calls[d]  BY <1>1, <1>2 DEF Go
  <2> QED  BY <1>1, <1>2, <2>1 DEF Follows
<1>3. CASE d = c
  <2> DEFINE p == calls[c]  q == [p EXCEPT !.pc = pc]
  <2>1. Go(c, pc)[d] = q  BY <1>1, <1>3 DEF Go
  <2>2. /\ q \in CallType /\ q.pc = pc
        /\ q.deed = p.deed /\ q.ids = p.ids /\ q.before = p.before /\ q.stale = p.stale
        /\ q.purge = p.purge /\ q.tag = p.tag /\ q.of = p.of /\ q.after = p.after
        /\ q.page = p.page /\ q.next = p.next /\ q.version = p.version
        /\ q.members = p.members /\ q.due = p.due
    BY <1>1, <1>3 DEF CallType, Mutating, Working
  <2> HIDE DEF q
  <2> QED  BY <1>3, <2>1, <2>2 DEF Follows
<1> QED  BY <1>2, <1>3

LEMMA ApplyStep ==
  ASSUME MailboxAssumption, MailboxInv, NEW c \in Call, Apply(c)
  PROVE  MailboxInv'
<1> DEFINE deed == calls[c].deed  live == {m \in calls[c].purge : IsStored(m)}
           table == [m \in Msgs |-> IF m \in live THEN Marked(deed, mail[m]) ELSE mail[m]]
<1>1. /\ StageInv(c) /\ calls[c] \in CallType /\ mail \in [Msgs -> Row] /\ foreign \in Nat
      /\ unfair = {} /\ calls[c].pc = "apply"
  BY CallFacts DEF MailboxInv, MailboxTypeOK, Apply
<1>2. deed \in {"spam", "notSpam", "read", "unread", "archive"}
  BY <1>1 DEF StageInv, CallType, Mutating, Working, MailboxAssumption
<1>3. CASE Refuse(c)
  <2>1. calls[c].pc \in Mutating  BY <1>1 DEF Mutating, Working
  <2> QED  BY <1>3, <2>1, RefuseStep DEF Apply
<1>4. CASE MailChanges(table, Go(c, "answered"))
  <2>1. \A row \in Row : /\ Marked(deed, row) \in Row
                         /\ "TRASH" \in Marked(deed, row).tags => "TRASH" \in row.tags
    BY <1>2 DEF Row, Marked
  <2>2. table \in [Msgs -> Row]  BY <1>1, <2>1
  <2>3. \A m \in Msgs : "TRASH" \in table[m].tags => Trashed(m)
    BY <1>1, <2>1 DEF Trashed
  <2>4. ASSUME NEW d \in Call, calls[d].deed = "delete", calls[d].pc \in {"sent", "tags"},
               NEW m \in calls[d].ids, "TRASH" \in table[m].tags
        PROVE  m \in calls[d].due
    <3>1. StageInv(d) /\ m \in Msgs  BY CallFacts DEF MailboxInv, CallType
    <3> QED  BY <2>3, <2>4, <3>1 DEF StageInv
  <2> HIDE DEF table
  <2>5. \A d \in Call : Follows(Go(c, "answered"), table, d)
    BY <1>1, <2>2, <2>4, Goes
  <2> QED  BY <1>1, <1>4, <2>2, <2>5, MailStep DEF Apply
<1> QED  BY <1>3, <1>4 DEF Apply

LEMMA AddTrashStep ==
  ASSUME MailboxInv, NEW c \in Call, AddTrashTags(c)
  PROVE  MailboxInv'
<1> DEFINE tag == calls[c].tag
           table == [m \in Msgs |-> IF m \in tag
                        THEN [mail[m] EXCEPT !.tags = @ \cup {"TRASH"}] ELSE mail[m]]
           pc == IF calls[c].purge = {} THEN "answered" ELSE "purge"
<1>1. /\ StageInv(c) /\ calls[c] \in CallType /\ mail \in [Msgs -> Row] /\ foreign \in Nat
      /\ unfair = {} /\ calls[c].pc = "trash"
  BY CallFacts DEF MailboxInv, MailboxTypeOK, AddTrashTags
<1>2. tag \subseteq calls[c].ids /\ calls[c].deed = "delete"  BY <1>1 DEF StageInv
<1>3. CASE Refuse(c)
  <2>1. calls[c].pc \in Mutating  BY <1>1 DEF Mutating, Working
  <2> QED  BY <1>3, <2>1, RefuseStep DEF AddTrashTags
<1>4. CASE MailChanges(table, Go(c, pc))
  <2>1. \A row \in Row : [row EXCEPT !.tags = @ \cup {"TRASH"}] \in Row
    BY DEF Row
  <2>2. table \in [Msgs -> Row]  BY <1>1, <2>1
  <2>3. \A m \in Msgs : "TRASH" \in table[m].tags => Trashed(m) \/ m \in tag
    BY <1>1 DEF Trashed
  <2>4. ASSUME NEW d \in Call, d # c, calls[d].deed = "delete",
               calls[d].pc \in {"sent", "tags"},
               NEW m \in calls[d].ids, "TRASH" \in table[m].tags
        PROVE  m \in calls[d].due
    <3>1. StageInv(d) /\ m \in Msgs /\ OverlapInv(d, c)
      BY <2>4, CallFacts DEF MailboxInv, CallType
    <3>2. CASE Trashed(m)  BY <2>4, <3>1, <3>2 DEF StageInv
    <3>3. CASE m \in tag
      BY <1>1, <1>2, <2>4, <3>1, <3>3 DEF OverlapInv
    <3> QED  BY <2>3, <2>4, <3>1, <3>2, <3>3
  <2>5. pc = "answered" \/ pc = "purge"  OBVIOUS
  <2> HIDE DEF table, pc
  <2>6. \A d \in Call : Follows(Go(c, pc), table, d)
    BY <1>1, <2>2, <2>4, <2>5, Goes
  <2> QED  BY <1>1, <1>4, <2>2, <2>6, MailStep DEF AddTrashTags
<1> QED  BY <1>3, <1>4 DEF AddTrashTags

(* A purge destroys what its delete was allowed to.                        *)
LEMMA PurgeStep ==
  ASSUME MailboxInv, NEW c \in Call, Purge(c)
  PROVE  MailboxInv'
<1> DEFINE gone == {m \in calls[c].purge : IsStored(m)}
           table == [m \in Msgs |-> IF m \in gone
                        THEN [mail[m] EXCEPT !.state = "gone"] ELSE mail[m]]
<1>1. /\ StageInv(c) /\ mail \in [Msgs -> Row] /\ foreign \in Nat
      /\ unfair = {} /\ calls[c].pc = "purge"
  BY DEF MailboxInv, MailboxTypeOK, Purge
<1>2. unfair' = {}
  <2>1. gone \subseteq calls[c].due  BY <1>1 DEF StageInv
  <2>2. unfair' = unfair \cup (gone \ calls[c].due)  BY DEF Purge
  <2> QED  BY <1>1, <2>1, <2>2
<1>3. MailChanges(table, Go(c, "answered"))  BY DEF Purge
<1>4. \A row \in Row : /\ [row EXCEPT !.state = "gone"] \in Row
                       /\ [row EXCEPT !.state = "gone"].tags = row.tags
  BY DEF Row
<1>5. table \in [Msgs -> Row]  BY <1>1, <1>4
<1>6. \A m \in Msgs : "TRASH" \in table[m].tags => Trashed(m)
  BY <1>1, <1>4 DEF Trashed
<1>7. ASSUME NEW d \in Call, calls[d].deed = "delete", calls[d].pc \in {"sent", "tags"},
             NEW m \in calls[d].ids, "TRASH" \in table[m].tags
      PROVE  m \in calls[d].due
  <2>1. StageInv(d) /\ m \in Msgs  BY CallFacts DEF MailboxInv, CallType
  <2> QED  BY <1>6, <1>7, <2>1 DEF StageInv
<1> HIDE DEF table
<1>8. \A d \in Call : Follows(Go(c, "answered"), table, d)
  BY <1>1, <1>5, <1>7, Goes
<1> QED  BY <1>1, <1>2, <1>3, <1>5, <1>8, MailStep DEF Purge

(* Other clients and arriving mail. *)
LEMMA ForeignStep ==
  ASSUME MailboxInv, NEW m \in Msgs, NEW row \in Row, Foreign(m, row)
  PROVE  MailboxInv'
<1> DEFINE table == [mail EXCEPT ![m] = row]
           cs == [c \in Call |-> IF "TRASH" \in row.tags /\ m \in calls[c].ids
                                 THEN [calls[c] EXCEPT !.due = @ \cup {m}] ELSE calls[c]]
<1>1. mail \in [Msgs -> Row] /\ foreign \in Nat /\ unfair = {}
  BY DEF MailboxInv, MailboxTypeOK
<1>2. table \in [Msgs -> Row]  BY <1>1
<1>3. ASSUME NEW d \in Call PROVE Follows(cs, table, d)
  <2>1. calls[d] \in CallType /\ StageInv(d)  BY CallFacts DEF MailboxInv
  <2> DEFINE p == calls[d]  q == [p EXCEPT !.due = p.due \cup {m}]
  <2>2. /\ q \in CallType /\ q.pc = p.pc
        /\ q.deed = p.deed /\ q.ids = p.ids /\ q.before = p.before /\ q.stale = p.stale
        /\ q.purge = p.purge /\ q.tag = p.tag /\ q.of = p.of /\ q.after = p.after
        /\ q.page = p.page /\ q.next = p.next /\ q.version = p.version
        /\ q.members = p.members /\ q.due = p.due \cup {m}
    BY <2>1 DEF CallType
  <2>3. cs[d] = IF "TRASH" \in row.tags /\ m \in p.ids THEN q ELSE p  OBVIOUS
  <2> HIDE DEF q, cs
  <2>4. ASSUME p.deed = "delete", p.pc \in {"sent", "tags"}, NEW n \in p.ids,
               "TRASH" \in table[n].tags
        PROVE  n \in cs[d].due
    <3>1. CASE n = m
      <4>1. "TRASH" \in row.tags  BY <1>1, <2>4, <3>1
      <4> QED  BY <2>2, <2>3, <2>4, <3>1, <4>1
    <3>2. CASE n # m
      <4>1. n \in Msgs  BY <2>1 DEF CallType
      <4>2. Trashed(n)  BY <1>1, <2>4, <3>2, <4>1 DEF Trashed
      <4>3. n \in p.due  BY <2>1, <2>4, <4>2 DEF StageInv
      <4> QED  BY <2>2, <2>3, <4>3
    <3> QED  BY <3>1, <3>2
  <2>5. /\ cs[d] \in CallType /\ cs[d].pc = p.pc
        /\ cs[d].deed = p.deed /\ cs[d].ids = p.ids /\ cs[d].before = p.before
        /\ cs[d].stale = p.stale
        /\ cs[d].purge = p.purge /\ cs[d].tag = p.tag /\ cs[d].of = p.of
        /\ cs[d].after = p.after
        /\ cs[d].page = p.page /\ cs[d].next = p.next /\ cs[d].version = p.version
        /\ cs[d].members = p.members /\ p.due \subseteq cs[d].due
    BY <2>1, <2>2, <2>3
  <2> QED  BY <2>4, <2>5 DEF Follows
<1>4. MailChanges(table, cs) /\ UNCHANGED <<client, tangled>> /\ foreign' \in Nat /\ unfair' = {}
  BY <1>1 DEF Foreign
<1> HIDE DEF table, cs
<1> QED  BY <1>2, <1>3, <1>4, MailStep

LEMMA OthersStep ==
  ASSUME MailboxInv, NEW m \in Msgs, Arrive(m) \/ OtherClient(m)
  PROVE  MailboxInv'
<1>1. mail[m] \in Row  BY DEF MailboxInv, MailboxTypeOK
<1>2. CASE Arrive(m)
  <2>1. PICK spam \in BOOLEAN : Foreign(m, [mail[m] EXCEPT !.state = "stored", !.spam = spam])
    BY <1>2 DEF Arrive
  <2>2. [mail[m] EXCEPT !.state = "stored", !.spam = spam] \in Row  BY <1>1 DEF Row
  <2> QED  BY <2>1, <2>2, ForeignStep
<1>3. CASE OtherClient(m)
  <2>1. PICK row \in {[mail[m] EXCEPT !.read = ~@], [mail[m] EXCEPT !.spam = ~@],
                      [mail[m] EXCEPT !.tags = @ \cup {"TRASH"}],
                      [mail[m] EXCEPT !.tags = @ \ {"TRASH"}],
                      [mail[m] EXCEPT !.state = "gone"]} : Foreign(m, row)
    BY <1>3 DEF OtherClient
  <2>2. row \in Row  BY <1>1, <2>1 DEF Row
  <2> QED  BY <2>1, <2>2, ForeignStep
<1> QED  BY <1>2, <1>3

(* The gestures that only select. *)
LEMMA SelectStep ==
  ASSUME MailboxInv, selected' \subseteq Msgs,
         UNCHANGED <<mail, view, shown, cursor, loading, calls, foreign, history>>
  PROVE  MailboxInv'
<1>1. MailboxTypeOK'  BY DEF MailboxInv, MailboxTypeOK, history
<1>2. ASSUME NEW c \in Call PROVE MailboxInv'
  <2>1. \A d \in Call : d # c => calls'[d] = calls[d]  OBVIOUS
  <2>2. Keeps(c)
    BY DEF Keeps, Patching, Effective, IsStored
  <2>3. StageInv(c)'
    <3>1. StageInv(c)  BY DEF MailboxInv
    <3> QED  BY <3>1 DEF StageInv, Trashed, Mutating, Working
  <2>4. PageInv(c)'
    <3>1. PageInv(c)  BY DEF MailboxInv
    <3> QED  BY <3>1 DEF PageInv, InView, Fresh, Node, Between, Descending, Ids, history
  <2>5. ASSUME NEW d \in Call PROVE LaterPage(c, d)' /\ LaterPage(d, c)'
    <3>1. LaterPage(c, d) /\ LaterPage(d, c)  BY DEF MailboxInv
    <3> QED  BY <3>1 DEF LaterPage
  <2>6. ~tangled /\ calls'[c].pc = "paged" /\ calls'[c].of = onScreen.of
        /\ calls'[c].version >= onScreen.version
        => onScreen.members \subseteq calls'[c].members
    BY DEF MailboxInv, ScreenInv
  <2> QED  BY <1>1, <2>1, <2>2, <2>3, <2>4, <2>5, <2>6, OneCall DEF history
<1>3. CASE Call = {}
  <2>1. ScreenInv'
    <3>1. onScreen'.version <= version' /\ onScreen' = onScreen /\ mail' = mail
          /\ shown' = shown /\ tangled' = tangled
      BY DEF MailboxInv, ScreenInv, history
    <3>2. ~tangled => onScreen.members \subseteq InView(onScreen.of) /\ Whole(shown)
      BY DEF MailboxInv, ScreenInv
    <3>3. ~tangled' => onScreen'.members \subseteq InView(onScreen.of)' /\ Whole(shown)'
      BY <3>1, <3>2 DEF InView, Whole, Descending, Ids
    <3> QED  BY <1>3, <3>1, <3>3 DEF ScreenInv
  <2>2. HonestInv'
    <3>1. onScreen' = onScreen /\ mail' = mail /\ shown' = shown /\ tangled' = tangled
          /\ version' = version
      BY DEF history
    <3>2. ~tangled /\ onScreen.version = version => Honest(shown)
      BY <1>3 DEF MailboxInv, HonestInv
    <3>3. ~tangled' /\ onScreen'.version = version' => Honest(shown)'
      BY <3>1, <3>2 DEF Honest, InView, Between, Ids, Fresh, Node
    <3> QED  BY <1>3, <3>3 DEF HonestInv
  <2> QED  BY <1>1, <1>3, <2>1, <2>2 DEF MailboxInv, history
<1> QED  BY <1>2, <1>3

(* The list is rewritten: every mutation on its way would now restore an   *)
(* older one.                                                              *)
Restated(d) ==
  /\ calls'[d].deed = calls[d].deed /\ calls'[d].ids = calls[d].ids
  /\ calls'[d].pc = calls[d].pc /\ (calls'[d].stale <=> calls[d].deed # "")
  /\ calls'[d].before = calls[d].before
  /\ calls'[d].purge = calls[d].purge /\ calls'[d].tag = calls[d].tag
  /\ calls'[d].of = calls[d].of /\ calls'[d].after = calls[d].after
  /\ calls'[d].page = calls[d].page /\ calls'[d].next = calls[d].next
  /\ calls'[d].version = calls[d].version /\ calls'[d].members = calls[d].members
  /\ calls[d].due \subseteq calls'[d].due

Carried(cs, d) ==
  /\ cs[d].deed = calls[d].deed /\ cs[d].ids = calls[d].ids
  /\ cs[d].pc = calls[d].pc /\ cs[d].before = calls[d].before
  /\ cs[d].purge = calls[d].purge /\ cs[d].tag = calls[d].tag
  /\ cs[d].of = calls[d].of /\ cs[d].after = calls[d].after
  /\ cs[d].page = calls[d].page /\ cs[d].next = calls[d].next
  /\ cs[d].version = calls[d].version /\ cs[d].members = calls[d].members
  /\ calls[d].due \subseteq cs[d].due

LEMMA StaleFacts ==
  ASSUME NEW p \in CallType, NEW b \in BOOLEAN, NEW q, q = [p EXCEPT !.stale = b]
  PROVE  /\ q \in CallType /\ q.stale = b
         /\ q.deed = p.deed /\ q.ids = p.ids /\ q.pc = p.pc /\ q.before = p.before
         /\ q.purge = p.purge /\ q.tag = p.tag /\ q.of = p.of /\ q.after = p.after
         /\ q.page = p.page /\ q.next = p.next /\ q.version = p.version
         /\ q.members = p.members /\ q.due = p.due
BY DEF CallType

LEMMA RewrittenFacts ==
  ASSUME NEW c \in Call, NEW q \in CallType, NEW cs \in [Call -> CallType],
         calls' = [Rewritten(cs) EXCEPT ![c] = q],
         \A d \in Call : Carried(cs, d)
  PROVE  /\ calls' \in [Call -> CallType] /\ calls'[c] = q
         /\ \A d \in Call : d # c => Restated(d)
<1> DEFINE r(d) == [cs[d] EXCEPT !.stale = cs[d].deed # ""]
<1>1. \A d \in Call : r(d) \in CallType
  <2> SUFFICES ASSUME NEW d \in Call PROVE r(d) \in CallType  OBVIOUS
  <2>1. cs[d] \in CallType /\ (cs[d].deed # "") \in BOOLEAN  OBVIOUS
  <2> QED  BY <2>1, StaleFacts
<1>2. Rewritten(cs) = [d \in Call |-> r(d)]  BY DEF Rewritten
<1>3. /\ calls' \in [Call -> CallType] /\ calls'[c] = q
      /\ \A d \in Call : d # c => calls'[d] = r(d)
  <2> HIDE DEF r
  <2> QED  BY <1>1, <1>2
<1>4. ASSUME NEW d \in Call, d # c PROVE Restated(d)
  <2> DEFINE p == cs[d]
  <2>1. calls'[d] = r(d)  BY <1>3, <1>4
  <2>2. p \in CallType /\ (p.deed # "") \in BOOLEAN  OBVIOUS
  <2>3. /\ r(d).stale = (p.deed # "")
        /\ r(d).deed = p.deed /\ r(d).ids = p.ids /\ r(d).pc = p.pc /\ r(d).before = p.before
        /\ r(d).purge = p.purge /\ r(d).tag = p.tag /\ r(d).of = p.of /\ r(d).after = p.after
        /\ r(d).page = p.page /\ r(d).next = p.next /\ r(d).version = p.version
        /\ r(d).members = p.members /\ r(d).due = p.due
    BY <2>2, StaleFacts
  <2> HIDE DEF r, p
  <2>4. /\ p.deed = calls[d].deed /\ p.ids = calls[d].ids /\ p.pc = calls[d].pc
        /\ p.before = calls[d].before
        /\ p.purge = calls[d].purge /\ p.tag = calls[d].tag /\ p.of = calls[d].of
        /\ p.after = calls[d].after /\ p.page = calls[d].page /\ p.next = calls[d].next
        /\ p.version = calls[d].version /\ p.members = calls[d].members
        /\ calls[d].due \subseteq p.due
    <3>1. Carried(cs, d)  OBVIOUS
    <3> QED  BY <3>1 DEF Carried, p
  <2>5. calls'[d].stale <=> calls[d].deed # ""
    BY <2>1, <2>3, <2>4
  <2> QED  BY <2>1, <2>3, <2>4, <2>5 DEF Restated
<1> QED  BY <1>3, <1>4

LEMMA RestatedKeeps ==
  ASSUME MailboxInv, NEW c \in Call, UNCHANGED <<mail, version>>,
         \A d \in Call : d # c => Restated(d)
  PROVE  /\ \A d \in Call : d # c =>
               /\ StageInv(d)' /\ PageInv(d)' /\ ~Pending(d)'
               /\ Patching(d) /\ Effective(d) =>
                     Patching(d)' /\ Effective(d)' /\ calls'[d].stale
         /\ \A d, e \in Call : d # c /\ e # c =>
               LaterPage(d, e)' /\ (d # e => OverlapInv(d, e)')
<1>1. ASSUME NEW d \in Call, d # c
      PROVE  /\ StageInv(d)' /\ PageInv(d)' /\ ~Pending(d)'
             /\ Patching(d) /\ Effective(d) =>
                   Patching(d)' /\ Effective(d)' /\ calls'[d].stale
  <2>1. Restated(d) /\ StageInv(d) /\ PageInv(d)  BY <1>1 DEF MailboxInv
  <2>2. StageInv(d)'  BY <2>1 DEF Restated, StageInv, Trashed, Mutating, Working
  <2>3. PageInv(d)'
    <3>1. /\ calls'[d].pc = calls[d].pc /\ calls'[d].of = calls[d].of
          /\ calls'[d].after = calls[d].after /\ calls'[d].page = calls[d].page
          /\ calls'[d].next = calls[d].next /\ calls'[d].version = calls[d].version
          /\ calls'[d].members = calls[d].members
      BY <2>1 DEF Restated
    <3>2. /\ InView(calls[d].of)' = InView(calls[d].of)
          /\ Between(calls[d].members, calls[d].after, calls[d].next)'
                = Between(calls[d].members, calls[d].after, calls[d].next)
          /\ Ids(calls[d].page)' = Ids(calls[d].page)
          /\ (Descending(calls[d].page)' <=> Descending(calls[d].page))
          /\ (Fresh(calls[d].page)' <=> Fresh(calls[d].page))
      BY <3>1 DEF InView, Fresh, Node, Between, Descending, Ids
    <3> QED  BY <2>1, <3>1, <3>2 DEF PageInv
  <2>4. ~Pending(d)'  BY <2>1 DEF Restated, Pending, Patching
  <2>5. Patching(d) /\ Effective(d) => Patching(d)' /\ Effective(d)' /\ calls'[d].stale
    BY <2>1 DEF Restated, Patching, Effective, IsStored, Working
  <2> QED  BY <2>2, <2>3, <2>4, <2>5
<1>2. ASSUME NEW d \in Call, NEW e \in Call, d # c, e # c
      PROVE  LaterPage(d, e)' /\ (d # e => OverlapInv(d, e)')
  <2>1. /\ Restated(d) /\ Restated(e) /\ LaterPage(d, e) /\ (d # e => OverlapInv(d, e))
    BY <1>2 DEF MailboxInv
  <2>2. LaterPage(d, e)'  BY <2>1 DEF Restated, LaterPage
  <2>3. d # e => OverlapInv(d, e)'  BY <2>1 DEF Restated, OverlapInv
  <2> QED  BY <2>2, <2>3
<1> QED  BY <1>1, <1>2

(* A call is over: it holds nothing that the invariant speaks of. *)
LEMMA OverFacts ==
  ASSUME NEW c \in Call, calls'[c] = Over
  PROVE  /\ StageInv(c)' /\ PageInv(c)' /\ ~Pending(c)' /\ ~Patching(c)'
         /\ \A d \in Call : /\ LaterPage(c, d)' /\ LaterPage(d, c)'
                            /\ OverlapInv(c, d)' /\ OverlapInv(d, c)'
<1>1. /\ Over.pc = "over" /\ Over.deed = "" /\ Over.ids = {}
      /\ Over.purge = {} /\ Over.tag = {}
  BY NoCallType
<1>2. /\ calls'[c].pc = "over" /\ calls'[c].deed = "" /\ calls'[c].ids = {}
      /\ calls'[c].purge = {} /\ calls'[c].tag = {}
  BY <1>1
<1> QED  BY <1>2 DEF StageInv, PageInv, LaterPage, OverlapInv, Pending, Patching,
                     Mutating, Working

(* A rollback: it restores the list on the screen but for the patch, or a  *)
(* list that is older.                                                     *)
LEMMA RollbackStep ==
  ASSUME MailboxInv, NEW c \in Call, HandleRefused(c)
  PROVE  MailboxInv'
<1>1. /\ calls \in [Call -> CallType] /\ calls[c] \in CallType /\ StageInv(c)
      /\ MailboxTypeOK /\ ScreenInv /\ HonestInv
  BY CallFacts DEF MailboxInv, MailboxTypeOK
<1>2. calls[c].deed # "" /\ Patching(c) /\ calls[c].before \in Seq(Item)
      /\ calls[c].stale \in BOOLEAN
  BY <1>1 DEF HandleRefused, StageInv, Patching, Mutating, Working, CallType
<1>3. /\ mail' = mail /\ version' = version /\ onScreen' = onScreen /\ unfair' = unfair
      /\ shown' = calls[c].before /\ tangled' = (tangled \/ calls[c].stale)
  BY DEF HandleRefused, RolledBack
<1>4. /\ calls' \in [Call -> CallType] /\ calls'[c] = Over
      /\ \A d \in Call : d # c => Restated(d)
  <2>1. \A d \in Call : Carried(calls, d)  BY DEF Carried
  <2>2. Over \in CallType /\ calls' = [Rewritten(calls) EXCEPT ![c] = Over]
    BY NoCallType DEF HandleRefused
  <2> QED  BY <1>1, <2>1, <2>2, RewrittenFacts
<1>5. MailboxTypeOK'
  BY <1>1, <1>2, <1>4 DEF MailboxTypeOK, HandleRefused, RolledBack
<1>6. /\ \A d \in Call : d # c =>
           /\ StageInv(d)' /\ PageInv(d)' /\ ~Pending(d)'
           /\ Patching(d) /\ Effective(d) =>
                 Patching(d)' /\ Effective(d)' /\ calls'[d].stale
      /\ \A d, e \in Call : d # c /\ e # c =>
            LaterPage(d, e)' /\ (d # e => OverlapInv(d, e)')
  BY <1>3, <1>4, RestatedKeeps
<1>7. /\ StageInv(c)' /\ PageInv(c)' /\ ~Pending(c)' /\ ~Patching(c)'
      /\ \A d \in Call : /\ LaterPage(c, d)' /\ LaterPage(d, c)'
                         /\ OverlapInv(c, d)' /\ OverlapInv(d, c)'
  BY <1>4, OverFacts
<1>8. \A d \in Call : ~Pending(d)'  BY <1>6, <1>7
<1>9. ~tangled' => ~tangled /\ ~calls[c].stale /\ Pending(c)
  BY <1>2, <1>3 DEF Pending
<1>10. ScreenInv'
  <2>1. onScreen'.version <= version'  BY <1>1, <1>3 DEF ScreenInv
  <2>2. ASSUME ~tangled'
        PROVE  onScreen'.members \subseteq InView(onScreen.of)' /\ Whole(shown)'
    <3>1. Whole(calls[c].before) /\ onScreen.members \subseteq InView(onScreen.of)
      BY <1>1, <1>9, <2>2 DEF ScreenInv
    <3> QED  BY <1>3, <3>1 DEF InView, Whole, Descending, Ids
  <2>3. ASSUME ~tangled', NEW d \in Call, calls'[d].pc = "paged",
               calls'[d].of = onScreen'.of, calls'[d].version >= onScreen'.version
        PROVE  onScreen'.members \subseteq calls'[d].members
    <3>1. d # c  BY <1>4, <2>3, NoCallType
    <3>2. Restated(d)  BY <1>4, <3>1
    <3> QED  BY <1>1, <1>3, <1>9, <2>3, <3>2 DEF ScreenInv, Restated
  <2> QED  BY <1>8, <2>1, <2>2, <2>3 DEF ScreenInv
<1>11. HonestInv'
  <2> SUFFICES ASSUME ~tangled', onScreen'.version = version'
               PROVE  \/ \E d \in Call : Patching(d)' /\ calls'[d].stale /\ Effective(d)'
                      \/ Honest(shown)'
    BY <1>8 DEF HonestInv
  <2>1. CASE \E d \in Call : Patching(d) /\ calls[d].stale /\ Effective(d)
    <3>1. PICK d \in Call : Patching(d) /\ calls[d].stale /\ Effective(d)  BY <2>1
    <3>2. d # c  BY <1>9, <3>1
    <3> QED  BY <1>6, <3>1, <3>2
  <2>2. CASE \A d \in Call : Pending(d) => Honest(calls[d].before)
    <3>1. Honest(calls[c].before)  BY <1>9, <2>2
    <3> QED  BY <1>3, <3>1 DEF Honest, InView, Between, Ids, Fresh, Node
  <2> QED  BY <1>1, <1>3, <1>9, <2>1, <2>2 DEF HonestInv
<1>12. \A d, e \in Call : LaterPage(d, e)' /\ (d # e => OverlapInv(d, e)')
  BY <1>6, <1>7
<1>13. \A d \in Call : StageInv(d)' /\ PageInv(d)'  BY <1>6, <1>7
<1>14. unfair' = {}  BY <1>3 DEF MailboxInv
<1> QED  BY <1>5, <1>10, <1>11, <1>12, <1>13, <1>14 DEF MailboxInv

(* What a delete that is asked for changes of the others. *)
LEMMA OverlappingFacts ==
  ASSUME MailboxInv, NEW S \in SUBSET Msgs, NEW cs,
         cs = Overlapping(S) \/ cs = calls
  PROVE  /\ cs \in [Call -> CallType]
         /\ \A d \in Call :
            /\ Carried(cs, d)
            /\ cs = Overlapping(S) /\ Deleting(d) => S \cap calls[d].ids \subseteq cs[d].due
<1>1. calls \in [Call -> CallType]  BY DEF MailboxInv, MailboxTypeOK
<1>2. CASE cs = calls /\ cs # Overlapping(S)  BY <1>1, <1>2 DEF Carried
<1>3. CASE cs = Overlapping(S)
  <2>1. ASSUME NEW d \in Call
        PROVE  /\ cs[d] \in CallType /\ Carried(cs, d)
               /\ Deleting(d) => S \cap calls[d].ids \subseteq cs[d].due
    <3> DEFINE p == calls[d]  more == S \cap p.ids
               q == [p EXCEPT !.due = p.due \cup more]
    <3>1. p \in CallType /\ p.due \in SUBSET Msgs /\ more \in SUBSET Msgs
      <4>1. p \in CallType  BY <1>1
      <4> QED  BY <4>1 DEF CallType
    <3>2. cs[d] = IF Deleting(d) THEN q ELSE p  BY <1>3 DEF Overlapping
    <3> HIDE DEF p, more
    <3>3. /\ q \in CallType /\ q.due = p.due \cup more
          /\ q.deed = p.deed /\ q.ids = p.ids /\ q.pc = p.pc /\ q.before = p.before
          /\ q.purge = p.purge /\ q.tag = p.tag /\ q.of = p.of /\ q.after = p.after
          /\ q.page = p.page /\ q.next = p.next /\ q.version = p.version
          /\ q.members = p.members
      BY <3>1 DEF CallType
    <3> HIDE DEF q
    <3>4. CASE Deleting(d)
      <4>1. cs[d] = q  BY <3>2, <3>4
      <4> QED  BY <3>3, <4>1 DEF p, more, Carried
    <3>5. CASE ~Deleting(d)
      <4>1. cs[d] = p  BY <3>2, <3>5
      <4> QED  BY <3>1, <3>5, <4>1 DEF p, Carried
    <3> QED  BY <3>4, <3>5
  <2>2. cs = [d \in Call |-> cs[d]]  BY <1>3 DEF Overlapping
  <2>3. cs \in [Call -> CallType]  BY <2>1, <2>2
  <2> QED  BY <2>1, <2>3
<1> QED  BY <1>2, <1>3

(* The patch of a list: a mark keeps what it shows, a delete leaves the    *)
(* selection out.                                                          *)
LEMMA PatchFacts ==
  ASSUME MailboxAssumption, MailboxInv, NEW deed \in Deeds, NEW S \in SUBSET Msgs,
         NEW w, w = PatchedList(deed, S)
  PROVE  /\ w \in Seq(Item)
         /\ Ids(w) = IF deed = "delete" THEN Ids(shown) \ S ELSE Ids(shown)
         /\ Descending(shown) => Descending(w)
         /\ Honest(shown) /\ (\A m \in S : ~IsStored(m)) => Honest(w)
<1>1. shown \in Seq(Item) /\ deed \in {"spam", "notSpam", "read", "unread", "delete"}
  BY DEF MailboxInv, MailboxTypeOK, MailboxAssumption
<1>2. ASSUME Honest(shown), \A m \in S : ~IsStored(m) PROVE Ids(shown) \cap S = {}
  <2>1. \A m \in Ids(shown) : m \in InView(onScreen.of)  BY <1>2 DEF Honest, Between
  <2>2. \A m \in InView(onScreen.of) : IsStored(m)
    BY DEF InView, Lists, Matches, IsStored
  <2> QED  BY <1>2, <2>1, <2>2
<1>3. CASE deed = "delete"
  <2>1. w = Remaining(shown, S)  BY <1>3 DEF PatchedList
  <2>2. /\ w \in Seq(Item) /\ Ids(w) = Ids(shown) \ S
        /\ Fresh(shown) => Fresh(w)
        /\ Descending(shown) => Descending(w)
    BY <1>1, <2>1, RemainingFacts
  <2>3. ASSUME Honest(shown), \A m \in S : ~IsStored(m) PROVE Honest(w)
    <3>1. Ids(w) = Ids(shown)  BY <1>2, <2>2, <2>3
    <3> QED  BY <2>2, <2>3, <3>1 DEF Honest
  <2> QED  BY <1>3, <2>2, <2>3
<1>4. CASE deed # "delete"
  <2>1. deed \in {"spam", "notSpam", "read", "unread"}  BY <1>1, <1>4
  <2>2. /\ w \in Seq(Item) /\ Ids(w) = Ids(shown)
        /\ Descending(shown) => Descending(w)
        /\ Ids(shown) \cap S = {} => w = shown
    BY <1>1, <2>1, MarkedFacts
  <2> QED  BY <1>2, <1>4, <2>2
<1> QED  BY <1>3, <1>4

(* A gesture patches the list and remembers it.                            *)
LEMMA MutateStep ==
  ASSUME MailboxAssumption, MailboxInv, NEW c \in Call, NEW deed \in Deeds, Mutate(c, deed)
  PROVE  MailboxInv'
<1> DEFINE S == selected
           due == IF deed = "delete" THEN Allowed(S) ELSE {}
           cs == IF deed = "delete" THEN Overlapping(S) ELSE calls
           q == [NoCall EXCEPT !.pc = "sent", !.deed = deed, !.ids = S, !.before = shown,
                               !.due = due]
<1>1. /\ calls \in [Call -> CallType] /\ calls[c] \in CallType /\ StageInv(c)
      /\ MailboxTypeOK /\ ScreenInv /\ HonestInv /\ shown \in Seq(Item)
      /\ S \in SUBSET Msgs /\ calls[c].pc = "idle"
      /\ onScreen \in [of : Views, end : Msgs \cup {NoCursor}, version : Nat,
                       members : SUBSET Msgs]
  BY CallFacts DEF MailboxInv, MailboxTypeOK, Mutate, FreshCall
<1>2. deed \in {"spam", "notSpam", "read", "unread", "delete"}
  BY DEF MailboxAssumption
<1>3. due \in SUBSET Msgs /\ due = (IF deed = "delete" THEN Allowed(S) ELSE {})
  BY <1>1 DEF Allowed
<1>4. calls' = [Rewritten(cs) EXCEPT ![c] = q]  BY DEF Mutate
<1>5. /\ mail' = mail /\ version' = version /\ tangled' = tangled /\ unfair' = unfair
      /\ shown' = PatchedList(deed, S) /\ view' = view /\ cursor' = cursor
      /\ loading' = loading /\ selected' = S /\ foreign' = foreign
      /\ onScreen' = [onScreen EXCEPT !.members =
                        IF deed = "delete" THEN @ \ S ELSE @]
  BY DEF Mutate
<1>6. cs = Overlapping(S) \/ cs = calls  OBVIOUS
<1>7. deed = "delete" => cs = Overlapping(S)  OBVIOUS
<1> HIDE DEF S, due, cs
<1>8. /\ q \in CallType /\ q.pc = "sent" /\ q.deed = deed /\ q.ids = S /\ q.before = shown
      /\ q.due = due /\ q.purge = {} /\ q.tag = {} /\ q.stale = FALSE
  <2>1. <<>> \in Seq(Item) /\ S \in SUBSET Msgs /\ due \in SUBSET Msgs /\ shown \in Seq(Item)
    BY <1>1, <1>3, EmptySeq
  <2>2. q \in CallType
    BY <2>1 DEF NoCall, CallType, Mutating, Working, NoCursor
  <2> QED  BY <2>2 DEF NoCall
<1> HIDE DEF q
<1>9. /\ cs \in [Call -> CallType]
      /\ \A d \in Call :
            /\ Carried(cs, d)
            /\ cs = Overlapping(S) /\ Deleting(d) => S \cap calls[d].ids \subseteq cs[d].due
  BY <1>1, <1>6, OverlappingFacts
<1>10. /\ calls' \in [Call -> CallType] /\ calls'[c] = q
       /\ \A d \in Call : d # c => Restated(d) /\ calls'[d].due = cs[d].due
  <2>1. \A d \in Call : Carried(cs, d)  BY <1>9
  <2>2. q \in CallType /\ cs \in [Call -> CallType]  BY <1>8, <1>9
  <2>3. /\ calls' \in [Call -> CallType] /\ calls'[c] = q
        /\ \A d \in Call : d # c => Restated(d)
    BY <1>4, <2>1, <2>2, RewrittenFacts
  <2>6. \A d \in Call : d # c => calls'[d].due = cs[d].due
    <3>1. calls' = [Rewritten(cs) EXCEPT ![c] = q]  BY <1>4
    <3>2. cs \in [Call -> CallType] /\ DOMAIN cs = Call  BY <2>2
    <3> SUFFICES ASSUME NEW d \in Call, d # c PROVE calls'[d].due = cs[d].due  OBVIOUS
    <3>3. calls'[d] = [cs[d] EXCEPT !.stale = cs[d].deed # ""]
      BY <3>1 DEF Rewritten
    <3>4. cs[d] \in CallType  BY <3>2
    <3> QED  BY <3>3, <3>4 DEF CallType
  <2> QED  BY <2>3, <2>6
<1>11. /\ calls'[c].pc = "sent" /\ calls'[c].deed = deed /\ calls'[c].ids = S
       /\ calls'[c].before = shown /\ calls'[c].due = due /\ calls'[c].purge = {}
       /\ calls'[c].tag = {} /\ calls'[c].stale = FALSE
  BY <1>8, <1>10
<1>12. /\ \A d \in Call : d # c =>
            /\ StageInv(d)' /\ PageInv(d)' /\ ~Pending(d)'
            /\ Patching(d) /\ Effective(d) =>
                  Patching(d)' /\ Effective(d)' /\ calls'[d].stale
       /\ \A d, e \in Call : d # c /\ e # c =>
             LaterPage(d, e)' /\ (d # e => OverlapInv(d, e)')
  BY <1>5, <1>10, RestatedKeeps
<1>13. StageInv(c)'
  <2>1. deed = "delete" => \A m \in S : Trashed(m) => m \in due
    BY <1>3 DEF Allowed
  <2>2. \A m : Trashed(m)' <=> Trashed(m)  BY <1>5 DEF Trashed
  <2> QED  BY <1>2, <1>11, <2>1, <2>2 DEF StageInv, Mutating, Working
<1>14. PageInv(c)' /\ \A d \in Call : LaterPage(c, d)' /\ LaterPage(d, c)'
  BY <1>11 DEF PageInv, LaterPage
<1>15. ASSUME NEW d \in Call, d # c PROVE OverlapInv(c, d)' /\ OverlapInv(d, c)'
  <2>1. Restated(d) /\ calls'[d].due = cs[d].due  BY <1>10, <1>15
  <2>2. ASSUME deed = "delete", calls[d].deed = "delete",
               calls[d].pc \in {"sent", "tags", "trash"}
        PROVE  S \cap calls[d].ids \subseteq due /\ S \cap calls[d].ids \subseteq cs[d].due
    <3>1. Deleting(d)  BY <2>2 DEF Deleting, Underway
    <3>2. S \cap calls[d].ids \subseteq due  BY <1>3, <2>2, <3>1 DEF Allowed
    <3> QED  BY <1>7, <1>9, <2>2, <3>1, <3>2
  <2>3. calls'[d].deed = calls[d].deed /\ calls'[d].pc = calls[d].pc
        /\ calls'[d].ids = calls[d].ids
    BY <2>1 DEF Restated
  <2> QED  BY <1>11, <2>1, <2>2, <2>3 DEF OverlapInv
<1>16. /\ onScreen'.of = onScreen.of /\ onScreen'.end = onScreen.end
       /\ onScreen'.version = onScreen.version
       /\ onScreen'.members = (IF deed = "delete" THEN onScreen.members \ S
                                                 ELSE onScreen.members)
       /\ onScreen' \in [of : Views, end : Msgs \cup {NoCursor}, version : Nat,
                         members : SUBSET Msgs]
  BY <1>1, <1>5
<1>17. /\ shown' \in Seq(Item)
       /\ Ids(shown)' = IF deed = "delete" THEN Ids(shown) \ S ELSE Ids(shown)
       /\ Descending(shown) => Descending(shown)'
       /\ Honest(shown) /\ (\A m \in S : ~IsStored(m)) => Honest(shown)'
  <2> DEFINE w == PatchedList(deed, S)
  <2>1. /\ w \in Seq(Item)
        /\ Ids(w) = IF deed = "delete" THEN Ids(shown) \ S ELSE Ids(shown)
        /\ Descending(shown) => Descending(w)
        /\ Honest(shown) /\ (\A m \in S : ~IsStored(m)) => Honest(w)
    BY <1>1, PatchFacts
  <2>2. shown' = w  BY <1>5
  <2> HIDE DEF w
  <2>3. Ids(shown)' = Ids(w) /\ (Descending(w) => Descending(shown)')
    BY <2>2 DEF Ids, Descending
  <2>4. Honest(w) => Honest(shown)'
    BY <1>5, <1>16, <2>2 DEF Honest, InView, Between, Ids, Fresh, Node
  <2> QED  BY <2>1, <2>2, <2>3, <2>4
<1>18. MailboxTypeOK'
  BY <1>1, <1>5, <1>10, <1>16, <1>17 DEF MailboxTypeOK
<1>19. ScreenInv'
  <2>1. onScreen'.version <= version'  BY <1>1, <1>5, <1>16 DEF ScreenInv
  <2>2. \A d, e \in Call : Pending(d)' /\ Pending(e)' => d = e  BY <1>12
  <2>3. ASSUME ~tangled'
        PROVE  /\ onScreen'.members \subseteq InView(onScreen.of)' /\ Whole(shown)'
               /\ Whole(calls[c].before)'
    <3>1. onScreen.members \subseteq InView(onScreen.of) /\ Whole(shown)
      BY <1>1, <1>5, <2>3 DEF ScreenInv
    <3>2. onScreen'.members \subseteq InView(onScreen.of)'
      BY <1>5, <1>16, <3>1 DEF InView
    <3>3. Whole(shown)'
      BY <1>16, <1>17, <3>1 DEF Whole
    <3>4. Whole(calls[c].before)'
      BY <1>11, <1>16, <3>1 DEF Whole, Descending, Ids
    <3> QED  BY <3>2, <3>3, <3>4
  <2>4. ASSUME ~tangled', NEW d \in Call, Pending(d)' PROVE Whole(calls[d].before)'
    <3>1. d = c  BY <1>12, <2>4
    <3> QED  BY <2>3, <2>4, <3>1
  <2>5. ASSUME ~tangled', NEW d \in Call, calls'[d].pc = "paged",
               calls'[d].of = onScreen'.of, calls'[d].version >= onScreen'.version
        PROVE  onScreen'.members \subseteq calls'[d].members
    <3>1. d # c  BY <1>11, <2>5
    <3>2. Restated(d)  BY <1>10, <3>1
    <3>3. onScreen.members \subseteq calls'[d].members
      BY <1>1, <1>5, <1>16, <2>5, <3>2 DEF ScreenInv, Restated
    <3> QED  BY <1>16, <3>3
  <2> QED  BY <2>1, <2>2, <2>3, <2>4, <2>5 DEF ScreenInv
<1>20. HonestInv'
  <2> SUFFICES ASSUME ~tangled', onScreen'.version = version'
               PROVE  HonestInv'
    BY DEF HonestInv
  <2>1. ~tangled /\ onScreen.version = version  BY <1>5, <1>16
  <2>2. ~Patching(c)  BY <1>1 DEF Patching, StageInv, Mutating, Working
  <2>3. CASE \E d \in Call : Patching(d) /\ Effective(d)
    <3>1. PICK d \in Call : Patching(d) /\ Effective(d)  BY <2>3
    <3>2. d # c  BY <2>2, <3>1
    <3>3. Patching(d)' /\ Effective(d)' /\ calls'[d].stale  BY <1>12, <3>1, <3>2
    <3> QED  BY <3>3 DEF HonestInv
  <2>4. CASE ~ \E d \in Call : Patching(d) /\ Effective(d)
    <3>1. Honest(shown)  BY <1>1, <2>1, <2>4 DEF HonestInv, Pending
    <3>2. Honest(calls[c].before)'
      BY <1>5, <1>11, <1>16, <3>1 DEF Honest, InView, Between, Ids, Fresh, Node
    <3>3. \A d \in Call : Pending(d)' => Honest(calls[d].before)'
      <4> SUFFICES ASSUME NEW d \in Call, Pending(d)' PROVE Honest(calls[d].before)'
        OBVIOUS
      <4>1. d = c  BY <1>12
      <4> QED  BY <3>2, <4>1
    <3>4. Honest(shown)' \/ (Pending(c)' /\ Effective(c)')
      <4>1. CASE \A m \in S : ~IsStored(m)  BY <1>17, <3>1, <4>1
      <4>2. CASE \E m \in S : IsStored(m)
        <5>1. Pending(c)'  BY <1>2, <1>11 DEF Pending, Patching
        <5>2. Effective(c)'  BY <1>5, <1>11, <4>2 DEF Effective, IsStored
        <5> QED  BY <5>1, <5>2
      <4> QED  BY <4>1, <4>2
    <3> QED  BY <3>3, <3>4 DEF HonestInv
  <2> QED  BY <2>3, <2>4
<1>21. \A d \in Call : StageInv(d)' /\ PageInv(d)'  BY <1>12, <1>13, <1>14
<1>22. \A d, e \in Call : LaterPage(d, e)'  BY <1>12, <1>14
<1>23. \A d, e \in Call : d # e => OverlapInv(d, e)'  BY <1>12, <1>15
<1>24. unfair' = {}  BY <1>5 DEF MailboxInv
<1> QED  BY <1>18, <1>19, <1>20, <1>21, <1>22, <1>23, <1>24 DEF MailboxInv

(* A page replaces the list or continues it. *)
LEMMA PageStep ==
  ASSUME MailboxAssumption, MailboxInv, NEW c \in Call, HandlePage(c)
  PROVE  MailboxInv'
<1> DEFINE p == calls[c]
<1>1. /\ calls \in [Call -> CallType] /\ p \in CallType /\ StageInv(c) /\ PageInv(c)
      /\ MailboxTypeOK /\ ScreenInv /\ HonestInv /\ shown \in Seq(Item)
      /\ p.pc = "paged"
      /\ onScreen \in [of : Views, end : Msgs \cup {NoCursor}, version : Nat,
                       members : SUBSET Msgs]
  BY CallFacts DEF MailboxInv, MailboxTypeOK, HandlePage
<1>2. /\ p.of \in Views /\ p.deed = "" /\ p.page \in Seq(Item)
      /\ p.next \in Msgs \cup {NoCursor} /\ p.after \in Msgs \cup {NoCursor}
      /\ p.version \in Nat /\ p.members \in SUBSET Msgs
  BY <1>1 DEF StageInv, Mutating, Working, CallType
<1>nat. /\ p.after \in Nat /\ p.next \in Nat /\ InView(p.of) \subseteq Nat
        /\ onScreen.members \subseteq Nat
  <2>1. Msgs \subseteq Nat /\ NoCursor \in Nat  BY DEF MailboxAssumption, NoCursor
  <2>2. p.after \in Msgs \cup {NoCursor} /\ p.next \in Msgs \cup {NoCursor}  BY <1>2
  <2>3. InView(p.of) \subseteq Msgs /\ onScreen.members \subseteq Msgs  BY <1>1 DEF InView
  <2> HIDE DEF p
  <2> QED  BY <2>1, <2>2, <2>3
<1>3. /\ mail' = mail /\ version' = version /\ unfair' = unfair /\ view' = view
      /\ foreign' = foreign /\ loading' = FALSE /\ cursor' = p.next
      /\ shown' = Joined(c) /\ tangled' = TooLate(c)
      /\ selected' = (IF p.clears THEN {} ELSE selected)
      /\ onScreen' = [of |-> p.of, end |-> p.next,
                      version |-> IF p.after = NoCursor THEN p.version ELSE onScreen.version,
                      members |-> IF p.after = NoCursor THEN p.members ELSE onScreen.members]
  BY DEF HandlePage
<1>4. /\ calls' \in [Call -> CallType] /\ calls'[c] = Over
      /\ \A d \in Call : d # c => Restated(d)
  <2>1. \A d \in Call : Carried(calls, d)  BY DEF Carried
  <2>2. Over \in CallType /\ calls' = [Rewritten(calls) EXCEPT ![c] = Over]
    BY NoCallType DEF HandlePage
  <2> QED  BY <1>1, <2>1, <2>2, RewrittenFacts
<1>5. /\ \A d \in Call : d # c =>
           /\ StageInv(d)' /\ PageInv(d)' /\ ~Pending(d)'
           /\ Patching(d) /\ Effective(d) =>
                 Patching(d)' /\ Effective(d)' /\ calls'[d].stale
      /\ \A d, e \in Call : d # c /\ e # c =>
            LaterPage(d, e)' /\ (d # e => OverlapInv(d, e)')
  BY <1>3, <1>4, RestatedKeeps
<1>6. /\ StageInv(c)' /\ PageInv(c)' /\ ~Pending(c)' /\ ~Patching(c)'
      /\ \A d \in Call : /\ LaterPage(c, d)' /\ LaterPage(d, c)'
                         /\ OverlapInv(c, d)' /\ OverlapInv(d, c)'
  BY <1>4, OverFacts
<1>7. \A d \in Call : ~Pending(d)'  BY <1>5, <1>6
<1>8. /\ onScreen'.of = p.of /\ onScreen'.end = p.next
      /\ onScreen'.version = (IF p.after = NoCursor THEN p.version ELSE onScreen.version)
      /\ onScreen'.members = (IF p.after = NoCursor THEN p.members ELSE onScreen.members)
  BY <1>3
<1>9. onScreen' \in [of : Views, end : Msgs \cup {NoCursor}, version : Nat,
                     members : SUBSET Msgs]
  BY <1>1, <1>2, <1>3
<1>10. MailboxTypeOK'
  <2>1. shown' \in Seq(Item)
    <3>1. p.page \in Seq(Item) /\ shown \o p.page \in Seq(Item)
      BY <1>1, <1>2, ConcatProperties
    <3> QED  BY <1>3, <3>1 DEF Joined
  <2>2. selected' \subseteq Msgs /\ tangled' \in BOOLEAN
    BY <1>1, <1>3 DEF MailboxTypeOK, TooLate
  <2> QED  BY <1>1, <1>2, <1>3, <1>4, <1>9, <2>1, <2>2 DEF MailboxTypeOK
(* What the page holds. *)
<1>11. /\ p.version <= version /\ p.members \subseteq InView(p.of) /\ Descending(p.page)
       /\ Between(p.members, p.after, p.next) \subseteq Ids(p.page)
       /\ \A m \in Ids(p.page) : m >= p.next
       /\ p.after # NoCursor => p.next < p.after /\ \A m \in Ids(p.page) : m < p.after
  BY <1>1 DEF PageInv
<1>12. p.version = version =>
          /\ p.members = InView(p.of) /\ Fresh(p.page)
          /\ Ids(p.page) = Between(p.members, p.after, p.next)
  BY <1>1 DEF PageInv
(* A page that is appended and does not come too late. *)
<1>13. ASSUME ~tangled', p.after # NoCursor
       PROVE  /\ ~tangled /\ p.after = onScreen.end /\ p.of = onScreen.of
              /\ p.version >= onScreen.version
              /\ onScreen.members \subseteq p.members
              /\ onScreen.members \subseteq InView(p.of) /\ Whole(shown)
  <2>1. /\ ~tangled /\ p.after = onScreen.end /\ p.of = onScreen.of
        /\ ~ (p.version < onScreen.version)
    BY <1>3, <1>13 DEF TooLate
  <2>2. onScreen.version \in Nat  BY <1>1
  <2>3. p.version >= onScreen.version
    <3>1. p.version \in Nat  BY <1>2
    <3> HIDE DEF p
    <3> QED  BY <2>1, <2>2, <3>1
  <2>4. onScreen.members \subseteq p.members
    BY <1>1, <2>1, <2>3 DEF ScreenInv
  <2>5. onScreen.members \subseteq InView(p.of)
    BY <1>1, <2>1 DEF ScreenInv, InView
  <2> QED  BY <1>1, <2>1, <2>3, <2>4, <2>5 DEF ScreenInv
<1>14. ASSUME p.after # NoCursor, Whole(shown), p.after = onScreen.end
       PROVE  /\ Ids(shown \o p.page) = Ids(shown) \cup Ids(p.page)
              /\ Descending(shown \o p.page)
              /\ Fresh(shown) /\ Fresh(p.page) => Fresh(shown \o p.page)
              /\ \A m \in Ids(shown) : m >= p.next
  <2>1. Ids(shown) \subseteq Nat /\ Ids(p.page) \subseteq Nat
    BY <1>1, <1>2, IdsFacts DEF MailboxAssumption
  <2>2. p.after \in Nat /\ p.next \in Nat  BY <1>nat
  <2>3. \A m \in Ids(shown) : m >= p.after  BY <1>14 DEF Whole
  <2>4. \A m \in Ids(p.page) : m < p.after  BY <1>11, <1>14
  <2>5. p.next < p.after  BY <1>11, <1>14
  <2>6. \A m \in Ids(shown), n \in Ids(p.page) : m > n  BY <2>1, <2>2, <2>3, <2>4
  <2>7. \A m \in Ids(shown) : m >= p.next  BY <2>1, <2>2, <2>3, <2>5
  <2>8. Descending(shown)  BY <1>14 DEF Whole
  <2> HIDE DEF p
  <2>9. /\ Ids(shown \o p.page) = Ids(shown) \cup Ids(p.page)
        /\ Fresh(shown) /\ Fresh(p.page) => Fresh(shown \o p.page)
        /\ Descending(shown \o p.page)
    BY <1>1, <1>2, <1>11, <2>6, <2>8, AppendFacts
  <2> QED  BY <2>7, <2>9
<1>15. ScreenInv'
  <2>1. onScreen'.version <= version'
    BY <1>1, <1>3, <1>8, <1>11 DEF ScreenInv
  <2>2. ASSUME ~tangled'
        PROVE  onScreen'.members \subseteq InView(onScreen.of)' /\ Whole(shown)'
    <3>1. CASE p.after = NoCursor
      <4>1. shown' = p.page /\ onScreen'.members = p.members
        BY <1>3, <1>8, <3>1 DEF Joined
      <4>2. InView(onScreen.of)' = InView(p.of)  BY <1>3, <1>8 DEF InView
      <4>3. \A m \in p.members : m >= p.next => m \in Ids(p.page)
        BY <1>11, <3>1 DEF Between
      <4>4. Descending(shown)' /\ Ids(shown)' = Ids(p.page)
        BY <1>11, <4>1 DEF Descending, Ids
      <4>5. Whole(shown)'
        BY <1>8, <1>11, <4>1, <4>3, <4>4 DEF Whole
      <4> QED  BY <1>11, <4>1, <4>2, <4>5
    <3>2. CASE p.after # NoCursor
      <4>1. shown' = shown \o p.page /\ onScreen'.members = onScreen.members
        BY <1>3, <1>8, <3>2 DEF Joined
      <4>2. InView(onScreen.of)' = InView(p.of)  BY <1>3, <1>8 DEF InView
      <4>3. /\ p.after = onScreen.end /\ onScreen.members \subseteq p.members
            /\ onScreen.members \subseteq InView(p.of) /\ Whole(shown)
        BY <1>13, <2>2, <3>2
      <4>4. /\ Ids(shown \o p.page) = Ids(shown) \cup Ids(p.page)
            /\ Descending(shown \o p.page)
            /\ \A m \in Ids(shown) : m >= p.next
        BY <1>14, <3>2, <4>3
      <4>5. ASSUME NEW m \in onScreen.members, m >= p.next
            PROVE  m \in Ids(shown) \cup Ids(p.page)
        <5>1. m \in Nat /\ p.after \in Nat  BY <1>nat
        <5>2. CASE m >= p.after  BY <4>3, <5>2 DEF Whole
        <5>3. CASE m < p.after
          <6>1. m \in Between(p.members, p.after, p.next)
            BY <4>3, <4>5, <5>3 DEF Between
          <6> QED  BY <1>11, <6>1
        <5> QED  BY <5>1, <5>2, <5>3
      <4>6. Ids(shown)' = Ids(shown) \cup Ids(p.page) /\ Descending(shown)'
        BY <4>1, <4>4 DEF Ids, Descending
      <4>7. Whole(shown)'
        BY <1>8, <1>11, <4>1, <4>4, <4>5, <4>6 DEF Whole
      <4> QED  BY <4>1, <4>2, <4>3, <4>7
    <3> QED  BY <3>1, <3>2
  <2>3. ASSUME ~tangled', NEW d \in Call, calls'[d].pc = "paged",
               calls'[d].of = onScreen'.of, calls'[d].version >= onScreen'.version
        PROVE  onScreen'.members \subseteq calls'[d].members
    <3>1. d # c  BY <1>4, <2>3, NoCallType
    <3>2. /\ calls[d].pc = "paged" /\ calls[d].of = p.of
          /\ calls'[d].members = calls[d].members /\ calls[d].version >= onScreen'.version
      BY <1>4, <1>8, <2>3, <3>1 DEF Restated
    <3>3. CASE p.after = NoCursor
      <4>1. LaterPage(d, c)  BY DEF MailboxInv
      <4> QED  BY <1>1, <1>8, <3>2, <3>3, <4>1 DEF LaterPage
    <3>4. CASE p.after # NoCursor
      <4>1. ~tangled /\ p.of = onScreen.of  BY <1>13, <2>3, <3>4
      <4> QED  BY <1>1, <1>8, <3>2, <3>4, <4>1 DEF ScreenInv
    <3> QED  BY <3>3, <3>4
  <2> QED  BY <1>7, <2>1, <2>2, <2>3 DEF ScreenInv
<1>16. HonestInv'
  <2> SUFFICES ASSUME ~tangled', onScreen'.version = version'
               PROVE  \/ \E d \in Call : Patching(d)' /\ calls'[d].stale /\ Effective(d)'
                      \/ Honest(shown)'
    BY <1>7 DEF HonestInv
  <2>1. CASE \E d \in Call : Patching(d) /\ Effective(d)
    <3>1. PICK d \in Call : Patching(d) /\ Effective(d)  BY <2>1
    <3>2. d # c  BY <1>2, <3>1 DEF Patching
    <3> QED  BY <1>5, <3>1, <3>2
  <2>2. CASE p.after = NoCursor
    <3>1. p.version = version /\ shown' = p.page  BY <1>3, <1>8, <2>2 DEF Joined
    <3>2. Ids(p.page) = Between(InView(p.of), NoCursor, p.next) /\ Fresh(p.page)
      BY <1>12, <2>2, <3>1
    <3>3. Ids(shown)' = Ids(p.page) /\ Fresh(shown)'
      BY <1>3, <3>1, <3>2 DEF Ids, Fresh, Node
    <3>4. Between(InView(onScreen.of), NoCursor, onScreen.end)'
             = Between(InView(p.of), NoCursor, p.next)
      BY <1>3, <1>8 DEF Between, InView
    <3> QED  BY <3>2, <3>3, <3>4 DEF Honest
  <2>3. CASE p.after # NoCursor /\ ~ \E d \in Call : Patching(d) /\ Effective(d)
    <3>1. /\ ~tangled /\ p.after = onScreen.end /\ p.of = onScreen.of
          /\ p.version >= onScreen.version /\ Whole(shown)
      BY <1>13, <2>3
    <3>2. onScreen.version = version /\ shown' = shown \o p.page
      BY <1>3, <1>8, <2>3 DEF Joined
    <3>3. version \in Nat  BY <1>1 DEF MailboxTypeOK
    <3>4. p.version = version
      <4>1. p.version \in Nat /\ p.version <= version /\ p.version >= version
        BY <1>2, <1>11, <3>1, <3>2
      <4> HIDE DEF p
      <4> QED  BY <3>3, <4>1
    <3>5. Honest(shown)  BY <1>1, <2>3, <3>1, <3>2 DEF HonestInv, Pending
    <3>6. Ids(shown) = Between(InView(p.of), NoCursor, p.after) /\ Fresh(shown)
      BY <3>1, <3>5 DEF Honest, InView, Between
    <3>7. Ids(p.page) = Between(InView(p.of), p.after, p.next) /\ Fresh(p.page)
      BY <1>12, <3>4
    <3>8. Between(InView(p.of), NoCursor, p.after) \cup Between(InView(p.of), p.after, p.next)
             = Between(InView(p.of), NoCursor, p.next)
      <4>1. InView(p.of) \subseteq Nat /\ p.after \in Nat /\ p.next \in Nat
        BY <1>nat
      <4>2. p.next < p.after  BY <1>11, <2>3
      <4> HIDE DEF p
      <4>3. \A m \in InView(p.of) : m >= p.next <=> m >= p.after \/ (m < p.after /\ m >= p.next)
        BY <4>1, <4>2
      <4> QED  BY <2>3, <4>3 DEF Between
    <3>9. Ids(shown \o p.page) = Ids(shown) \cup Ids(p.page) /\ Fresh(shown \o p.page)
      BY <1>14, <2>3, <3>1, <3>6, <3>7
    <3>10. Ids(shown)' = Ids(shown \o p.page) /\ Fresh(shown)'
      BY <1>3, <3>2, <3>9 DEF Ids, Fresh, Node
    <3>11. Between(InView(onScreen.of), NoCursor, onScreen.end)'
             = Between(InView(p.of), NoCursor, p.next)
      BY <1>3, <1>8 DEF Between, InView
    <3> QED  BY <3>6, <3>7, <3>8, <3>9, <3>10, <3>11 DEF Honest
  <2> QED  BY <2>1, <2>2, <2>3
<1>17. \A d, e \in Call : LaterPage(d, e)' /\ (d # e => OverlapInv(d, e)')
  BY <1>5, <1>6
<1>18. \A d \in Call : StageInv(d)' /\ PageInv(d)'  BY <1>5, <1>6
<1>19. unfair' = {}  BY <1>3 DEF MailboxInv
<1> QED  BY <1>10, <1>15, <1>16, <1>17, <1>18, <1>19 DEF MailboxInv

LEMMA NextMailbox ==
  ASSUME MailboxAssumption, MailboxInv, [MailboxNext]_mailboxVars
  PROVE  MailboxInv'
<1>1. ASSUME NEW c \in Call, Gesture(c) PROVE MailboxInv'
  <2>1. CASE \E d \in Deeds : Mutate(c, d)  BY <2>1, MutateStep
  <2>2. CASE SetArchived(c)  BY <2>2, SetArchivedStep
  <2> QED  BY <1>1, <2>1, <2>2, QueryStep DEF Gesture
<1>2. ASSUME NEW c \in Call, Serve(c) PROVE MailboxInv'
  BY <1>2, LoadStep, ApplyStep, ReadTagsStep, AddTrashStep, PurgeStep, ListStep DEF Serve
<1>3. ASSUME NEW c \in Call, Fail(c) PROVE MailboxInv'  BY <1>3, FailStep
<1>4. ASSUME NEW c \in Call, Handle(c) PROVE MailboxInv'
  BY <1>4, RollbackStep, AnswerStep, PageStep DEF Handle
<1>5. ASSUME NEW m \in Msgs, Arrive(m) \/ OtherClient(m) PROVE MailboxInv'
  BY <1>5, OthersStep
<1>6. ASSUME \/ \E m \in Msgs : ToggleSelection(m)
             \/ SelectAll \/ ClearSelection
             \/ UNCHANGED mailboxVars
      PROVE  MailboxInv'
  <2>1. Ids(shown) \subseteq Msgs /\ selected \subseteq Msgs
    <3>1. shown \in Seq(Item) /\ selected \subseteq Msgs  BY DEF MailboxInv, MailboxTypeOK
    <3> QED  BY <3>1, IdsFacts
  <2>2. selected' \subseteq Msgs
    BY <1>6, <2>1 DEF ToggleSelection, SelectAll, ClearSelection, mailboxVars, client
  <2>3. UNCHANGED <<mail, view, shown, cursor, loading, calls, foreign, history>>
    BY <1>6 DEF ToggleSelection, SelectAll, ClearSelection, mailboxVars, client
  <2> QED  BY <2>2, <2>3, SelectStep
<1> QED  BY <1>1, <1>2, <1>3, <1>4, <1>5, <1>6 DEF MailboxNext

(* At every moment the mailbox is in order: a call holds what its stage    *)
(* needs, a page on its way is whole, the list lacks no member of its view *)
(* that its pages passed, and a list without changed rows is honest or has *)
(* a mutation under way that will restore or replace it (app-store.ts and  *)
(* messages.ts).                                                           *)
THEOREM MailboxInvariant == MailboxSpec => []MailboxInv
<1>1. MailboxInit => MailboxInv  BY MailboxAssumption, InitMailbox
<1>2. MailboxInv /\ [MailboxNext]_mailboxVars => MailboxInv'
  BY MailboxAssumption, NextMailbox
<1> QED  BY <1>1, <1>2, PTL DEF MailboxSpec

(* Paging by cursor neither skips nor repeats a message, whatever arrives  *)
(* or leaves between two pages (loadMore of app-store.ts, buildMessageList *)
(* Query of message-repository.ts).                                        *)
THEOREM PagingIsWhole == MailboxSpec => []PagesWhole
<1>1. MailboxInv => PagesWhole
  BY DEF MailboxInv, ScreenInv, Whole, Descending, PagesWhole
<1> QED  BY <1>1, MailboxInvariant, PTL

(* A patched list is restored, confirmed or replaced before the browser is *)
(* quiet (mutateSelected and deleteSelected of app-store.ts).              *)
THEOREM QuietListIsHonest == MailboxSpec => []HonestWhenQuiet
<1>1. MailboxInv => HonestWhenQuiet
  <2> SUFFICES ASSUME MailboxInv, Quiet, ~tangled, onScreen.version = version
               PROVE  /\ Ids(shown) = {m \in InView(onScreen.of) : m >= onScreen.end}
                      /\ \A i \in DOMAIN shown : shown[i] = Node(shown[i].id)
    BY DEF HonestWhenQuiet
  <2>1. \A c \in Call : ~Effective(c)
    BY DEF Quiet, Underway, Effective, Working
  <2>2. Honest(shown)  BY <2>1 DEF MailboxInv, HonestInv
  <2> QED  BY <2>2 DEF Honest, Between, Fresh
<1> QED  BY <1>1, MailboxInvariant, PTL

(* A delete destroys only what it found in Trash, or may have found there  *)
(* (deleteMessages of messages.ts reads the tags before it purges).        *)
THEOREM OnlyTrashIsDestroyed == MailboxSpec => []DestroysOnlyTrash
<1>1. MailboxInv => DestroysOnlyTrash  BY DEF MailboxInv, DestroysOnlyTrash
<1> QED  BY <1>1, MailboxInvariant, PTL

-----------------------------------------------------------------------------
(* The attachments. *)
USE IdsAssumption DEF Kinds, Pcs, TakePcs, DeletePcs

(* What the requests take and doom, file by file. *)
LEMMA InTaken == \A f : f \in Taken <=> \E r \in Requests : f \in Takes(r)
BY DEF Taken

LEMMA InDoomed == \A f :
  f \in Doomed <=> f \in Sweeping \/ \E r \in Requests : f \in Deletes(r)
BY DEF Doomed

LEMMA OnlyFiles == TypeOK => /\ Sweeping \subseteq Files
                             /\ \A r \in Requests : Takes(r) \subseteq Files /\ Deletes(r) \subseteq Files
BY DEF TypeOK, Sweeping, Takes, Deletes, Idle, Running

(* A step that only moves the program counter of a request. *)
LEMMA PcStep ==
  ASSUME TypeOK, NEW r \in Requests, req[r].pc \in Pcs, NEW pc \in Pcs \cup {"done"},
         req' = [req EXCEPT ![r].pc = pc]
  PROVE  /\ req' \in [Requests -> {Idle} \cup Running]
         /\ req'[r].pc = pc /\ req'[r].owner = req[r].owner
         /\ req'[r].files = req[r].files
         /\ \A s \in Requests : s # r => req'[s] = req[s]
<1>1. req[r] \in Running
  BY DEF TypeOK, Idle, Running
<1>2. req'[r] \in Running /\ req'[r].pc = pc /\ req'[r].owner = req[r].owner
      /\ req'[r].files = req[r].files
  BY <1>1 DEF TypeOK, Running
<1> QED
  BY <1>2 DEF TypeOK

(* Nothing comes to be taken or doomed: who keeps apart stays apart. *)
LEMMA FewerHeld ==
  ASSUME Apart, contested \subseteq contested', Taken' \subseteq Taken, Doomed' \subseteq Doomed
  PROVE  Apart'
BY DEF Apart

LEMMA InitIInv == Init => IInv
<1> SUFFICES ASSUME Init PROVE IInv
  OBVIOUS
<1>1. Taken = {} /\ Doomed = {} /\ Sweeping = {}
      /\ \A r \in Requests : Takes(r) = {} /\ Deletes(r) = {} /\ req[r].pc = "idle"
  BY DEF Init, Taken, Doomed, Sweeping, Takes, Deletes, Idle
<1>2. TypeOK
  BY DEF Init, TypeOK, Lives, Idle
<1> QED
  BY <1>1, <1>2 DEF Init, IInv, FilesReadable, Apart, UploadOrder, AsRead, SweptAsListed

-----------------------------------------------------------------------------
(* Steps of an upload, the passing of time, and a detached event. *)
LEMMA UploadStep ==
  ASSUME IInv, NEW f \in Files,
         UploadBlob(f) \/ UploadRow(f) \/ Age(f) \/ Detach(f) \/ EvictUpload(f)
  PROVE  IInv'
<1> USE DEF IInv
<1>1. UNCHANGED <<messages, req, sweep, contested>>
  BY DEF UploadBlob, UploadRow, Age, Detach, EvictUpload
<1>2. /\ Taken' = Taken /\ Doomed' = Doomed /\ Sweeping' = Sweeping
      /\ \A r : Takes(r)' = Takes(r) /\ Deletes(r)' = Deletes(r)
      /\ \A r \in Requests : Takes(r) \subseteq Taken /\ Deletes(r) \subseteq Doomed
                           /\ Deletes(r) \subseteq Files
      /\ Sweeping \subseteq Doomed
  BY <1>1, OnlyFiles DEF Taken, Doomed, Takes, Deletes, Sweeping
<1>3. TypeOK'
  BY DEF TypeOK, UploadBlob, UploadRow, Age, Detach, EvictUpload
<1>4. /\ aged \subseteq aged' /\ blobs \subseteq blobs'
      /\ \A g \in Files : rows'[g] = rows[g] \/ (g = f /\ upload[f] = "row" /\ rows'[g] = Staged)
      /\ \A g \in Files : upload'[g] # "done" => upload[g] # "done" /\ rows'[g] = rows[g]
      /\ \A g \in Files : upload'[g] = "row" => g \in blobs'
  BY DEF TypeOK, UploadOrder, UploadBlob, UploadRow, Age, Detach, EvictUpload
<1>5. FilesReadable'
  BY <1>1, <1>2, <1>4 DEF FilesReadable, UploadOrder
<1>6. Apart'
  BY <1>1, <1>2 DEF Apart
<1>7. UploadOrder'
  BY <1>2, <1>4 DEF UploadOrder
<1>8. AsRead'
  BY <1>1, <1>2, <1>4 DEF AsRead, UploadOrder
<1>9. SweptAsListed'
  BY <1>1, <1>2, <1>4 DEF SweptAsListed, UploadOrder, Sweeping, TypeOK
<1> QED
  BY <1>3, <1>5, <1>6, <1>7, <1>8, <1>9

(* A request takes up files that have a row; contested takes those its     *)
(* rivals hold.                                                            *)
LEMMA BeginStep ==
  ASSUME IInv, NEW r \in Requests, NEW pc \in Pcs \ {"deleteBlobs"}, NEW kind \in Kinds,
         NEW owner \in Messages \cup Events, NEW S \in SUBSET Files, NEW rivals,
         Begin(r, pc, kind, owner, S, rivals),
         messages' \in [Messages -> Lives],
         pc # "claim" => owner \in Messages,
         pc = "claim" => owner \in Events,
         pc \in TakePcs => rivals = Doomed,
         pc = "deleteRow" => rivals = Taken /\ \A f \in S : rows[f] = owner,
         \A f \in S : rows[f] # None
  PROVE  IInv'
<1> USE DEF IInv
<1> DEFINE new == [pc |-> pc, kind |-> kind, owner |-> owner, files |-> S]
<1>1. /\ new \in Running /\ new.pc = pc /\ new.owner = owner /\ new.files = S
  BY DEF Running
<1>2. /\ req' = [req EXCEPT ![r] = new]
      /\ contested' = contested \cup (S \cap rivals)
      /\ UNCHANGED <<upload, rows, blobs, aged, claims, sweep>>
      /\ Takes(r) = {} /\ Deletes(r) = {}
  BY DEF Begin, Takes, Deletes
<1>3. req'[r] = new /\ \A s \in Requests : s # r => req'[s] = req[s]
  BY <1>2 DEF TypeOK
<1> HIDE DEF new
<1>4. TypeOK'
  BY <1>1, <1>2, <1>3 DEF TypeOK
<1>5. /\ Takes(r)' = IF pc \in TakePcs THEN S ELSE {}
      /\ Deletes(r)' = IF pc = "deleteRow" THEN S ELSE {}
      /\ Sweeping' = Sweeping
      /\ \A s \in Requests : s # r => Takes(s)' = Takes(s) /\ Deletes(s)' = Deletes(s)
  BY <1>1, <1>2, <1>3 DEF Takes, Deletes, Sweeping
<1>6. /\ Taken' = Taken \cup (IF pc \in TakePcs THEN S ELSE {})
      /\ Doomed' = Doomed \cup (IF pc = "deleteRow" THEN S ELSE {})
  BY <1>2, <1>5 DEF Taken, Doomed
<1>7. FilesReadable'
  BY <1>2, <1>5 DEF FilesReadable
<1>8. Apart'
  BY <1>2, <1>6 DEF Apart
<1>9. UploadOrder'
  BY <1>2, <1>5, <1>6 DEF UploadOrder, TypeOK
<1>10. pc \in TakePcs => \A f \in S \ contested' : f \in blobs
  BY <1>2, InDoomed DEF FilesReadable
<1>11. AsRead'
  BY <1>1, <1>2, <1>3, <1>5, <1>10 DEF AsRead
<1>12. SweptAsListed'
  BY <1>2, <1>5 DEF SweptAsListed
<1> QED
  BY <1>4, <1>7, <1>8, <1>9, <1>11, <1>12

LEMMA BeginSteps ==
  ASSUME IInv, NEW r \in Requests,
         BeginNew(r) \/ BeginEdit(r) \/ BeginClaim(r) \/ BeginDelete(r)
  PROVE  IInv'
<1> USE DEF IInv
<1>0. messages \in [Messages -> Lives]
  BY DEF TypeOK
<1>1. CASE BeginNew(r)
  <2>1. PICK m \in Messages, f \in Files, kind \in {"send", "draft"} :
          /\ rows[f] # None
          /\ Begin(r, IF kind = "send" THEN "read" ELSE "bind", kind, m, {f}, Doomed)
          /\ messages' = [messages EXCEPT ![m] = "new"]
    BY <1>1 DEF BeginNew
  <2>2. messages' \in [Messages -> Lives]
    BY <2>1 DEF TypeOK, Lives
  <2>3. PICK pc \in {"read", "bind"} : Begin(r, pc, kind, m, {f}, Doomed)
    BY <2>1
  <2> QED
    BY <2>1, <2>2, <2>3, BeginStep
<1>2. CASE BeginEdit(r)
  <2>1. PICK m \in Messages, f \in Files :
          /\ rows[f] # None
          /\ Begin(r, "save", "draft", m, {f}, Doomed)
          /\ messages' = messages
    BY <1>2 DEF BeginEdit
  <2> QED
    BY <2>1, <1>0, BeginStep
<1>3. CASE BeginClaim(r)
  <2>1. PICK e \in Events, f \in Files :
          rows[f] = Staged /\ Begin(r, "claim", "claim", e, {f}, {}) /\ messages' = messages
    BY <1>3 DEF BeginClaim
  <2> QED
    BY <2>1, <1>0, BeginStep
<1>4. CASE BeginDelete(r)
  <2>1. PICK m \in Messages :
          /\ Begin(r, "deleteRow", "delete", m, {f \in Files : rows[f] = m}, Taken)
          /\ messages' = messages
    BY <1>4 DEF BeginDelete
  <2>2. \A f \in {f \in Files : rows[f] = m} : rows[f] # None /\ rows[f] = m
    OBVIOUS
  <2> QED
    BY <2>1, <2>2, <1>0, BeginStep
<1> QED
  BY <1>1, <1>2, <1>3, <1>4

-----------------------------------------------------------------------------
(* A request at one of its awaits goes on. *)
LEMMA RequestStep ==
  ASSUME IInv, NEW r \in Requests,
         \/ ReadBytes(r) \/ Bind(r) \/ Save(r) \/ Attach(r) \/ Claim(r)
         \/ DeleteRow(r) \/ DeleteBlobs(r) \/ EvictRequest(r)
  PROVE  IInv'
<1> USE DEF IInv
<1>1. /\ req[r].pc \in Pcs /\ UNCHANGED <<upload, aged, sweep, contested>>
      /\ ReadBytes(r) => req[r].pc = "read"
      /\ Bind(r) => req[r].pc = "bind"
      /\ Save(r) => req[r].pc = "save"
      /\ Attach(r) => req[r].pc = "attach"
      /\ Claim(r) => req[r].pc = "claim"
      /\ DeleteRow(r) => req[r].pc = "deleteRow"
      /\ DeleteBlobs(r) => req[r].pc = "deleteBlobs"
  BY DEF ReadBytes, Bind, Save, Attach, Claim, DeleteRow, DeleteBlobs, EvictRequest
<1>2. PICK pc \in Pcs \cup {"done"} :
        /\ req' = [req EXCEPT ![r].pc = pc]
        /\ \/ pc = "done"
           \/ req[r].pc = "read" /\ pc = "bind"
           \/ req[r].pc = "save" /\ pc = "attach"
           \/ DeleteRow(r) /\ pc = "deleteBlobs"
        /\ DeleteRow(r) => pc = "deleteBlobs"
  <2>1. CASE EvictRequest(r)
    <3>1. req' = [req EXCEPT ![r].pc = "done"]
      BY <2>1 DEF EvictRequest
    <3>2. req'[r].pc = "done"
      BY <3>1, <1>1, PcStep
    <3>3. DeleteRow(r) => req' = [req EXCEPT ![r].pc = "deleteBlobs"]
      BY DEF DeleteRow
    <3>4. ~DeleteRow(r)
      <4>1. ASSUME req' = [req EXCEPT ![r].pc = "deleteBlobs"] PROVE FALSE
        BY <4>1, <3>2, <1>1, PcStep
      <4> QED
        BY <3>3, <4>1
    <3> QED
      BY <3>1, <3>4
  <2>2. CASE ~EvictRequest(r)
    BY <2>2, <1>1 DEF ReadBytes, Bind, Save, Attach, Claim, DeleteRow, DeleteBlobs
  <2> QED
    BY <2>1, <2>2
<1>3. /\ req' \in [Requests -> {Idle} \cup Running]
      /\ req'[r].pc = pc /\ req'[r].owner = req[r].owner
      /\ req'[r].files = req[r].files
      /\ \A s \in Requests : s # r => req'[s] = req[s]
  BY <1>1, <1>2, PcStep
<1>4. /\ Takes(r)' \subseteq Takes(r) /\ Deletes(r)' \subseteq Deletes(r)
      /\ Sweeping' = Sweeping
      /\ \A s \in Requests : s # r => Takes(s)' = Takes(s) /\ Deletes(s)' = Deletes(s)
  BY <1>1, <1>2, <1>3 DEF Takes, Deletes, Sweeping
<1>5. Taken' \subseteq Taken /\ Doomed' \subseteq Doomed
  BY <1>4, InTaken, InDoomed DEF Taken, Doomed
<1>6. /\ req[r].pc # "claim" => req[r].owner \in Messages
      /\ req[r].pc = "claim" => req[r].owner \in Events
      /\ req[r].files \subseteq Files
  BY <1>1 DEF AsRead, TypeOK, Idle, Running
<1>7. /\ TypeOK'
      /\ \A f \in Files : rows'[f] # rows[f] =>
           \/ f \in Takes(r) /\ rows'[f] \in Messages
           \/ DeleteRow(r) /\ rows[f] \in Messages /\ rows'[f] = None
      /\ \A f \in blobs \ blobs' : req[r].pc = "deleteBlobs" /\ f \in Deletes(r)
      /\ DeleteRow(r) => \A f \in Files : rows[f] = req[r].owner => rows'[f] = None
  <2> USE <1>1, <1>3, <1>6 DEF TypeOK, Lives, Live
  <2>1. CASE ReadBytes(r)
    BY <2>1 DEF ReadBytes
  <2>2. CASE Bind(r)
    BY <2>2 DEF Bind, Attached, Takes
  <2>3. CASE Save(r)
    BY <2>3 DEF Save
  <2>4. CASE Attach(r)
    BY <2>4 DEF Attach, Attached, Takes
  <2>5. CASE Claim(r)
    BY <2>5 DEF Claim
  <2>6. CASE DeleteRow(r)
    BY <2>6 DEF DeleteRow, Without, ClaimsWithout
  <2>7. CASE DeleteBlobs(r)
    BY <2>7 DEF DeleteBlobs, Deletes
  <2>8. CASE EvictRequest(r) /\ ~DeleteRow(r)
    BY <2>8 DEF EvictRequest
  <2> QED
    BY <2>1, <2>2, <2>3, <2>4, <2>5, <2>6, <2>7, <2>8
<1>8. /\ \A f : f \in Takes(r) => f \in Taken
      /\ \A s \in Requests : \A f \in Takes(s) : f \in Taken
      /\ \A s \in Requests : \A f \in Deletes(s) : f \in Doomed /\ f \in Files
      /\ \A f \in Sweeping : f \in Doomed /\ f \in Files
  BY InTaken, InDoomed, OnlyFiles
<1>9. FilesReadable'
  <2> SUFFICES ASSUME NEW f \in Files, f \notin contested, rows'[f] # None
               PROVE  f \in blobs' \/ (rows'[f] = Staged /\ f \in Sweeping)
    BY <1>1, <1>4 DEF FilesReadable
  <2>1. CASE f \in Takes(r)
    BY <2>1, <1>7, <1>8 DEF AsRead, Apart
  <2>2. CASE rows'[f] = rows[f]
    BY <2>2, <1>7 DEF FilesReadable, AsRead
  <2> QED
    BY <2>1, <2>2, <1>7
<1>10. Apart'
  BY <1>1, <1>5, FewerHeld
<1>11. UploadOrder'
  <2> SUFFICES ASSUME NEW f \in Files
               PROVE  /\ upload[f] # "done" => rows'[f] = None /\ f \notin Taken' \cup Doomed'
                      /\ upload[f] = "row" => f \in blobs'
    BY <1>1 DEF UploadOrder
  <2> QED
    BY <1>5, <1>7, <1>8 DEF UploadOrder
<1>12. AsRead'
  <2> SUFFICES ASSUME NEW s \in Requests
               PROVE  /\ req'[s].pc \in TakePcs \cup DeletePcs => req'[s].owner \in Messages
                      /\ req'[s].pc = "claim" => req'[s].owner \in Events
                      /\ \A f \in Takes(s)' \ contested : f \in blobs'
                      /\ \A f \in Deletes(s)' \ contested :
                           /\ rows'[f] \in {req'[s].owner, None}
                           /\ req'[s].pc = "deleteBlobs" => rows'[f] = None
    BY <1>1 DEF AsRead
  <2>1. req'[s].owner = req[s].owner /\ (req'[s].pc = req[s].pc \/ s = r)
    BY <1>3
  <2>2. /\ req'[s].pc \in TakePcs \cup DeletePcs => req'[s].owner \in Messages
        /\ req'[s].pc = "claim" => req'[s].owner \in Events
    BY <1>1, <1>2, <1>3, <1>6, <2>1 DEF AsRead
  <2>3. /\ \A f \in Takes(s)' : f \in Takes(s)
        /\ \A f \in Deletes(s)' : f \in Deletes(s)
    BY <1>4
  <2>4. \A f \in Takes(s)' \ contested : f \in blobs'
    BY <2>3, <1>7, <1>8 DEF AsRead, Apart
  <2>5. \A f \in Deletes(s)' \ contested : rows'[f] \in {req[s].owner, None}
    BY <2>3, <1>7, <1>8 DEF AsRead, Apart
  <2>6. ASSUME NEW f \in Deletes(s)', f \notin contested, req'[s].pc = "deleteBlobs"
        PROVE  rows'[f] = None
    <3>1. f \in Deletes(s) /\ f \in Files /\ f \notin Taken
      BY <2>3, <2>6, <1>8 DEF Apart
    <3>2. CASE req[s].pc = "deleteBlobs"
      BY <3>1, <3>2, <2>6, <1>7, <1>8 DEF AsRead
    <3>3. CASE req[s].pc # "deleteBlobs"
      BY <3>1, <3>3, <2>1, <2>6, <1>2, <1>3, <1>7, <1>8 DEF AsRead
    <3> QED
      BY <3>2, <3>3
  <2> QED
    BY <2>1, <2>2, <2>4, <2>5, <2>6
<1>13. SweptAsListed'
  <2> SUFFICES ASSUME NEW f \in Sweeping, f \notin contested
               PROVE  rows'[f] = Staged /\ (sweep.pc = "blobs" => f \in blobs')
    BY <1>1, <1>4 DEF SweptAsListed
  <2>1. rows[f] = Staged /\ f \in Files /\ f \notin Takes(r)
    BY <1>8 DEF SweptAsListed, Apart
  <2>2. f \in blobs \ blobs' => rows[f] = None
    BY <1>7 DEF AsRead
  <2> QED
    BY <2>1, <2>2, <1>7 DEF SweptAsListed
<1> QED
  BY <1>7, <1>9, <1>10, <1>11, <1>12, <1>13

-----------------------------------------------------------------------------
(* The sweep. *)
LEMMA SweepStep ==
  ASSUME IInv, Sweep \/ EvictSweep
  PROVE  IInv'
<1> USE DEF IInv
<1>0. /\ UNCHANGED <<upload, aged, messages, req>> /\ Taken' = Taken
      /\ \A r : Takes(r)' = Takes(r) /\ Deletes(r)' = Deletes(r)
  BY DEF Sweep, SweepList, SweepBlobs, SweepRows, EvictSweep, Taken, Takes, Deletes
<1>1. /\ \A r \in Requests : \A f \in Takes(r) : f \in Taken /\ f \in Files
      /\ \A r \in Requests : \A f \in Deletes(r) : f \in Doomed /\ f \in Files
      /\ \A f \in Sweeping : f \in Doomed /\ f \in Files
  BY InTaken, InDoomed, OnlyFiles
<1>2. CASE SweepList
  <2>1. /\ Sweeping = {} /\ Sweeping' = Stale /\ UNCHANGED <<rows, blobs, claims>>
        /\ sweep' = [pc |-> "blobs", files |-> Stale]
        /\ contested' = contested \cup (Stale \cap Taken)
        /\ Stale \subseteq Files
    BY <1>2 DEF SweepList, Sweeping, Stale
  <2>2. Doomed' = Doomed \cup Stale
    BY <2>1, <1>0 DEF Doomed
  <2>3. TypeOK'
    BY <1>0, <2>1 DEF TypeOK
  <2>4. FilesReadable' /\ Apart' /\ AsRead'
    BY <1>0, <2>1, <2>2 DEF FilesReadable, Apart, AsRead
  <2>5. UploadOrder'
    BY <1>0, <2>1, <2>2 DEF UploadOrder, Stale
  <2>6. SweptAsListed'
    BY <1>0, <2>1 DEF SweptAsListed, Stale, FilesReadable
  <2> QED
    BY <2>3, <2>4, <2>5, <2>6
<1>3. CASE SweepBlobs
  <2>1. /\ Sweeping' = Sweeping
        /\ UNCHANGED <<rows, claims, contested>>
        /\ sweep'.pc = "rows" /\ \A f \in blobs \ blobs' : f \in Sweeping
        /\ blobs' \subseteq blobs
    BY <1>3 DEF SweepBlobs, Sweeping, TypeOK
  <2>2. TypeOK'
    BY <1>0, <1>3, <2>1 DEF TypeOK, SweepBlobs
  <2>3. Doomed' = Doomed
    BY <1>0, <2>1 DEF Doomed
  <2>4. FilesReadable' /\ Apart' /\ SweptAsListed' /\ UploadOrder'
    BY <1>0, <1>1, <2>1, <2>3 DEF FilesReadable, Apart, SweptAsListed, UploadOrder
  <2>5. AsRead'
    BY <1>0, <1>1, <2>1 DEF AsRead, Apart
  <2> QED
    BY <2>2, <2>4, <2>5
<1>4. CASE SweepRows
  <2>1. /\ Sweeping' = {} /\ UNCHANGED <<blobs, contested>>
        /\ rows' = Without(Sweeping) /\ claims' = ClaimsWithout(Sweeping)
        /\ sweep' = [pc |-> "idle", files |-> {}]
    BY <1>4 DEF SweepRows, Sweeping
  <2>2. TypeOK'
    BY <1>0, <2>1 DEF TypeOK, Without, ClaimsWithout
  <2>3. \A f \in Files : rows'[f] = IF f \in Sweeping THEN None ELSE rows[f]
    BY <2>1 DEF Without
  <2>4. Doomed' \subseteq Doomed
    BY <1>0, <2>1 DEF Doomed
  <2>5. FilesReadable' /\ Apart' /\ UploadOrder' /\ SweptAsListed'
    BY <1>0, <2>1, <2>3, <2>4 DEF FilesReadable, Apart, UploadOrder, SweptAsListed
  <2>6. AsRead'
    BY <1>0, <1>1, <2>1, <2>3 DEF AsRead
  <2> QED
    BY <2>2, <2>5, <2>6
<1>5. CASE EvictSweep
  <2>1. /\ Sweeping' = {} /\ UNCHANGED <<rows, blobs, claims>>
        /\ sweep' = [pc |-> "idle", files |-> {}]
        /\ contested' = IF sweep.pc = "rows" THEN contested \cup Sweeping ELSE contested
        /\ sweep.pc \in {"blobs", "rows"}
    BY <1>5 DEF EvictSweep, Sweeping, TypeOK
  <2>2. TypeOK'
    BY <1>0, <1>1, <2>1 DEF TypeOK
  <2>3. FilesReadable'
    BY <1>0, <2>1 DEF FilesReadable, SweptAsListed
  <2>4. Doomed' \subseteq Doomed
    BY <1>0, <2>1 DEF Doomed
  <2>5. Apart' /\ UploadOrder' /\ AsRead' /\ SweptAsListed'
    BY <1>0, <2>1, <2>4 DEF Apart, UploadOrder, AsRead, SweptAsListed
  <2> QED
    BY <2>2, <2>3, <2>5
<1> QED
  BY <1>2, <1>3, <1>4, <1>5 DEF Sweep

LEMMA NextIInv == IInv /\ [Next]_vars => IInv'
<1> SUFFICES ASSUME IInv, [Next]_vars PROVE IInv'
  OBVIOUS
<1>1. CASE \E f \in Files : \/ UploadBlob(f) \/ UploadRow(f) \/ Age(f) \/ Detach(f)
                            \/ EvictUpload(f)
  BY <1>1, UploadStep
<1>2. CASE \E r \in Requests : Request(r) \/ EvictRequest(r)
  BY <1>2, BeginSteps, RequestStep DEF Request
<1>3. CASE Sweep \/ EvictSweep
  BY <1>3, SweepStep
<1>4. CASE UNCHANGED vars
  BY <1>4 DEF vars, IInv, TypeOK, FilesReadable, Apart, UploadOrder, AsRead,
              SweptAsListed, Takes, Deletes, Taken, Doomed, Sweeping
<1> QED
  BY <1>1, <1>2, <1>3, <1>4 DEF Next

-----------------------------------------------------------------------------
(* IInv holds in every reachable state: what a request or the sweep has in *)
(* memory of an uncontested file agrees with the table and the store.     *)
THEOREM AttachmentsInvariant == Spec => []IInv
<1>1. Init => IInv
  BY InitIInv
<1>2. IInv /\ [Next]_vars => IInv'
  BY NextIInv
<1> QED
  BY <1>1, <1>2, PTL DEF Spec

(* An attachment row leads to its bytes, whatever sends, drafts, claims,   *)
(* deletions, sweeps and evictions did, as long as none took the file      *)
(* while another was deleting it.                                          *)
THEOREM Readable == Spec => []FilesReadable
<1>1. IInv => FilesReadable
  BY DEF IInv
<1> QED
  BY <1>1, AttachmentsInvariant, PTL

(* The sweep and the deletions take no row of an upload less than a day    *)
(* old, except the rows of a message that is deleted.                      *)
THEOREM YoungUploadsKept == Spec => YoungKept
<1> DEFINE Kept == \A f \in Files : rows[f] # None /\ rows'[f] = None /\ f \notin aged
                     => rows[f] \in Messages /\ messages'[rows[f]] = "gone"
<1>1. ASSUME IInv, [Next]_vars PROVE [Kept]_vars
  <2> SUFFICES ASSUME NEW f \in Files, rows[f] # None, rows'[f] = None, f \notin aged
               PROVE  rows[f] \in Messages /\ messages'[rows[f]] = "gone"
    OBVIOUS
  <2> USE <1>1 DEF IInv
  <2>1. CASE SweepRows
    BY <2>1 DEF SweepRows, Without, SweptAsListed, Sweeping
  <2>2. CASE \E r \in Requests : DeleteRow(r)
    BY <2>2 DEF DeleteRow, Without, AsRead, TypeOK
  <2>3. CASE \E r \in Requests : Bind(r) \/ Attach(r)
    BY <2>3 DEF Bind, Attach, Attached, AsRead
  <2>4. CASE ~SweepRows /\ ~\E r \in Requests : DeleteRow(r) \/ Bind(r) \/ Attach(r)
    <3>1. rows' = rows \/ \E g \in Files : UploadRow(g)
      BY <2>4 DEF Next, vars, Request, Sweep, Begin, BeginNew, BeginEdit, BeginClaim,
                  BeginDelete, ReadBytes, Save, Claim, DeleteBlobs, EvictRequest, EvictUpload,
                  EvictSweep, SweepList, SweepBlobs, UploadBlob, Age, Detach
    <3> QED
      BY <3>1 DEF UploadRow, TypeOK
  <2> QED
    BY <2>1, <2>2, <2>3, <2>4
<1>2. IInv /\ [Next]_vars => [Kept]_vars
  BY <1>1
<1> QED
  BY <1>2, AttachmentsInvariant, PTL DEF Spec, YoungKept
=============================================================================
