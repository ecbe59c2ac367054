----------------------------- MODULE KheapProofs -----------------------------
(***************************************************************************)
(* Proofs about Kheap, for any sizes of pages, headers and requests.       *)
(*                                                                         *)
(* An operation changes the headers in several steps: splitting, marking,  *)
(* one or two merges.  So what makes the headers right is stated of any    *)
(* table of headers, and each step is shown to keep it.  That blocks stay  *)
(* within the arena they were cut from needs arenas that do not overlap,   *)
(* which comes from the page allocator: it grants no page twice.           *)
(***************************************************************************)
EXTENDS Kheap, TLAPS

Arena == [first : Page, pages : Nat \ {0}]

Typed(bs) == bs \in [DOMAIN bs -> Header] /\ DOMAIN bs \subseteq Nat \ {0}

Disjoint(bs) == \A b, c \in DOMAIN bs : b < c => End(bs, b) <= c

NextRight(bs, b) ==
    bs[b].next # Null =>
        /\ bs[b].next = End(bs, b) /\ bs[b].next \in DOMAIN bs
        /\ bs[bs[b].next].prev = b

PrevRight(bs, b) ==
    bs[b].prev # Null => bs[b].prev \in DOMAIN bs /\ bs[bs[b].prev].next = b

\* Block b lies in arena a, at its start or end exactly if it is the first or last.
Within(bs, a, b) ==
    /\ FirstBlock(a) <= b /\ End(bs, b) <= ArenaEnd(a)
    /\ bs[b].prev = Null <=> b = FirstBlock(a)
    /\ bs[b].next = Null <=> End(bs, b) = ArenaEnd(a)

\* The headers bs are right for the arenas ar, a set.
Right(bs, ar) ==
    /\ Typed(bs) /\ Disjoint(bs)
    /\ \A b \in DOMAIN bs : NextRight(bs, b) /\ PrevRight(bs, b)
    /\ \A b \in DOMAIN bs : \E a \in ar : Within(bs, a, b)

Apart(ar) ==
    /\ ar \subseteq Arena
    /\ \A a, c \in ar : a # c => ArenaEnd(a) <= ArenaStart(c) \/ ArenaEnd(c) <= ArenaStart(a)

\* Two free blocks in a row.
BothFree(bs, c) == bs[c].next # Null /\ bs[c].free /\ bs[bs[c].next].free

Packed(bs) == \A c \in DOMAIN bs : ~BothFree(bs, c)

\* The blocks in use.
Used(bs) == {b \in DOMAIN bs : ~bs[b].free}

-----------------------------------------------------------------------------
(* Numbers. *)

LEMMA Rounding ==
    ASSUME NEW x \in Nat
    PROVE  ALIGN16(x) \in Nat /\ x <= ALIGN16(x)
<1> DEFINE y == x + Align - 1
<1>1. y \in Nat /\ Align \in Nat \ {0}
    BY AlignAssumption
<1>2. (y \div Align) * Align <= y /\ y < (y \div Align) * Align + Align /\ y \div Align \in Nat
  <2> HIDE DEF y
  <2> QED
    BY <1>1
<1>3. (y \div Align) * Align \in Nat
    BY <1>1, <1>2
<1> QED
    BY <1>1, <1>2, <1>3 DEF ALIGN16

\* A new arena has room for the headers and the payload.
LEMMA ArenaRoom ==
    ASSUME NEW size \in Nat
    PROVE  /\ ArenaPages(size) \in Nat \ {0}
           /\ ArenaHeader + HeaderSize + size <= ArenaPages(size) * PageSize
<1> DEFINE y == ArenaHeader + HeaderSize + size + PageSize - 1
           n == PagesFor(size)
<1>1. y \in Nat /\ PageSize \in Nat \ {0} /\ ArenaHeader + HeaderSize + size \in Nat
    BY HeaderAssumption, PageSizeAssumption
<1>2. n = y \div PageSize
    BY DEF PagesFor
<1> HIDE DEF y, n
<1>3. n \in Nat /\ n * PageSize <= y /\ y < n * PageSize + PageSize
    BY <1>1, <1>2
<1>4. n * PageSize \in Nat
    BY <1>1, <1>3
<1>5. ArenaHeader + HeaderSize + size <= n * PageSize
    BY <1>1, <1>3, <1>4 DEF y
<1>6. CASE n < ArenaMinPages
  <2>1. ArenaPages(size) = ArenaMinPages
    BY <1>6 DEF ArenaPages, n
  <2>2. n * PageSize <= ArenaMinPages * PageSize
    BY <1>1, <1>3, <1>6, ArenaMinPagesAssumption
  <2> QED
    BY <1>1, <1>4, <1>5, <2>1, <2>2, ArenaMinPagesAssumption
<1>7. CASE ~(n < ArenaMinPages)
  <2>1. ArenaPages(size) = n
    BY <1>7 DEF ArenaPages, n
  <2> QED
    BY <1>3, <1>5, <1>7, <2>1, ArenaMinPagesAssumption
<1> QED
    BY <1>6, <1>7

LEMMA ArenaNumbers ==
    ASSUME NEW a \in Arena
    PROVE  /\ ArenaStart(a) \in Nat \ {0} /\ FirstBlock(a) \in Nat \ {0}
           /\ ArenaEnd(a) \in Nat /\ ArenaStart(a) <= FirstBlock(a)
           /\ ArenaEnd(a) = ArenaStart(a) + a.pages * PageSize
<1>1. a.first \in Nat \ {0} /\ a.pages \in Nat /\ PageSize \in Nat \ {0} /\ ArenaHeader \in Nat
    BY PageAssumption, PageSizeAssumption, HeaderAssumption DEF Arena
<1>2. /\ a.first * PageSize \in Nat \ {0}
      /\ (a.first + a.pages) * PageSize = a.first * PageSize + a.pages * PageSize
      /\ a.pages * PageSize \in Nat
    BY <1>1
<1> QED
    BY <1>1, <1>2 DEF ArenaStart, ArenaEnd, FirstBlock

LEMMA EndNumber ==
    ASSUME NEW bs, Typed(bs), NEW b \in DOMAIN bs
    PROVE  /\ b \in Nat \ {0} /\ bs[b] \in Header /\ bs[b].size \in Nat
           /\ bs[b].next \in Nat /\ bs[b].prev \in Nat /\ bs[b].free \in BOOLEAN
           /\ End(bs, b) \in Nat /\ b + HeaderSize + bs[b].size = End(bs, b) /\ b < End(bs, b)
<1>1. b \in Nat \ {0} /\ bs[b] \in Header
    BY DEF Typed
<1>2. /\ bs[b].size \in Nat /\ bs[b].next \in Nat /\ bs[b].prev \in Nat
      /\ bs[b].free \in BOOLEAN
    BY <1>1 DEF Header
<1> QED
    BY <1>1, <1>2, HeaderAssumption DEF End

-----------------------------------------------------------------------------
(* Splitting. *)

LEMMA Split ==
    ASSUME NEW bs, NEW ar, Right(bs, ar), ar \subseteq Arena,
           NEW b \in DOMAIN bs, bs[b].free, NEW size \in Nat, size <= bs[b].size
    PROVE  LET t == split_block(bs, b, size)
           IN  /\ Right(t, ar) /\ DOMAIN bs \subseteq DOMAIN t
               /\ Used(t) = Used(bs) /\ b \in DOMAIN t /\ size <= t[b].size
               /\ \A c \in DOMAIN bs \ {b} : t[c].size = bs[c].size
               /\ Packed(bs) => \A c \in DOMAIN t \ {b} : ~BothFree(t, c)
<1> DEFINE t == split_block(bs, b, size)
           new == b + HeaderSize + size
           rest == Rest(bs, b, size)
<1>1. CASE ~WorthSplitting(rest)
  <2>1. t = bs
    BY <1>1 DEF split_block
  <2> QED
    BY <2>1 DEF Packed
<1>2. CASE WorthSplitting(rest)
  <2> DEFINE nx == bs[b].next
  <2>0. Typed(bs) /\ Disjoint(bs) /\ HeaderSize \in Nat \ {0} /\ Align \in Nat
    BY HeaderAssumption, AlignAssumption DEF Right
  <2>1. /\ b \in Nat \ {0} /\ bs[b] \in Header /\ bs[b].size \in Nat /\ nx \in Nat
        /\ bs[b].prev \in Nat /\ End(bs, b) = b + HeaderSize + bs[b].size
    BY <2>0, EndNumber
  <2>2. rest \in Nat /\ rest = bs[b].size - size /\ HeaderSize < rest /\ new \in Nat \ {0}
    BY <1>2, <2>0, <2>1 DEF Rest, WorthSplitting
  <2>3. b < new /\ new + rest = End(bs, b) /\ new < End(bs, b)
    BY <2>0, <2>1, <2>2
  <2> HIDE DEF new, rest
  <2>4. new \notin DOMAIN bs
    BY <2>0, <2>2, <2>3 DEF Disjoint
  <2>5. t = [c \in DOMAIN bs \cup {new} |->
              IF c = new
              THEN [size |-> rest - HeaderSize, free |-> TRUE, next |-> nx, prev |-> b]
              ELSE IF c = b THEN [bs[b] EXCEPT !.size = size, !.next = new]
              ELSE IF c = nx THEN [bs[c] EXCEPT !.prev = new]
              ELSE bs[c]]
    BY <1>2 DEF split_block, new, rest
  <2> HIDE DEF t
  <2>6. DOMAIN t = DOMAIN bs \cup {new}
    BY <2>5
  <2>7. t[new] = [size |-> rest - HeaderSize, free |-> TRUE, next |-> nx, prev |-> b]
    BY <2>5
  <2>8. t[b] = [bs[b] EXCEPT !.size = size, !.next = new]
    BY <2>4, <2>5
  <2>9. \A c \in DOMAIN bs \ {b} :
            t[c] = IF c = nx THEN [bs[c] EXCEPT !.prev = new] ELSE bs[c]
    BY <2>4, <2>5
  <2>10. /\ t[new].size = rest - HeaderSize /\ t[new].free = TRUE /\ t[new].next = nx
         /\ t[new].prev = b /\ t[new] \in Header
    BY <2>0, <2>1, <2>2, <2>7 DEF Header
  <2>11. /\ t[b].size = size /\ t[b].free = bs[b].free /\ t[b].next = new
         /\ t[b].prev = bs[b].prev /\ t[b] \in Header
    BY <2>1, <2>2, <2>8 DEF Header
  <2>12. ASSUME NEW c \in DOMAIN bs \ {b}
         PROVE  /\ t[c].size = bs[c].size /\ t[c].free = bs[c].free /\ t[c].next = bs[c].next
                /\ t[c].prev = (IF c = nx THEN new ELSE bs[c].prev) /\ t[c] \in Header
    <3>1. bs[c] \in Header
        BY <2>0, EndNumber
    <3>2. CASE c = nx
      <4>1. t[c] = [bs[c] EXCEPT !.prev = new] /\ new \in Nat
        BY <2>2, <2>9, <3>2
      <4> QED
        BY <3>1, <3>2, <4>1 DEF Header
    <3>3. CASE c # nx
      <4>1. t[c] = bs[c]
        BY <2>9, <3>3
      <4> QED
        BY <3>1, <3>3, <4>1
    <3> QED
        BY <3>2, <3>3
  <2>13. Typed(t)
    <3>1. t = [c \in DOMAIN t |-> t[c]]
        BY <2>5
    <3>2. \A c \in DOMAIN t : t[c] \in Header
        BY <2>6, <2>10, <2>11, <2>12
    <3>3. DOMAIN t \subseteq Nat \ {0}
        BY <2>0, <2>2, <2>6 DEF Typed
    <3> QED
        BY <3>1, <3>2, <3>3 DEF Typed
  <2>14. /\ End(t, new) = End(bs, b) /\ End(t, b) = new
         /\ \A c \in DOMAIN bs \ {b} : End(t, c) = End(bs, c)
    BY <2>0, <2>1, <2>2, <2>3, <2>10, <2>11, <2>12 DEF End, new
  <2>15. Disjoint(t)
    <3> SUFFICES ASSUME NEW c \in DOMAIN t, NEW d \in DOMAIN t, c < d
                 PROVE  End(t, c) <= d
        BY DEF Disjoint
    <3>1. c \in Nat /\ d \in Nat /\ End(bs, b) \in Nat
        BY <2>0, <2>13, EndNumber DEF Typed
    <3>2. CASE c \in DOMAIN bs /\ d \in DOMAIN bs
      <4>1. End(bs, c) <= d /\ End(bs, c) \in Nat
        BY <2>0, <3>2, EndNumber DEF Disjoint
      <4> QED
        BY <2>2, <2>3, <2>14, <3>1, <3>2, <4>1
    <3>3. CASE c = new /\ d \in DOMAIN bs
      <4>1. End(bs, b) <= d
        BY <2>0, <2>1, <2>2, <2>3, <3>1, <3>3 DEF Disjoint
      <4> QED
        BY <2>14, <3>3, <4>1
    <3>4. CASE d = new /\ c \in DOMAIN bs
      <4>1. CASE c = b
        BY <2>2, <2>14, <3>4, <4>1
      <4>2. CASE c < b
        <5>1. End(bs, c) <= b /\ End(bs, c) \in Nat
            BY <2>0, <3>4, <4>2, EndNumber DEF Disjoint
        <5> QED
            BY <2>1, <2>2, <2>3, <2>14, <3>1, <3>4, <4>2, <5>1
      <4>3. CASE b < c
        <5>1. End(bs, b) <= c
            BY <2>0, <3>4, <4>3 DEF Disjoint
        <5> QED
            BY <2>2, <2>3, <3>1, <3>4, <5>1
      <4> QED
        BY <2>1, <3>1, <4>1, <4>2, <4>3
    <3> QED
        BY <2>6, <3>1, <3>2, <3>3, <3>4
  <2>16. bs[b].next # Null => nx = End(bs, b) /\ nx \in DOMAIN bs \ {b} /\ bs[nx].prev = b /\ nx # new
    <3>1. NextRight(bs, b)
        BY DEF Right
    <3> QED
        BY <2>1, <2>2, <2>3, <3>1, <2>4 DEF NextRight
  <2>17. ASSUME NEW c \in DOMAIN t PROVE NextRight(t, c)
    <3>1. CASE c = new
        BY <2>2, <2>6, <2>10, <2>12, <2>14, <2>16, <3>1 DEF NextRight
    <3>2. CASE c = b
        BY <2>6, <2>10, <2>11, <2>14, <3>2 DEF NextRight
    <3>3. CASE c \in DOMAIN bs \ {b}
      <4>1. NextRight(bs, c) /\ t[c].next = bs[c].next /\ End(t, c) = End(bs, c)
        BY <2>12, <2>14, <3>3 DEF Right
      <4>2. ASSUME bs[c].next # Null PROVE t[bs[c].next].prev = c /\ bs[c].next \in DOMAIN bs
        <5>1. bs[c].next \in DOMAIN bs /\ bs[bs[c].next].prev = c
            BY <4>1, <4>2 DEF NextRight
        <5>2. bs[c].next # nx \/ nx = Null
            BY <2>16, <3>3, <5>1
        <5> QED
            BY <2>11, <2>12, <4>2, <5>1, <5>2
      <4> QED
        BY <2>6, <4>1, <4>2 DEF NextRight
    <3> QED
        BY <2>6, <3>1, <3>2, <3>3
  <2>18. ASSUME NEW c \in DOMAIN t PROVE PrevRight(t, c)
    <3>1. CASE c = new
        BY <2>6, <2>10, <2>11, <3>1 DEF PrevRight
    <3>2. CASE c = b
      <4>1. PrevRight(bs, b)
        BY DEF Right
      <4>2. bs[b].prev # b
        <5>1. ASSUME bs[b].prev = b PROVE FALSE
            BY <2>1, <2>3, <2>2, <2>16, <4>1, <5>1 DEF PrevRight, Null
        <5> QED
            BY <5>1
      <4> QED
        BY <2>6, <2>11, <2>12, <3>2, <4>1, <4>2 DEF PrevRight
    <3>3. CASE c \in DOMAIN bs \ {b}
      <4>1. PrevRight(bs, c)
        BY <3>3 DEF Right
      <4>2. CASE c = nx
        BY <2>6, <2>10, <2>12, <3>3, <4>2 DEF PrevRight
      <4>3. CASE c # nx
        <5>1. t[c].prev = bs[c].prev
            BY <2>12, <3>3, <4>3
        <5>2. bs[c].prev # Null => bs[c].prev # b
            BY <4>1, <4>3 DEF PrevRight
        <5> QED
            BY <2>6, <2>12, <4>1, <5>1, <5>2 DEF PrevRight
      <4> QED
        BY <4>2, <4>3
    <3> QED
        BY <2>6, <3>1, <3>2, <3>3
  <2>19. ASSUME NEW c \in DOMAIN t PROVE \E a \in ar : Within(t, a, c)
    <3>1. PICK a \in ar : Within(bs, a, b)
        BY DEF Right
    <3>2. FirstBlock(a) \in Nat /\ ArenaEnd(a) \in Nat /\ End(bs, b) \in Nat
        BY <2>0, <3>1, ArenaNumbers, EndNumber
    <3>3. CASE c = new
        BY <2>1, <2>2, <2>3, <2>10, <2>14, <3>1, <3>2, <3>3 DEF Within, Null
    <3>4. CASE c = b
        BY <2>1, <2>2, <2>3, <2>11, <2>14, <3>1, <3>2, <3>4 DEF Within, Null
    <3>5. CASE c \in DOMAIN bs \ {b}
      <4>1. PICK a2 \in ar : Within(bs, a2, c)
        BY <3>5 DEF Right
      <4>2. bs[c].prev = Null <=> t[c].prev = Null
        BY <2>1, <2>2, <2>12, <2>16, <3>5, EndNumber, <2>0 DEF Null
      <4>3. t[c].next = bs[c].next /\ End(t, c) = End(bs, c)
        BY <2>12, <2>14, <3>5
      <4> QED
        BY <4>1, <4>2, <4>3 DEF Within
    <3> QED
        BY <2>6, <3>3, <3>4, <3>5
  <2>20. Used(t) = Used(bs)
    BY <2>6, <2>10, <2>11, <2>12 DEF Used
  <2>21. Right(t, ar)
    BY <2>13, <2>15, <2>17, <2>18, <2>19 DEF Right
  <2>22. ASSUME Packed(bs), NEW c \in DOMAIN t \ {b} PROVE ~BothFree(t, c)
    <3>1. CASE c = new
      <4>1. ASSUME nx # Null PROVE ~bs[nx].free /\ t[nx].free = bs[nx].free
        <5>1. ~bs[nx].free
            BY <2>22, <4>1 DEF Packed, BothFree
        <5> QED
            BY <2>12, <2>16, <4>1, <5>1
      <4> QED
        BY <2>10, <3>1, <4>1 DEF BothFree
    <3>2. CASE c \in DOMAIN bs \ {b}
      <4>1. t[c].next = bs[c].next /\ t[c].free = bs[c].free
        BY <2>12, <3>2
      <4>2. ASSUME bs[c].next # Null PROVE t[bs[c].next].free = bs[bs[c].next].free
        <5>1. bs[c].next \in DOMAIN bs
            BY <3>2, <4>2 DEF Right, NextRight
        <5> QED
            BY <2>11, <2>12, <5>1
      <4>3. ~BothFree(bs, c)
        BY <2>22, <3>2 DEF Packed
      <4> QED
        BY <4>1, <4>2, <4>3 DEF BothFree
    <3> QED
        BY <2>6, <3>1, <3>2
  <2> QED
    BY <2>6, <2>11, <2>12, <2>20, <2>21, <2>22 DEF t
<1> QED
    BY <1>1, <1>2

-----------------------------------------------------------------------------
(* Marking and merging. *)

LEMMA Marked ==
    ASSUME NEW bs, NEW ar, Right(bs, ar), NEW b \in DOMAIN bs, NEW mark \in BOOLEAN
    PROVE  LET t == [bs EXCEPT ![b].free = mark]
           IN  /\ Right(t, ar) /\ DOMAIN t = DOMAIN bs /\ t[b].free = mark
               /\ \A c \in DOMAIN bs \ {b} : t[c].free = bs[c].free
               /\ \A c \in DOMAIN bs : t[c].size = bs[c].size /\ t[c].next = bs[c].next
                                       /\ t[c].prev = bs[c].prev
<1> DEFINE t == [bs EXCEPT ![b].free = mark]
<1>1. Typed(bs) /\ Disjoint(bs)
    BY DEF Right
<1>2. DOMAIN t = DOMAIN bs /\ \A c \in DOMAIN bs \ {b} : t[c] = bs[c]
    OBVIOUS
<1>3. t[b] = [bs[b] EXCEPT !.free = mark]
    BY <1>1 DEF Typed
<1>4. t = [c \in DOMAIN t |-> t[c]]
    OBVIOUS
<1> HIDE DEF t
<1>5. /\ t[b] \in Header /\ t[b].free = mark /\ t[b].size = bs[b].size
      /\ t[b].next = bs[b].next /\ t[b].prev = bs[b].prev
  <2>1. bs[b] \in Header
    BY <1>1, EndNumber
  <2> QED
    BY <1>3, <2>1 DEF Header
<1>6. \A c \in DOMAIN bs : t[c].size = bs[c].size /\ t[c].next = bs[c].next
                           /\ t[c].prev = bs[c].prev
    BY <1>2, <1>5
<1>7. Typed(t)
  <2>1. \A c \in DOMAIN t : t[c] \in Header
    BY <1>1, <1>2, <1>5, EndNumber
  <2> QED
    BY <1>1, <1>2, <1>4, <2>1 DEF Typed
<1>8. \A c \in DOMAIN bs : End(t, c) = End(bs, c)
    BY <1>6 DEF End
<1>9. Disjoint(t)
    BY <1>1, <1>2, <1>8 DEF Disjoint
<1>10. \A c \in DOMAIN t : NextRight(t, c) /\ PrevRight(t, c)
    BY <1>2, <1>6, <1>8 DEF Right, NextRight, PrevRight
<1>11. \A c \in DOMAIN t : \E a \in ar : Within(t, a, c)
    BY <1>2, <1>6, <1>8 DEF Right, Within
<1>12. Right(t, ar)
    BY <1>7, <1>9, <1>10, <1>11 DEF Right
<1> QED
    BY <1>2, <1>5, <1>6, <1>12 DEF t

\* Taking a free block: the one block more that is in use is as long as asked for.
LEMMA Taken ==
    ASSUME NEW bs, NEW ar, Right(bs, ar), ar \subseteq Arena,
           NEW b \in DOMAIN bs, bs[b].free, NEW size \in Nat, size <= bs[b].size
    PROVE  LET t == Take(bs, b, size)
           IN  /\ Right(t, ar) /\ Used(t) = Used(bs) \cup {b} /\ size <= t[b].size
               /\ \A c \in Used(bs) : t[c].size = bs[c].size
               /\ Packed(bs) => Packed(t)
<1> DEFINE s == split_block(bs, b, size)
           t == [s EXCEPT ![b].free = FALSE]
<1>1. /\ Right(s, ar) /\ DOMAIN bs \subseteq DOMAIN s
      /\ Used(s) = Used(bs) /\ b \in DOMAIN s /\ size <= s[b].size
      /\ \A c \in DOMAIN bs \ {b} : s[c].size = bs[c].size
      /\ Packed(bs) => \A c \in DOMAIN s \ {b} : ~BothFree(s, c)
    BY Split
<1>2. Take(bs, b, size) = t
    BY DEF Take
<1> HIDE DEF s
<1>3. /\ Right(t, ar) /\ DOMAIN t = DOMAIN s /\ t[b].free = FALSE
      /\ \A c \in DOMAIN s \ {b} : t[c].free = s[c].free
      /\ \A c \in DOMAIN s : t[c].size = s[c].size /\ t[c].next = s[c].next
                              /\ t[c].prev = s[c].prev
  <2>1. FALSE \in BOOLEAN
    OBVIOUS
  <2> QED
    BY <1>1, <2>1, Marked
<1> HIDE DEF t
<1>4. Used(t) = Used(bs) \cup {b}
    BY <1>1, <1>3 DEF Used
<1>5. \A c \in Used(bs) : t[c].size = bs[c].size
    BY <1>1, <1>3 DEF Used
<1>6. ASSUME Packed(bs) PROVE Packed(t)
  <2> SUFFICES ASSUME NEW c \in DOMAIN t, BothFree(t, c) PROVE FALSE
    BY DEF Packed
  <2>1. c # b /\ c \in DOMAIN s /\ t[c].next # Null /\ t[c].free /\ t[t[c].next].free
    BY <1>3 DEF BothFree
  <2>2. s[c].next # Null /\ s[c].free /\ s[c].next \in DOMAIN s /\ t[s[c].next].free
    BY <1>1, <1>3, <2>1 DEF Right, NextRight
  <2>3. s[c].next # b
    BY <1>3, <2>2
  <2>4. BothFree(s, c)
    BY <1>3, <2>2, <2>3 DEF BothFree
  <2> QED
    BY <1>1, <1>6, <2>1, <2>4
<1> QED
    BY <1>1, <1>2, <1>3, <1>4, <1>5, <1>6

\* Block b takes in the next one, which lies in the same arena.
LEMMA Absorbed ==
    ASSUME NEW bs, NEW ar, Right(bs, ar), Apart(ar), NEW b \in DOMAIN bs, Mergeable(bs, b)
    PROVE  LET t == Absorb(bs, b)
           IN  /\ Right(t, ar) /\ DOMAIN t \subseteq DOMAIN bs /\ b \in DOMAIN t
               /\ \A c \in DOMAIN bs \ DOMAIN t : c = bs[b].next /\ bs[c].free
               /\ \A c \in DOMAIN t : t[c].free = bs[c].free
               /\ \A c \in DOMAIN t \ {b} : t[c].size = bs[c].size /\ t[c].next = bs[c].next
               /\ t[b].next = bs[bs[b].next].next /\ bs[b].next \in DOMAIN bs \ DOMAIN t
<1> DEFINE t == Absorb(bs, b)
           n == bs[b].next
           m == bs[n].next
<1>0. Typed(bs) /\ Disjoint(bs)
    BY DEF Right
<1>1. n # Null /\ bs[n].free /\ bs[b].free /\ End(bs, b) = n
    BY DEF Mergeable
<1>2. n \in DOMAIN bs /\ bs[n].prev = b
    BY <1>1 DEF Right, NextRight
<1>3. /\ b \in Nat \ {0} /\ bs[b].size \in Nat /\ bs[b].prev \in Nat /\ b < n
      /\ n = b + HeaderSize + bs[b].size /\ bs[b] \in Header
    BY <1>0, <1>1, EndNumber
<1>4. /\ n \in Nat \ {0} /\ bs[n].size \in Nat /\ m \in Nat /\ n < End(bs, n)
      /\ End(bs, n) = n + HeaderSize + bs[n].size /\ bs[n] \in Header
    BY <1>0, <1>2, EndNumber
<1>5. m # Null => m = End(bs, n) /\ m \in DOMAIN bs /\ bs[m].prev = n /\ m # n /\ m # b
    BY <1>2, <1>3, <1>4 DEF Right, NextRight
<1>6. t = [c \in DOMAIN bs \ {n} |->
            IF c = b THEN [bs[b] EXCEPT !.size = bs[b].size + HeaderSize + bs[n].size, !.next = m]
            ELSE IF c = m THEN [bs[c] EXCEPT !.prev = b]
            ELSE bs[c]]
    BY DEF Absorb
<1> HIDE DEF t
<1>7. DOMAIN t = DOMAIN bs \ {n} /\ b \in DOMAIN t /\ b # n
    BY <1>3, <1>6
<1>8. /\ t[b].size = bs[b].size + HeaderSize + bs[n].size /\ t[b].free = bs[b].free
      /\ t[b].next = m /\ t[b].prev = bs[b].prev /\ t[b] \in Header
  <2>1. t[b] = [bs[b] EXCEPT !.size = bs[b].size + HeaderSize + bs[n].size, !.next = m]
    BY <1>6, <1>7
  <2>2. bs[b].size + HeaderSize + bs[n].size \in Nat
    BY <1>3, <1>4, HeaderAssumption
  <2> HIDE DEF m, n
  <2> QED
    BY <1>3, <1>4, <2>1, <2>2 DEF Header
<1>9. ASSUME NEW c \in DOMAIN t \ {b}
      PROVE  /\ t[c].size = bs[c].size /\ t[c].free = bs[c].free /\ t[c].next = bs[c].next
             /\ t[c].prev = (IF c = m THEN b ELSE bs[c].prev) /\ t[c] \in Header
  <2>1. bs[c] \in Header /\ c \in DOMAIN bs
    BY <1>0, <1>7, EndNumber
  <2>2. CASE c = m
    <3>1. t[c] = [bs[c] EXCEPT !.prev = b] /\ b \in Nat
        BY <1>3, <1>6, <1>7, <2>2
    <3> QED
        BY <2>1, <2>2, <3>1 DEF Header
  <2>3. CASE c # m
    <3>1. t[c] = bs[c]
        BY <1>6, <1>7, <2>3
    <3> QED
        BY <2>1, <2>3, <3>1
  <2> QED
    BY <2>2, <2>3
<1> HIDE DEF n, m
<1>10. Typed(t)
  <2>1. t = [c \in DOMAIN t |-> t[c]]
    BY <1>6
  <2>2. \A c \in DOMAIN t : t[c] \in Header
    BY <1>8, <1>9
  <2> QED
    BY <1>0, <1>7, <2>1, <2>2 DEF Typed
<1>11. End(t, b) = End(bs, n) /\ \A c \in DOMAIN t \ {b} : End(t, c) = End(bs, c)
    BY <1>3, <1>4, <1>8, <1>9, HeaderAssumption DEF End
<1>12. Disjoint(t)
  <2> SUFFICES ASSUME NEW c \in DOMAIN t, NEW d \in DOMAIN t, c < d PROVE End(t, c) <= d
    BY DEF Disjoint
  <2>1. CASE c = b
    <3>1. n <= d /\ d # n /\ d \in Nat
        BY <1>0, <1>1, <1>7, <1>10, <2>1, EndNumber DEF Disjoint
    <3>2. n < d
        BY <1>4, <3>1
    <3>3. End(bs, n) <= d
        BY <1>0, <1>2, <1>7, <3>2 DEF Disjoint
    <3> QED
        BY <1>11, <2>1, <3>3
  <2>2. CASE c # b
    BY <1>0, <1>7, <1>11, <2>2 DEF Disjoint
  <2> QED
    BY <2>1, <2>2
<1>13. ASSUME NEW c \in DOMAIN t PROVE NextRight(t, c)
  <2>1. CASE c = b
    <3>1. m # Null => m \in DOMAIN t \ {b} /\ t[m].prev = b
        BY <1>5, <1>7, <1>9
    <3> QED
        BY <1>5, <1>8, <1>11, <2>1, <3>1 DEF NextRight
  <2>2. CASE c # b
    <3>1. NextRight(bs, c) /\ t[c].next = bs[c].next /\ End(t, c) = End(bs, c)
        BY <1>7, <1>9, <1>11, <2>2 DEF Right
    <3>2. ASSUME bs[c].next # Null
          PROVE  bs[c].next \in DOMAIN t /\ t[bs[c].next].prev = c
      <4>1. bs[c].next \in DOMAIN bs /\ bs[bs[c].next].prev = c
        BY <3>1, <3>2 DEF NextRight
      <4>2. bs[c].next # n
        BY <1>2, <2>2, <4>1
      <4>3. bs[c].next # m
        BY <1>5, <1>7, <3>2, <4>1
      <4> QED
        BY <1>7, <1>8, <1>9, <4>1, <4>2, <4>3
    <3> QED
        BY <3>1, <3>2 DEF NextRight
  <2> QED
    BY <2>1, <2>2
<1>14. ASSUME NEW c \in DOMAIN t PROVE PrevRight(t, c)
  <2>1. CASE c = b
    <3>1. PrevRight(bs, b)
        BY DEF Right
    <3>2. ASSUME bs[b].prev # Null
          PROVE  bs[b].prev \in DOMAIN t \ {b} /\ bs[bs[b].prev].next = b
      <4>1. bs[b].prev \in DOMAIN bs /\ bs[bs[b].prev].next = b
        BY <3>1, <3>2 DEF PrevRight
      <4>2. bs[b].prev # b
        BY <1>7, <4>1 DEF n
      <4>3. bs[b].prev # n
        BY <1>3, <1>5, <4>1 DEF m, Null
      <4> QED
        BY <1>7, <4>1, <4>2, <4>3
    <3> QED
        BY <1>8, <1>9, <2>1, <3>2 DEF PrevRight
  <2>2. CASE c # b /\ c = m
    BY <1>3, <1>7, <1>8, <1>9, <2>2 DEF PrevRight
  <2>3. CASE c # b /\ c # m
    <3>1. PrevRight(bs, c) /\ t[c].prev = bs[c].prev
        BY <1>7, <1>9, <2>3 DEF Right
    <3>2. ASSUME bs[c].prev # Null
          PROVE  bs[c].prev \in DOMAIN t \ {b} /\ bs[bs[c].prev].next = c
      <4>1. bs[c].prev \in DOMAIN bs /\ bs[bs[c].prev].next = c
        BY <3>1, <3>2 DEF PrevRight
      <4>2. bs[c].prev # b
        BY <1>7, <4>1 DEF n
      <4>3. bs[c].prev # n
        BY <2>3, <4>1 DEF m
      <4> QED
        BY <1>7, <4>1, <4>2, <4>3
    <3> QED
        BY <1>9, <3>1, <3>2 DEF PrevRight
  <2> QED
    BY <2>1, <2>2, <2>3
<1>15. ASSUME NEW c \in DOMAIN t PROVE \E a \in ar : Within(t, a, c)
  <2>1. CASE c = b
    <3>1. PICK a \in ar : Within(bs, a, b)
        BY DEF Right
    <3>2. PICK a2 \in ar : Within(bs, a2, n)
        BY <1>2 DEF Right
    <3>3. a \in Arena /\ a2 \in Arena
        BY DEF Apart
    <3>4. /\ FirstBlock(a) \in Nat /\ ArenaEnd(a) \in Nat /\ ArenaStart(a) \in Nat
          /\ FirstBlock(a2) \in Nat /\ ArenaEnd(a2) \in Nat /\ ArenaStart(a2) \in Nat
          /\ ArenaStart(a) <= FirstBlock(a) /\ ArenaStart(a2) <= FirstBlock(a2)
        BY <3>3, ArenaNumbers
    <3>5. /\ FirstBlock(a) <= b /\ n < ArenaEnd(a)
          /\ FirstBlock(a2) < n /\ End(bs, n) <= ArenaEnd(a2)
      <4>1. n # ArenaEnd(a) /\ FirstBlock(a) <= b /\ n <= ArenaEnd(a)
        BY <1>1, <3>1 DEF Within, n
      <4>2. FirstBlock(a2) <= n /\ n # FirstBlock(a2) /\ End(bs, n) <= ArenaEnd(a2)
        BY <1>2, <1>3, <3>2 DEF Within, Null
      <4> QED
        BY <1>4, <3>4, <4>1, <4>2
    <3>6. a = a2
      <4> SUFFICES ASSUME a # a2 PROVE FALSE
        OBVIOUS
      <4>1. ArenaEnd(a) <= ArenaStart(a2) \/ ArenaEnd(a2) <= ArenaStart(a)
        BY DEF Apart
      <4>2. End(bs, n) \in Nat
        BY <1>0, <1>2, EndNumber
      <4> QED
        BY <1>3, <1>4, <3>4, <3>5, <4>1, <4>2
    <3>7. bs[n].next = Null <=> End(bs, n) = ArenaEnd(a)
        BY <3>2, <3>6 DEF Within
    <3>8. bs[b].prev = Null <=> b = FirstBlock(a)
        BY <3>1 DEF Within
    <3>9. Within(t, a, b)
        BY <1>8, <1>11, <3>5, <3>6, <3>7, <3>8 DEF Within, m
    <3> QED
        BY <2>1, <3>9
  <2>2. CASE c # b
    <3>1. PICK a \in ar : Within(bs, a, c)
        BY <1>7 DEF Right
    <3>2. t[c].next = bs[c].next /\ End(t, c) = End(bs, c)
        BY <1>9, <1>11, <2>2
    <3>3. t[c].prev = Null <=> bs[c].prev = Null
        BY <1>3, <1>4, <1>5, <1>7, <1>9, <2>2, EndNumber, <1>0 DEF Null
    <3> QED
        BY <3>1, <3>2, <3>3 DEF Within
  <2> QED
    BY <2>1, <2>2
<1>16. Right(t, ar)
    BY <1>10, <1>12, <1>13, <1>14, <1>15 DEF Right
<1>17. \A c \in DOMAIN t : t[c].free = bs[c].free
    BY <1>8, <1>9
<1>18. \A c \in DOMAIN t \ {b} : t[c].size = bs[c].size /\ t[c].next = bs[c].next
    BY <1>9
<1> QED
    BY <1>1, <1>2, <1>7, <1>8, <1>16, <1>17, <1>18 DEF t, n, m

\* The only free neighbours are block b and the one before or behind it.
FreeOnlyAt(bs, b) == \A c \in DOMAIN bs : BothFree(bs, c) => c = b \/ bs[c].next = b

\* Afterwards, block b and the one behind it are not both free.
LEMMA Merged ==
    ASSUME NEW bs, NEW ar, Right(bs, ar), Apart(ar), NEW b \in DOMAIN bs \cup {Null}
    PROVE  LET t == Merge(bs, b)
           IN  /\ Right(t, ar) /\ Used(t) = Used(bs)
               /\ \A c \in Used(t) : t[c].size = bs[c].size
               /\ b \in DOMAIN t \cup {Null}
               /\ FreeOnlyAt(bs, b) =>
                    \A c \in DOMAIN t : BothFree(t, c) =>
                        /\ c \in DOMAIN bs /\ BothFree(bs, c)
                        /\ c # b /\ t[c].next = b
<1> DEFINE t == Merge(bs, b)
<1>1. CASE ~Mergeable(bs, b)
  <2>1. t = bs
    BY <1>1 DEF Merge
  <2>2. ASSUME FreeOnlyAt(bs, b), NEW c \in DOMAIN t, BothFree(t, c)
        PROVE  c \in DOMAIN bs /\ BothFree(bs, c) /\ c # b /\ t[c].next = b
    <3>1. c \in DOMAIN bs /\ NextRight(bs, c) /\ BothFree(bs, c) /\ c # Null
        BY <2>1, <2>2, EndNumber DEF Right, Null
    <3>2. c # b
        BY <1>1, <3>1 DEF Mergeable, NextRight, BothFree
    <3> QED
        BY <2>1, <2>2, <3>1, <3>2 DEF FreeOnlyAt
  <2> QED
    BY <2>1, <2>2
<1>2. CASE Mergeable(bs, b)
  <2> DEFINE n == bs[b].next
  <2>1. b \in DOMAIN bs
    BY <1>2 DEF Mergeable
  <2> DEFINE u == Absorb(bs, b)
  <2>0. u = t /\ bs[b].free
    BY <1>2 DEF Mergeable, Merge
  <2>a. /\ Right(u, ar) /\ DOMAIN u \subseteq DOMAIN bs /\ b \in DOMAIN u
        /\ \A c \in DOMAIN bs \ DOMAIN u : c = bs[b].next /\ bs[c].free
        /\ \A c \in DOMAIN u : u[c].free = bs[c].free
        /\ \A c \in DOMAIN u \ {b} : u[c].size = bs[c].size /\ u[c].next = bs[c].next
        /\ u[b].next = bs[bs[b].next].next /\ bs[b].next \in DOMAIN bs \ DOMAIN u
    BY <1>2, <2>1, Absorbed
  <2> HIDE DEF u, t, n
  <2>2. /\ Right(t, ar) /\ n \in DOMAIN bs /\ n # b /\ DOMAIN t = DOMAIN bs \ {n}
        /\ t[b].next = bs[n].next /\ bs[n].free /\ bs[b].free
        /\ \A c \in DOMAIN t : t[c].free = bs[c].free
        /\ \A c \in DOMAIN t \ {b} : t[c].size = bs[c].size /\ t[c].next = bs[c].next
    BY <2>0, <2>a DEF n
  <2> USE DEF n
  <2>3. Used(t) = Used(bs)
    BY <2>2 DEF Used
  <2>4. \A c \in Used(t) : t[c].size = bs[c].size
    BY <2>2 DEF Used
  <2>5. ASSUME FreeOnlyAt(bs, b), NEW c \in DOMAIN t, BothFree(t, c)
        PROVE  c \in DOMAIN bs /\ BothFree(bs, c) /\ c # b /\ t[c].next = b
    <3>1. NextRight(t, c) /\ t[c].next # Null /\ t[c].free /\ t[t[c].next].free
        BY <2>2, <2>5 DEF Right, BothFree
    <3>2. t[c].next \in DOMAIN t /\ bs[t[c].next].free
        BY <2>2, <3>1 DEF NextRight
    <3>3. CASE c = b
      <4>1. BothFree(bs, n)
        BY <2>2, <3>1, <3>2, <3>3 DEF BothFree
      <4>2. bs[n].next = b
        BY <2>2, <2>5, <4>1 DEF FreeOnlyAt
      <4>3. t[b].next = b /\ End(t, b) = b
        BY <2>2, <3>1, <3>3, <4>2 DEF NextRight
      <4>4. b < End(t, b) /\ b \in Nat
        BY <2>2, <3>3, EndNumber DEF Right
      <4> QED
        BY <4>3, <4>4
    <3>4. CASE c # b
      <4>1. t[c].next = bs[c].next /\ c \in DOMAIN bs /\ bs[c].free
        BY <2>2, <3>1, <3>4
      <4>2. BothFree(bs, c)
        BY <3>1, <3>2, <4>1 DEF BothFree
      <4> QED
        BY <2>5, <3>4, <4>1, <4>2 DEF FreeOnlyAt
    <3> QED
        BY <3>3, <3>4
  <2> QED
    BY <2>1, <2>2, <2>3, <2>4, <2>5 DEF t
<1> QED
    BY <1>1, <1>2

\* Releasing a block in use: no other block in use changes.
LEMMA Released ==
    ASSUME NEW bs, NEW ar, Right(bs, ar), Apart(ar), NEW b \in Used(bs)
    PROVE  LET t == Release(bs, b)
           IN  /\ Right(t, ar) /\ Used(t) = Used(bs) \ {b}
               /\ \A c \in Used(t) : t[c].size = bs[c].size
               /\ Packed(bs) => Packed(t)
<1> DEFINE s == [bs EXCEPT ![b].free = TRUE]
           m == Merge(s, b)
           p == m[b].prev
           t == Merge(m, p)
<1>1. b \in DOMAIN bs /\ ~bs[b].free
    BY DEF Used
<1>2. /\ Right(s, ar) /\ DOMAIN s = DOMAIN bs /\ s[b].free = TRUE
      /\ \A c \in DOMAIN bs \ {b} : s[c].free = bs[c].free
      /\ \A c \in DOMAIN bs : s[c].size = bs[c].size /\ s[c].next = bs[c].next
  <2>1. TRUE \in BOOLEAN
    OBVIOUS
  <2> QED
    BY <1>1, <2>1, Marked
<1>3. Release(bs, b) = t
    BY DEF Release
<1> HIDE DEF s
<1>4. Used(s) = Used(bs) \ {b} /\ \A c \in Used(s) : s[c].size = bs[c].size
    BY <1>2 DEF Used
<1>5. ASSUME Packed(bs) PROVE FreeOnlyAt(s, b)
  <2> SUFFICES ASSUME NEW c \in DOMAIN s, BothFree(s, c), c # b, s[c].next # b PROVE FALSE
    BY DEF FreeOnlyAt
  <2>1. c \in DOMAIN bs /\ bs[c].next = s[c].next /\ s[c].next \in DOMAIN bs
    BY <1>2 DEF Right, NextRight, BothFree
  <2>2. BothFree(bs, c)
    BY <1>2, <2>1 DEF BothFree
  <2> QED
    BY <1>5, <2>1, <2>2 DEF Packed
<1>6. /\ Right(m, ar) /\ Used(m) = Used(s) /\ b \in DOMAIN m
      /\ \A c \in Used(m) : m[c].size = s[c].size
      /\ FreeOnlyAt(s, b) => \A c \in DOMAIN m : BothFree(m, c) => c # b /\ m[c].next = b
  <2>1. b \in DOMAIN s \cup {Null} /\ b # Null
    BY <1>1, <1>2, EndNumber DEF Right, Null
  <2> QED
    BY <1>2, <2>1, Merged
<1> HIDE DEF m
<1>7. p \in DOMAIN m \cup {Null}
    BY <1>6 DEF Right, PrevRight
<1> HIDE DEF p
<1>8. /\ Right(t, ar) /\ Used(t) = Used(m) /\ \A c \in Used(t) : t[c].size = m[c].size
      /\ FreeOnlyAt(m, p) =>
            \A c \in DOMAIN t : BothFree(t, c) => c \in DOMAIN m /\ BothFree(m, c) /\ c # p
    BY <1>6, <1>7, Merged
<1>9. ASSUME FreeOnlyAt(s, b), NEW c \in DOMAIN m, BothFree(m, c) PROVE c = p
  <2>1. m[c].next = b /\ NextRight(m, c) /\ m[c].next # Null
    BY <1>6, <1>9 DEF Right, BothFree
  <2> QED
    BY <2>1 DEF NextRight, p
<1> HIDE DEF t
<1>10. Packed(bs) => Packed(t)
    BY <1>5, <1>8, <1>9 DEF Packed, FreeOnlyAt
<1>11. Used(t) = Used(bs) \ {b} /\ \A c \in Used(t) : t[c].size = bs[c].size
    BY <1>4, <1>6, <1>8
<1> QED
    BY <1>3, <1>8, <1>10, <1>11 DEF t

-----------------------------------------------------------------------------
(* Arenas. *)

ArenaRun(a) == a.first .. a.first + a.pages - 1

\* The arenas ar, a set, have pages of their own, all owned by the heap.
Placed(ar, own) ==
    /\ ar \subseteq Arena
    /\ \A a \in ar : ArenaRun(a) \subseteq own
    /\ \A a, c \in ar : a # c => ArenaRun(a) \cap ArenaRun(c) = {}

LEMMA PlacedApart ==
    ASSUME NEW ar, NEW own, Placed(ar, own)
    PROVE  Apart(ar)
<1> SUFFICES ASSUME NEW a \in ar, NEW c \in ar, a # c
             PROVE  ArenaEnd(a) <= ArenaStart(c) \/ ArenaEnd(c) <= ArenaStart(a)
    BY DEF Apart, Placed
<1>1. a \in Arena /\ c \in Arena /\ ArenaRun(a) \cap ArenaRun(c) = {}
    BY DEF Placed
<1>2. /\ a.first \in Nat /\ a.pages \in Nat \ {0} /\ c.first \in Nat /\ c.pages \in Nat \ {0}
      /\ PageSize \in Nat
    BY <1>1, PageAssumption, PageSizeAssumption DEF Arena
<1>3. a.first \notin ArenaRun(c) /\ c.first \notin ArenaRun(a)
    BY <1>1, <1>2 DEF ArenaRun
<1>4. a.first + a.pages <= c.first \/ c.first + c.pages <= a.first
    BY <1>2, <1>3 DEF ArenaRun
<1>5. ASSUME NEW x \in Nat, NEW y \in Nat, x <= y PROVE x * PageSize <= y * PageSize
    BY <1>2, <1>5
<1>6. a.first + a.pages \in Nat /\ c.first + c.pages \in Nat
    BY <1>2
<1>7. CASE a.first + a.pages <= c.first
  <2>1. (a.first + a.pages) * PageSize <= c.first * PageSize
    BY <1>2, <1>5, <1>6, <1>7
  <2> QED
    BY <2>1 DEF ArenaStart, ArenaEnd
<1>8. CASE c.first + c.pages <= a.first
  <2>1. (c.first + c.pages) * PageSize <= a.first * PageSize
    BY <1>2, <1>5, <1>6, <1>8
  <2> QED
    BY <2>1 DEF ArenaStart, ArenaEnd
<1> QED
    BY <1>4, <1>7, <1>8

\* A run of pages nobody owned makes one more arena.
LEMMA PlacedNew ==
    ASSUME NEW ar, NEW own, Placed(ar, own), NEW a \in Arena, ArenaRun(a) \cap own = {}
    PROVE  Placed(ar \cup {a}, own \cup ArenaRun(a)) /\ a \notin ar
<1>1. a.first \in ArenaRun(a)
  <2>1. a.first \in Nat /\ a.pages \in Nat \ {0}
    BY PageAssumption DEF Arena
  <2> QED
    BY <2>1 DEF ArenaRun
<1>2. a \notin ar
    BY <1>1 DEF Placed
<1>3. ASSUME NEW c \in ar PROVE ArenaRun(a) \cap ArenaRun(c) = {}
    BY DEF Placed
<1> HIDE DEF ArenaRun
<1> QED
    BY <1>2, <1>3 DEF Placed

LEMMA ArenaAdded ==
    ASSUME NEW bs, NEW ar, Right(bs, ar), NEW a \in Arena, a \notin ar, Apart(ar \cup {a}),
           NEW size \in Nat, ArenaHeader + HeaderSize + size <= a.pages * PageSize
    PROVE  LET t == WithArena(bs, a)
               f == FirstBlock(a)
           IN  /\ Right(t, ar \cup {a}) /\ f \in DOMAIN t /\ t[f].free /\ size <= t[f].size
               /\ Used(t) = Used(bs) /\ \A c \in Used(bs) : t[c].size = bs[c].size
               /\ Packed(bs) => Packed(t)
<1> DEFINE f == FirstBlock(a)
           t == WithArena(bs, a)
           room == a.pages * PageSize - ArenaHeader - HeaderSize
<1>1. /\ ArenaStart(a) \in Nat /\ f \in Nat \ {0} /\ ArenaEnd(a) \in Nat /\ ArenaStart(a) <= f
      /\ ArenaEnd(a) = ArenaStart(a) + a.pages * PageSize /\ f = ArenaStart(a) + ArenaHeader
    BY ArenaNumbers DEF FirstBlock
<1>2. ArenaHeader \in Nat /\ HeaderSize \in Nat \ {0} /\ a.pages * PageSize \in Nat
  <2>1. a.pages \in Nat /\ PageSize \in Nat
    BY PageSizeAssumption DEF Arena
  <2> QED
    BY <2>1, HeaderAssumption
<1>3. room \in Nat /\ size <= room /\ f + HeaderSize + room = ArenaEnd(a)
    BY <1>1, <1>2
<1>4. Typed(bs) /\ Disjoint(bs)
    BY DEF Right
<1>5. t = [b \in DOMAIN bs \cup {f} |->
            IF b = f THEN [size |-> room, free |-> TRUE, next |-> Null, prev |-> Null]
            ELSE bs[b]]
    BY DEF WithArena
<1> HIDE DEF room, f, t
\* The blocks there were lie outside the arena.
<1>6. ASSUME NEW c \in DOMAIN bs
      PROVE  /\ c \in Nat /\ End(bs, c) \in Nat /\ c < End(bs, c)
             /\ End(bs, c) <= ArenaStart(a) \/ ArenaEnd(a) <= c
  <2>1. PICK d \in ar : Within(bs, d, c)
    BY DEF Right
  <2>2. /\ d \in Arena /\ a # d
        /\ ArenaEnd(a) <= ArenaStart(d) \/ ArenaEnd(d) <= ArenaStart(a)
    BY DEF Apart
  <2>3. /\ ArenaStart(d) \in Nat /\ FirstBlock(d) \in Nat /\ ArenaEnd(d) \in Nat
        /\ ArenaStart(d) <= FirstBlock(d)
    BY <2>2, ArenaNumbers
  <2>4. c \in Nat /\ End(bs, c) \in Nat /\ c < End(bs, c)
    BY <1>4, EndNumber
  <2> QED
    BY <1>1, <2>1, <2>2, <2>3, <2>4 DEF Within
<1>7. f \notin DOMAIN bs
    BY <1>1, <1>2, <1>3, <1>6
<1>8. /\ DOMAIN t = DOMAIN bs \cup {f}
      /\ t[f] = [size |-> room, free |-> TRUE, next |-> Null, prev |-> Null]
      /\ \A c \in DOMAIN bs : t[c] = bs[c]
    BY <1>5, <1>7
<1>9. /\ t[f].size = room /\ t[f].free = TRUE /\ t[f].next = Null /\ t[f].prev = Null
      /\ t[f] \in Header
    BY <1>3, <1>8 DEF Header, Null
<1>10. End(t, f) = ArenaEnd(a) /\ \A c \in DOMAIN bs : End(t, c) = End(bs, c)
    BY <1>3, <1>8, <1>9 DEF End
<1>11. Typed(t)
  <2>1. t = [c \in DOMAIN t |-> t[c]]
    BY <1>5
  <2>2. \A c \in DOMAIN t : t[c] \in Header
    BY <1>4, <1>8, <1>9 DEF Typed
  <2>3. DOMAIN t \subseteq Nat \ {0}
    BY <1>1, <1>4, <1>8 DEF Typed
  <2> QED
    BY <2>1, <2>2, <2>3 DEF Typed
<1>12. Disjoint(t)
  <2> SUFFICES ASSUME NEW c \in DOMAIN t, NEW d \in DOMAIN t, c < d PROVE End(t, c) <= d
    BY DEF Disjoint
  <2>1. CASE c = f
    <3>1. d \in DOMAIN bs
        BY <1>1, <1>8, <2>1
    <3> QED
        BY <1>1, <1>6, <1>10, <2>1, <3>1
  <2>2. CASE d = f
    <3>1. c \in DOMAIN bs
        BY <1>1, <1>8, <2>2
    <3> QED
        BY <1>1, <1>2, <1>3, <1>6, <1>10, <2>2, <3>1
  <2>3. CASE c # f /\ d # f
    BY <1>4, <1>8, <1>10, <2>3 DEF Disjoint
  <2> QED
    BY <2>1, <2>2, <2>3
<1>13. ASSUME NEW c \in DOMAIN t PROVE NextRight(t, c) /\ PrevRight(t, c)
  <2>1. CASE c = f
    BY <1>9, <2>1 DEF NextRight, PrevRight
  <2>2. CASE c \in DOMAIN bs
    BY <1>8, <1>10, <2>2 DEF Right, NextRight, PrevRight
  <2> QED
    BY <1>8, <2>1, <2>2
<1>14. ASSUME NEW c \in DOMAIN t PROVE \E d \in ar \cup {a} : Within(t, d, c)
  <2>1. CASE c = f
    <3>1. Within(t, a, f)
        BY <1>1, <1>9, <1>10 DEF Within, f
    <3> QED
        BY <2>1, <3>1
  <2>2. CASE c \in DOMAIN bs
    <3>1. PICK d \in ar : Within(bs, d, c)
        BY <2>2 DEF Right
    <3>2. Within(t, d, c)
        BY <1>8, <1>10, <2>2, <3>1 DEF Within
    <3> QED
        BY <3>2
  <2> QED
    BY <1>8, <2>1, <2>2
<1>15. Right(t, ar \cup {a})
    BY <1>11, <1>12, <1>13, <1>14 DEF Right
<1>16. Used(t) = Used(bs) /\ \A c \in Used(bs) : t[c].size = bs[c].size
    BY <1>8, <1>9 DEF Used
<1>17. ASSUME Packed(bs) PROVE Packed(t)
  <2> SUFFICES ASSUME NEW c \in DOMAIN t, BothFree(t, c) PROVE FALSE
    BY DEF Packed
  <2>1. c \in DOMAIN bs
    BY <1>8, <1>9 DEF BothFree
  <2>2. bs[c].next # Null /\ bs[c].next \in DOMAIN bs
    BY <1>8, <2>1 DEF BothFree, Right, NextRight
  <2>3. BothFree(bs, c)
    BY <1>8, <2>1, <2>2 DEF BothFree
  <2> QED
    BY <1>17, <2>1, <2>3 DEF Packed
<1> QED
    BY <1>3, <1>8, <1>9, <1>15, <1>16, <1>17 DEF t, f

-----------------------------------------------------------------------------
(* The inductive invariant. *)

Ar == {arenas[i] : i \in DOMAIN arenas}

\* What clients hold is what is in use in bs, each block long enough.
HeldRight(bs) ==
    /\ held \in [DOMAIN held -> Request] /\ DOMAIN held = Used(bs)
    /\ \A b \in DOMAIN held : held[b] <= bs[b].size

\* The heap is built on pages of its own, and the headers are right and merged.
IInv ==
    /\ pool \subseteq Page /\ owned \subseteq pool
    /\ arenas \in Seq(Arena) /\ Placed(Ar, owned)
    /\ Right(blocks, Ar) /\ Packed(blocks) /\ HeldRight(blocks)

\* kmalloc() takes a block, and the block it replaces is freed.
LEMMA Replaced ==
    ASSUME NEW bs, NEW ar, Right(bs, ar), Apart(ar), Packed(bs), HeldRight(bs),
           NEW b \in DOMAIN bs, bs[b].free,
           NEW size \in Request, ALIGN16(size) <= bs[b].size,
           NEW old \in DOMAIN held \cup {Null}, Replace(bs, b, size, old)
    PROVE  /\ Right(blocks', ar) /\ Packed(blocks') /\ HeldRight(blocks)'
           /\ b \notin DOMAIN held /\ b \in DOMAIN blocks'
           /\ ALIGN16(size) <= blocks'[b].size
<1> DEFINE n == ALIGN16(size)
           s == Take(bs, b, n)
           t == Free(s, old)
<1>1. size \in Nat /\ n \in Nat /\ size <= n /\ ar \subseteq Arena
    BY RequestAssumption, Rounding DEF Apart
<1>2. blocks' = t /\ held' = HeldAfter(b, size, old)
    BY DEF Replace
<1>3. /\ Right(s, ar) /\ Used(s) = Used(bs) \cup {b} /\ n <= s[b].size
      /\ \A c \in Used(bs) : s[c].size = bs[c].size
      /\ Packed(s)
  <2> HIDE DEF n
  <2> QED
    BY <1>1, Taken DEF n
<1>4. DOMAIN held = Used(bs) /\ b \notin Used(bs) /\ Null \notin Used(bs) /\ b # Null
    BY EndNumber DEF HeldRight, Used, Right, Null
<1> HIDE DEF s, n
<1>5. /\ Right(t, ar) /\ Used(t) = Used(s) \ {old} /\ Packed(t)
      /\ \A c \in Used(t) : t[c].size = s[c].size
  <2>1. CASE old = Null
    <3>1. t = s
        BY <2>1 DEF Free
    <3> QED
        BY <1>3, <1>4, <2>1, <3>1
  <2>2. CASE old # Null
    <3>1. t = Release(s, old) /\ old \in Used(s)
        BY <1>3, <1>4, <2>2 DEF Free
    <3> HIDE DEF t
    <3> QED
        BY <1>3, <3>1, Released
  <2> QED
    BY <2>1, <2>2
<1> HIDE DEF t
<1>6. Used(t) = (DOMAIN held \ {old}) \cup {b}
    BY <1>3, <1>4, <1>5
<1>7. DOMAIN held' = Used(t)
    BY <1>2, <1>6 DEF HeldAfter
<1>8. ASSUME NEW c \in DOMAIN held' PROVE held'[c] \in Request /\ held'[c] <= t[c].size
  <2>1. CASE c = b
    <3>1. held'[c] = size
        BY <1>2, <1>6, <1>7, <2>1 DEF HeldAfter
    <3>2. t[b].size = s[b].size /\ t[b].size \in Nat
        BY <1>5, <1>7, <2>1, EndNumber DEF Right, Used
    <3>3. s[b].size \in Nat
        BY <3>2
    <3> QED
        BY <1>1, <1>3, <2>1, <3>1, <3>2
  <2>2. CASE c # b
    <3>1. c \in DOMAIN held /\ held'[c] = held[c]
        BY <1>2, <1>6, <1>7, <2>2 DEF HeldAfter
    <3>2. t[c].size = bs[c].size
        BY <1>3, <1>4, <1>5, <1>7, <3>1
    <3> QED
        BY <3>1, <3>2 DEF HeldRight
  <2> QED
    BY <2>1, <2>2
<1>9. held' \in [DOMAIN held' -> Request]
  <2>1. held' = [c \in DOMAIN held' |-> held'[c]]
    BY <1>2 DEF HeldAfter
  <2> QED
    BY <1>8, <2>1
<1>10. HeldRight(blocks)'
    BY <1>2, <1>7, <1>8, <1>9 DEF HeldRight
<1>11. b \in DOMAIN t /\ n <= t[b].size
  <2>1. b \in Used(t)
    BY <1>6
  <2>2. t[b].size = s[b].size
    BY <1>5, <2>1
  <2> QED
    BY <1>3, <2>1, <2>2 DEF Used
<1> QED
    BY <1>2, <1>4, <1>5, <1>10, <1>11 DEF n

\* What both ways of allocating need of the invariant.
LEMMA Allocated ==
    ASSUME IInv, NEW size \in Request, NEW old \in DOMAIN held \cup {Null},
           FromArenas(size, old) \/ FromNewArena(size, old)
    PROVE  \E bs : \E b \in DOMAIN bs :
               /\ IInv' /\ Right(bs, Ar') /\ Apart(Ar') /\ HeldRight(bs)
               /\ bs[b].free /\ ALIGN16(size) <= bs[b].size
               /\ \A c \in Used(blocks) : bs[c].size = blocks[c].size
               /\ Replace(bs, b, size, old)
               /\ b \notin DOMAIN held /\ b \in DOMAIN blocks'
               /\ ALIGN16(size) <= blocks'[b].size
<1>1. /\ Right(blocks, Ar) /\ Packed(blocks) /\ HeldRight(blocks) /\ Placed(Ar, owned)
      /\ arenas \in Seq(Arena)
    BY DEF IInv
<1>2. size \in Nat /\ ALIGN16(size) \in Nat
    BY RequestAssumption, Rounding
<1>4. CASE FromArenas(size, old)
  <2>1. PICK b \in DOMAIN blocks : /\ FirstFit(b, ALIGN16(size))
                                   /\ Replace(blocks, b, size, old)
    BY <1>4 DEF FromArenas
  <2>2. blocks[b].free /\ ALIGN16(size) <= blocks[b].size
    BY <1>1, <1>2, <2>1, EndNumber DEF FirstFit, Fits, Right
  <2>3. UNCHANGED <<pool, owned, arenas>>
    BY <1>4 DEF FromArenas
  <2>4. Ar' = Ar
    BY <2>3 DEF Ar
  <2>5. Apart(Ar)
    BY <1>1, PlacedApart
  <2>6. /\ Right(blocks', Ar) /\ Packed(blocks') /\ HeldRight(blocks)'
        /\ b \notin DOMAIN held /\ b \in DOMAIN blocks'
        /\ ALIGN16(size) <= blocks'[b].size
    BY <1>1, <2>1, <2>2, <2>5, Replaced
  <2>7. IInv'
    BY <1>1, <2>3, <2>4, <2>6 DEF IInv
  <2> QED
    BY <1>1, <2>1, <2>2, <2>4, <2>5, <2>6, <2>7
<1>5. CASE FromNewArena(size, old)
  <2>1. PICK first \in Page :
            LET a == [first |-> first, pages |-> ArenaPages(ALIGN16(size))] IN
            /\ Pages!Grant(first, first + a.pages - 1)
            /\ arenas' = <<a>> \o arenas
            /\ Replace(WithArena(blocks, a), FirstBlock(a), size, old)
    BY <1>5 DEF FromNewArena
  <2> DEFINE a == [first |-> first, pages |-> ArenaPages(ALIGN16(size))]
             bs == WithArena(blocks, a)
             b == FirstBlock(a)
  <2>2. /\ a \in Arena /\ ArenaHeader + HeaderSize + ALIGN16(size) <= a.pages * PageSize
    BY <1>2, ArenaRoom DEF Arena
  <2>3. /\ Pages!Grant(first, first + a.pages - 1) /\ arenas' = <<a>> \o arenas
        /\ Replace(bs, b, size, old) /\ a.first = first
    BY <2>1
  <2> HIDE DEF a
  <2>4. /\ ArenaRun(a) \subseteq pool \ owned /\ owned' = owned \cup ArenaRun(a)
        /\ pool' = pool
    BY <2>3 DEF Pages!Grant, ArenaRun
  <2>5. arenas' \in Seq(Arena) /\ Ar' = Ar \cup {a}
    <3>1. <<a>> \in Seq(Arena) /\ Len(<<a>>) = 1 /\ <<a>>[1] = a
        BY <2>2
    <3>2. /\ arenas' \in Seq(Arena) /\ Len(arenas') = Len(arenas) + 1
          /\ arenas'[1] = a /\ \A i \in 1 .. Len(arenas) : arenas'[i + 1] = arenas[i]
        BY <1>1, <2>2, <2>3
    <3>3. DOMAIN arenas = 1 .. Len(arenas) /\ DOMAIN arenas' = 1 .. Len(arenas) + 1
          /\ Len(arenas) \in Nat
        BY <1>1, <3>2
    <3>4. ASSUME NEW x \in Ar' PROVE x \in Ar \cup {a}
      <4>1. PICK i \in 1 .. Len(arenas) + 1 : x = arenas'[i]
        BY <3>3, <3>4 DEF Ar
      <4>2. CASE i = 1
        BY <3>2, <4>1, <4>2
      <4>3. CASE i # 1
        <5>1. i - 1 \in 1 .. Len(arenas) /\ (i - 1) + 1 = i
            BY <3>3, <4>3
        <5>2. x = arenas[i - 1]
            BY <3>2, <4>1, <5>1
        <5> QED
            BY <3>3, <5>1, <5>2 DEF Ar
      <4> QED
        BY <4>2, <4>3
    <3>5. a \in Ar'
        BY <3>2, <3>3 DEF Ar
    <3>6. ASSUME NEW i \in DOMAIN arenas PROVE arenas[i] \in Ar'
      <4>1. i + 1 \in DOMAIN arenas' /\ arenas'[i + 1] = arenas[i]
        BY <3>2, <3>3
      <4> QED
        BY <4>1 DEF Ar
    <3>7. Ar \subseteq Ar'
        BY <3>6 DEF Ar
    <3> QED
        BY <3>2, <3>4, <3>5, <3>7
  <2>6. Placed(Ar', owned') /\ a \notin Ar
    <3>1. ArenaRun(a) \cap owned = {}
        BY <2>4
    <3> QED
        BY <1>1, <2>2, <2>4, <2>5, <3>1, PlacedNew
  <2>7. Apart(Ar')
    BY <2>6, PlacedApart
  <2>8. /\ Right(bs, Ar') /\ b \in DOMAIN bs /\ bs[b].free /\ ALIGN16(size) <= bs[b].size
        /\ Used(bs) = Used(blocks) /\ \A c \in Used(blocks) : bs[c].size = blocks[c].size
        /\ Packed(bs)
    BY <1>1, <1>2, <2>2, <2>5, <2>6, <2>7, ArenaAdded
  <2> HIDE DEF bs, b
  <2>9. HeldRight(bs)
    BY <1>1, <2>8 DEF HeldRight
  <2>10. /\ Right(blocks', Ar') /\ Packed(blocks') /\ HeldRight(blocks)'
         /\ b \notin DOMAIN held /\ b \in DOMAIN blocks'
         /\ ALIGN16(size) <= blocks'[b].size
    BY <2>3, <2>7, <2>8, <2>9, Replaced
  <2>11. IInv'
    <3>1. pool' \subseteq Page /\ owned' \subseteq pool'
        BY <2>4 DEF IInv
    <3> QED
        BY <2>5, <2>6, <2>10, <3>1 DEF IInv
  <2> QED
    BY <2>3, <2>7, <2>8, <2>9, <2>10, <2>11
<1> QED
    BY <1>4, <1>5

LEMMA FreeStep ==
    ASSUME IInv, NEW b, kfree(b) PROVE IInv'
<1>1. /\ Right(blocks, Ar) /\ Packed(blocks) /\ HeldRight(blocks) /\ Apart(Ar)
    BY PlacedApart DEF IInv
<1>2. b \in Used(blocks) /\ b # Null
    BY <1>1, EndNumber DEF kfree, HeldRight, Used, Right, Null
<1>3. blocks' = Release(blocks, b) /\ held' = [c \in DOMAIN held \ {b} |-> held[c]]
    BY <1>2 DEF kfree, Free
<1>4. /\ Right(blocks', Ar) /\ Used(blocks') = Used(blocks) \ {b} /\ Packed(blocks')
      /\ \A c \in Used(blocks') : blocks'[c].size = blocks[c].size
    BY <1>1, <1>2, <1>3, Released
<1>5. UNCHANGED <<pool, owned, arenas>> /\ Ar' = Ar
    BY DEF kfree, Ar
<1>6. HeldRight(blocks)'
    BY <1>1, <1>3, <1>4 DEF HeldRight
<1> QED
    BY <1>4, <1>5, <1>6 DEF IInv

LEMMA InPlaceStep ==
    ASSUME IInv, NEW b, NEW size \in Request, krealloc_InPlace(b, size) PROVE IInv'
<1>1. UNCHANGED <<pool, owned, arenas, blocks>> /\ held' = [held EXCEPT ![b] = size]
    BY DEF krealloc_InPlace
<1>2. HeldRight(blocks) /\ Right(blocks, Ar) /\ b \in DOMAIN held /\ blocks[b].size >= size
    BY DEF IInv, krealloc_InPlace, Suffices
<1>3. size <= blocks[b].size
    BY <1>2, RequestAssumption, EndNumber DEF HeldRight, Used, Right
<1>4. HeldRight(blocks)'
    BY <1>1, <1>2, <1>3 DEF HeldRight
<1>5. Ar' = Ar
    BY <1>1 DEF Ar
<1> QED
    BY <1>1, <1>4, <1>5 DEF IInv

LEMMA InitInv == Init => IInv
<1> SUFFICES ASSUME Init PROVE IInv
    OBVIOUS
<1>1. /\ pool \subseteq Page /\ owned = {} /\ arenas = << >>
      /\ DOMAIN blocks = {} /\ DOMAIN held = {}
      /\ blocks \in [DOMAIN blocks -> Header] /\ held \in [DOMAIN held -> Request]
    BY DEF Init, Pages!Init
<1>2. Ar = {} /\ arenas \in Seq(Arena)
    BY <1>1 DEF Ar
<1>3. Placed(Ar, owned)
    BY <1>2 DEF Placed
<1>4. Right(blocks, Ar)
    BY <1>1 DEF Right, Typed, Disjoint
<1>5. Packed(blocks) /\ HeldRight(blocks)
    BY <1>1 DEF Packed, HeldRight, Used
<1> QED
    BY <1>1, <1>2, <1>3, <1>4, <1>5 DEF IInv

LEMMA Step ==
    ASSUME IInv, [Next]_vars PROVE IInv'
<1>1. ASSUME NEW size \in Request, kmalloc(size) PROVE IInv'
  <2>1. FromArenas(size, Null) \/ FromNewArena(size, Null)
    BY <1>1 DEF kmalloc
  <2> QED
    BY <2>1, Allocated
<1>2. ASSUME NEW b \in DOMAIN held, kfree(b) PROVE IInv'
    BY <1>2, FreeStep
<1>3. ASSUME NEW b \in DOMAIN held, NEW size \in Request, krealloc_InPlace(b, size) PROVE IInv'
    BY <1>3, InPlaceStep
<1>4. ASSUME NEW b \in DOMAIN held, NEW size \in Request, krealloc_Move(b, size) PROVE IInv'
  <2>1. FromArenas(size, b) \/ FromNewArena(size, b)
    BY <1>4 DEF krealloc_Move
  <2> QED
    BY <2>1, Allocated
<1>5. CASE UNCHANGED vars
    BY <1>5 DEF vars, IInv, Ar, HeldRight
<1> QED
    BY <1>1, <1>2, <1>3, <1>4, <1>5 DEF Next

THEOREM InvariantHolds == Spec => []IInv
<1>1. IInv /\ [Next]_vars => IInv'
    BY Step
<1> QED
    BY <1>1, InitInv, PTL DEF Spec

-----------------------------------------------------------------------------
(* The heap is well formed. *)

\* The headers, payloads and links of all blocks agree with each other, with the
\* arenas they were cut from and with what clients hold.
THEOREM HeapStaysExact == Spec => []HeapExact
<1>1. ASSUME IInv PROVE HeapExact
  <2>1. Right(blocks, Ar) /\ HeldRight(blocks) /\ Typed(blocks)
    BY <1>1 DEF IInv, Right
  <2>2. TypeOK
    <3>1. blocks \in [DOMAIN blocks -> Header] /\ DOMAIN blocks \subseteq Nat \ {0}
        BY <2>1 DEF Typed
    <3>2. held \in [DOMAIN held -> Request] /\ DOMAIN held \subseteq DOMAIN blocks
        BY <2>1 DEF HeldRight, Used
    <3>3. arenas \in Seq([first : Page, pages : Nat \ {0}])
        BY <1>1 DEF IInv, Arena
    <3> QED
        BY <1>1, <3>1, <3>2, <3>3 DEF IInv, TypeOK
  <2>3. FreeExact
    BY <2>1 DEF FreeExact, HeldRight, Used
  <2>4. BlocksDisjoint
    BY <2>1 DEF Right, Disjoint, BlocksDisjoint
  <2>5. ASSUME NEW b \in DOMAIN blocks PROVE Linked(b)
    <3>1. NextRight(blocks, b) /\ PrevRight(blocks, b)
        BY <2>1 DEF Right
    <3>2. PICK a \in Ar : Within(blocks, a, b)
        BY <2>1 DEF Right
    <3>3. PICK i \in DOMAIN arenas : a = arenas[i]
        BY DEF Ar
    <3> QED
        BY <3>1, <3>2, <3>3 DEF Linked, NextRight, PrevRight, Within
  <2> QED
    BY <2>2, <2>3, <2>4, <2>5 DEF HeapExact, ChainsExact
<1> QED
    BY <1>1, InvariantHolds, PTL

\* Free neighbours are merged whenever a block is freed.
THEOREM NoFreeNeighbours == Spec => []Coalesced
<1>1. ASSUME IInv PROVE Coalesced
    BY <1>1 DEF IInv, Packed, BothFree, Coalesced
<1> QED
    BY <1>1, InvariantHolds, PTL

\* krealloc() copies as many bytes as the old block has: the new one has them too.
THEOREM CopyNeverOverruns == Spec => CopyFits
<1> DEFINE Fitting == \A old \in DOMAIN held \ DOMAIN held', new \in DOMAIN held' \ DOMAIN held :
                          blocks[old].size <= blocks'[new].size
<1>1. ASSUME IInv, [Next]_vars PROVE [Fitting]_vars
  <2> SUFFICES ASSUME NEW old \in DOMAIN held \ DOMAIN held',
                      NEW new \in DOMAIN held' \ DOMAIN held
               PROVE  blocks[old].size <= blocks'[new].size
    OBVIOUS
  <2>1. ASSUME NEW size \in Request, NEW o \in DOMAIN held \cup {Null},
               FromArenas(size, o) \/ FromNewArena(size, o)
        PROVE  old = o /\ ALIGN16(size) <= blocks'[new].size
    <3>1. PICK b : /\ held' = HeldAfter(b, size, o) /\ ALIGN16(size) <= blocks'[b].size
        BY <1>1, <2>1, Allocated DEF Replace
    <3>2. DOMAIN held' = (DOMAIN held \ {o}) \cup {b}
        BY <3>1 DEF HeldAfter
    <3> QED
        BY <3>1, <3>2
  <2>2. ASSUME NEW size \in Request, kmalloc(size) PROVE FALSE
    <3>1. old = Null
        BY <2>1, <2>2 DEF kmalloc
    <3> QED
        BY <1>1, <3>1, EndNumber DEF IInv, HeldRight, Used, Right, Null
  <2>3. ASSUME NEW b \in DOMAIN held, kfree(b) PROVE FALSE
    BY <2>3 DEF kfree
  <2>4. ASSUME NEW b \in DOMAIN held, NEW size \in Request, krealloc_InPlace(b, size)
        PROVE  FALSE
    BY <2>4 DEF krealloc_InPlace
  <2>5. ASSUME NEW b \in DOMAIN held, NEW size \in Request, krealloc_Move(b, size)
        PROVE  blocks[old].size <= blocks'[new].size
    <3>1. old = b /\ ALIGN16(size) <= blocks'[new].size /\ ~(blocks[b].size >= size)
        BY <2>1, <2>5 DEF krealloc_Move, Suffices
    <3>2. size \in Nat /\ ALIGN16(size) \in Nat /\ size <= ALIGN16(size)
        BY RequestAssumption, Rounding
    <3>3. blocks[b].size \in Nat
        BY <1>1, EndNumber DEF IInv, HeldRight, Used, Right
    <3>4. IInv'
        BY <1>1, Step
    <3>5. blocks'[new].size \in Nat
      <4>1. Typed(blocks') /\ new \in DOMAIN blocks'
        BY <3>4 DEF IInv, HeldRight, Used, Right
      <4> QED
        BY <4>1, EndNumber
    <3> QED
        BY <3>1, <3>2, <3>3, <3>5
  <2>6. CASE UNCHANGED vars
    BY <2>6 DEF vars
  <2> QED
    BY <1>1, <2>2, <2>3, <2>4, <2>5, <2>6 DEF Next
<1>2. IInv /\ [Next]_vars => [Fitting]_vars
    BY <1>1
<1> QED
    BY <1>2, InvariantHolds, PTL DEF Spec, CopyFits

-----------------------------------------------------------------------------
(* The abstract heap. *)

\* The payloads of two blocks share no byte.
LEMMA PayloadsApart ==
    ASSUME NEW bs, Typed(bs), Disjoint(bs), NEW b \in DOMAIN bs, NEW c \in DOMAIN bs, b # c,
           NEW n \in Nat, n <= bs[b].size, NEW m \in Nat, m <= bs[c].size
    PROVE  Abstract!Bytes(b + HeaderSize, n) \cap Abstract!Bytes(c + HeaderSize, m) = {}
<1>1. /\ b \in Nat /\ c \in Nat /\ bs[b].size \in Nat /\ bs[c].size \in Nat
      /\ b + HeaderSize + bs[b].size = End(bs, b) /\ c + HeaderSize + bs[c].size = End(bs, c)
    BY EndNumber
<1>2. HeaderSize \in Nat
    BY HeaderAssumption
<1>3. End(bs, b) <= c \/ End(bs, c) <= b
    BY <1>1 DEF Disjoint
<1> QED
    BY <1>1, <1>2, <1>3 DEF Abstract!Bytes

\* A block lies on the pages of its arena.
LEMMA InSpace ==
    ASSUME NEW bs, NEW ar, Right(bs, ar), NEW own, Placed(ar, own), own \subseteq Page,
           NEW b \in DOMAIN bs, 1 <= bs[b].size
    PROVE  b + HeaderSize \in AddressSpace
<1>1. PICK a \in ar : Within(bs, a, b)
    BY DEF Right
<1>2. a \in Arena /\ ArenaRun(a) \subseteq Page
    BY DEF Placed
<1> DEFINE x == b + HeaderSize
           p == x \div PageSize
           o == x - p * PageSize
<1>3. /\ ArenaStart(a) \in Nat /\ FirstBlock(a) \in Nat /\ ArenaEnd(a) \in Nat
      /\ ArenaStart(a) <= FirstBlock(a)
    BY <1>2, ArenaNumbers
<1>4. /\ b \in Nat /\ bs[b].size \in Nat /\ End(bs, b) \in Nat /\ HeaderSize \in Nat
      /\ b + HeaderSize + bs[b].size = End(bs, b)
    BY EndNumber, HeaderAssumption DEF Right
<1>5. x \in Nat /\ ArenaStart(a) <= x /\ x < ArenaEnd(a)
    BY <1>1, <1>3, <1>4 DEF Within
<1>6. /\ a.first \in Nat /\ a.pages \in Nat /\ PageSize \in Nat \ {0}
      /\ a.first + a.pages \in Nat
  <2>1. a.first \in Nat /\ a.pages \in Nat
    BY <1>2, PageAssumption DEF Arena
  <2> QED
    BY <2>1, PageSizeAssumption
<1>7. a.first * PageSize <= x /\ x < (a.first + a.pages) * PageSize
    BY <1>5 DEF ArenaStart, ArenaEnd
<1> HIDE DEF x
<1>8. p \in Nat /\ p * PageSize <= x /\ x < p * PageSize + PageSize
    BY <1>5, <1>6
<1> HIDE DEF p
<1>9. p * PageSize \in Nat /\ (p + 1) * PageSize = p * PageSize + PageSize /\ p + 1 \in Nat
    BY <1>6, <1>8
<1>10. a.first <= p
  <2> SUFFICES ASSUME p + 1 <= a.first PROVE FALSE
    BY <1>6, <1>8
  <2>1. (p + 1) * PageSize <= a.first * PageSize
    BY <1>6, <1>9
  <2> DEFINE start == a.first * PageSize
             room == p * PageSize
  <2>2. start \in Nat /\ room \in Nat /\ PageSize \in Nat
    BY <1>6, <1>9
  <2>3. room + PageSize <= start /\ start <= x /\ x < room + PageSize
    BY <1>7, <1>8, <1>9, <2>1
  <2> HIDE DEF start, room
  <2> QED
    BY <1>5, <2>2, <2>3
<1>11. p < a.first + a.pages
  <2> SUFFICES ASSUME a.first + a.pages <= p PROVE FALSE
    BY <1>6, <1>8
  <2>1. (a.first + a.pages) * PageSize <= p * PageSize
    BY <1>6, <1>8
  <2>2. (a.first + a.pages) * PageSize \in Nat
    BY <1>6
  <2> QED
    BY <1>5, <1>7, <1>8, <1>9, <2>1, <2>2
<1>12. p \in Page
    BY <1>2, <1>6, <1>8, <1>10, <1>11 DEF ArenaRun
<1>13. o \in 0 .. PageSize - 1 /\ x = p * PageSize + o
    BY <1>5, <1>6, <1>8, <1>9
<1> QED
    BY <1>12, <1>13 DEF AddressSpace, x

LEMMA LiveOf ==
    ASSUME NEW h, DOMAIN h \subseteq Nat
    PROVE  LET L == [p \in {b + HeaderSize : b \in DOMAIN h} |-> h[p - HeaderSize]]
           IN  /\ DOMAIN L = {b + HeaderSize : b \in DOMAIN h}
               /\ \A b \in DOMAIN h : L[b + HeaderSize] = h[b]
<1> DEFINE L == [p \in {b + HeaderSize : b \in DOMAIN h} |-> h[p - HeaderSize]]
<1>1. ASSUME NEW b \in DOMAIN h PROVE L[b + HeaderSize] = h[b]
  <2>1. L[b + HeaderSize] = h[(b + HeaderSize) - HeaderSize]
    OBVIOUS
  <2>2. (b + HeaderSize) - HeaderSize = b
    BY HeaderAssumption
  <2> QED
    BY <2>1, <2>2
<1> QED
    BY <1>1

LEMMA LiveFacts ==
    ASSUME IInv
    PROVE  /\ DOMAIN Live = {b + HeaderSize : b \in DOMAIN held}
           /\ \A b \in DOMAIN held : Live[b + HeaderSize] = held[b]
           /\ DOMAIN held \subseteq Nat
<1>1. DOMAIN held \subseteq Nat
    BY DEF IInv, HeldRight, Used, Right, Typed
<1> QED
    BY <1>1, LiveOf DEF Live

\* Live after an allocation that replaces old.
LEMMA LiveAfter ==
    ASSUME IInv, IInv', NEW size \in Request, NEW b \in Nat,
           NEW old \in DOMAIN held \cup {Null}, held' = HeldAfter(b, size, old)
    PROVE  Live' = Abstract!With({old + HeaderSize} \cap DOMAIN Live, b + HeaderSize, size)
<1> DEFINE gone == {old + HeaderSize} \cap DOMAIN Live
           W == Abstract!With(gone, b + HeaderSize, size)
<1>1. /\ DOMAIN Live = {c + HeaderSize : c \in DOMAIN held}
      /\ \A c \in DOMAIN held : Live[c + HeaderSize] = held[c]
      /\ DOMAIN held \subseteq Nat
    BY LiveFacts
<1>2. /\ DOMAIN Live' = {c + HeaderSize : c \in DOMAIN held'}
      /\ \A c \in DOMAIN held' : Live'[c + HeaderSize] = held'[c]
      /\ DOMAIN held' \subseteq Nat
  <2>1. DOMAIN held' \subseteq Nat
    BY DEF IInv, HeldRight, Used, Right, Typed
  <2> QED
    BY <2>1, LiveOf DEF Live
<1>3. HeaderSize \in Nat /\ old \in Nat
    BY <1>1, HeaderAssumption DEF Null
<1>4. DOMAIN held' = (DOMAIN held \ {old}) \cup {b}
    BY DEF HeldAfter
<1>5. DOMAIN Live' = (DOMAIN Live \ gone) \cup {b + HeaderSize}
  <2>1. ASSUME NEW c \in DOMAIN held, NEW d \in Nat, c + HeaderSize = d + HeaderSize
        PROVE  c = d
    BY <1>1, <1>3, <2>1
  <2> QED
    BY <1>1, <1>2, <1>3, <1>4, <2>1
<1>6. W = [p \in (DOMAIN Live \ gone) \cup {b + HeaderSize} |->
            IF p = b + HeaderSize THEN size ELSE Live[p]]
    BY DEF Abstract!With
<1>7. ASSUME NEW p \in DOMAIN Live'
      PROVE  Live'[p] = IF p = b + HeaderSize THEN size ELSE Live[p]
  <2>1. PICK c \in DOMAIN held' : p = c + HeaderSize
    BY <1>2
  <2>2. Live'[p] = held'[c] /\ c \in Nat
    BY <1>2, <2>1
  <2>3. CASE c = b
    BY <1>4, <2>1, <2>2, <2>3 DEF HeldAfter
  <2>4. CASE c # b
    <3>1. c \in DOMAIN held /\ held'[c] = held[c] /\ p # b + HeaderSize
        BY <1>3, <1>4, <2>1, <2>2, <2>4 DEF HeldAfter
    <3> QED
        BY <1>1, <2>1, <2>2, <3>1
  <2> QED
    BY <2>3, <2>4
<1>8. Live' = [p \in DOMAIN Live' |-> Live'[p]]
    BY DEF Live
<1> HIDE DEF W, gone
<1>9. Live' = W
    BY <1>5, <1>6, <1>7, <1>8
<1> QED
    BY <1>9 DEF W, gone

\* Allocating is Malloc of the abstract heap, or Move when a block is replaced.
LEMMA AllocationRefines ==
    ASSUME IInv, NEW size \in Request, NEW old \in DOMAIN held \cup {Null},
           FromArenas(size, old) \/ FromNewArena(size, old)
    PROVE  Abstract!Next
<1> DEFINE n == ALIGN16(size)
<1>1. PICK bs : \E b \in DOMAIN bs :
               /\ IInv' /\ Right(bs, Ar') /\ Apart(Ar') /\ HeldRight(bs)
               /\ bs[b].free /\ n <= bs[b].size
               /\ Replace(bs, b, size, old)
               /\ b \notin DOMAIN held /\ b \in DOMAIN blocks' /\ n <= blocks'[b].size
    BY Allocated
<1>2. PICK b \in DOMAIN bs :
               /\ IInv' /\ Right(bs, Ar') /\ Apart(Ar') /\ HeldRight(bs)
               /\ bs[b].free /\ n <= bs[b].size
               /\ Replace(bs, b, size, old)
               /\ b \notin DOMAIN held /\ b \in DOMAIN blocks' /\ n <= blocks'[b].size
    BY <1>1
<1>3. size \in Nat \ {0} /\ n \in Nat /\ size <= n
    BY RequestAssumption, Rounding
<1> HIDE DEF n
<1> DEFINE s == Take(bs, b, n)
<1>4. /\ Right(s, Ar') /\ Used(s) = Used(bs) \cup {b} /\ n <= s[b].size
      /\ \A c \in Used(bs) : s[c].size = bs[c].size
  <2>1. Ar' \subseteq Arena
    BY <1>2 DEF Apart
  <2> QED
    BY <1>2, <1>3, <2>1, Taken
<1> HIDE DEF s
<1>5. b \in Nat
    BY <1>2, EndNumber DEF Right
<1>6. Abstract!Clear(b + HeaderSize, size)
  <2> SUFFICES ASSUME NEW p \in DOMAIN Live
               PROVE  Abstract!Bytes(b + HeaderSize, size) \cap Abstract!Bytes(p, Live[p]) = {}
    BY DEF Abstract!Clear
  <2>1. PICK c \in DOMAIN held : p = c + HeaderSize /\ Live[p] = held[c]
    BY LiveFacts
  <2>2. c \in Used(bs) /\ held[c] <= bs[c].size /\ held[c] \in Nat /\ c # b
    BY <1>2, RequestAssumption DEF HeldRight
  <2>3. held[c] <= s[c].size /\ c \in DOMAIN s /\ b \in DOMAIN s
    BY <1>4, <2>2 DEF Used
  <2>4. Typed(s) /\ Disjoint(s)
    BY <1>4 DEF Right
  <2>5. size <= s[b].size
    BY <1>3, <1>4, <2>3, <2>4, EndNumber
  <2> QED
    BY <1>3, <2>1, <2>2, <2>3, <2>4, <2>5, PayloadsApart
<1>7. b + HeaderSize \in AddressSpace
  <2>1. Right(blocks', Ar') /\ Placed(Ar', owned') /\ owned' \subseteq Page
    BY <1>2 DEF IInv
  <2>2. blocks'[b].size \in Nat
    BY <1>2, <2>1, EndNumber DEF Right
  <2>3. 1 <= blocks'[b].size
    BY <1>2, <1>3, <2>2
  <2> QED
    BY <1>2, <2>1, <2>3, InSpace
<1>8. Live' = Abstract!With({old + HeaderSize} \cap DOMAIN Live, b + HeaderSize, size)
  <2>1. held' = HeldAfter(b, size, old)
    BY <1>2 DEF Replace
  <2> QED
    BY <1>2, <1>5, <2>1, LiveAfter
<1>9. CASE old = Null
  <2>1. Null \notin DOMAIN held /\ HeaderSize \in Nat /\ DOMAIN held \subseteq Nat
    BY LiveFacts, HeaderAssumption, EndNumber DEF IInv, HeldRight, Used, Right, Null
  <2>2. {old + HeaderSize} \cap DOMAIN Live = {}
    BY <1>9, <2>1, LiveFacts DEF Null
  <2>3. Abstract!Malloc(b + HeaderSize, size)
    BY <1>6, <1>8, <2>2 DEF Abstract!Malloc
  <2> QED
    BY <1>7, <2>3 DEF Abstract!Next
<1>10. CASE old \in DOMAIN held
  <2>1. old + HeaderSize \in DOMAIN Live
    BY <1>10, LiveFacts
  <2>2. {old + HeaderSize} \cap DOMAIN Live = {old + HeaderSize}
    BY <2>1
  <2>3. Abstract!Move(old + HeaderSize, b + HeaderSize, size)
    BY <1>6, <1>8, <2>1, <2>2 DEF Abstract!Move
  <2> QED
    BY <1>7, <2>1, <2>3 DEF Abstract!Next
<1> QED
    BY <1>9, <1>10

LEMMA FreeRefines ==
    ASSUME IInv, IInv', NEW b \in DOMAIN held, kfree(b) PROVE Abstract!Next
<1>1. /\ DOMAIN Live = {c + HeaderSize : c \in DOMAIN held}
      /\ \A c \in DOMAIN held : Live[c + HeaderSize] = held[c]
      /\ DOMAIN held \subseteq Nat
    BY LiveFacts
<1>2. HeaderSize \in Nat /\ held' = [c \in DOMAIN held \ {b} |-> held[c]]
    BY HeaderAssumption DEF kfree
<1> DEFINE a == b + HeaderSize
           W == [p \in DOMAIN Live \ {a} |-> Live[p]]
<1>3. Live' = [p \in {c + HeaderSize : c \in DOMAIN held'} |-> held'[p - HeaderSize]]
    BY DEF Live
<1>4. {c + HeaderSize : c \in DOMAIN held'} = DOMAIN Live \ {a}
    BY <1>1, <1>2
<1>5. ASSUME NEW p \in DOMAIN Live \ {a} PROVE held'[p - HeaderSize] = Live[p]
  <2>1. PICK c \in DOMAIN held : p = c + HeaderSize /\ c # b
    BY <1>1, <1>5
  <2>2. p - HeaderSize = c
    BY <1>1, <1>2, <2>1
  <2> QED
    BY <1>1, <1>2, <2>1, <2>2
<1>6. Live' = W
    BY <1>3, <1>4, <1>5
<1>7. a \in DOMAIN Live
    BY <1>1
<1> QED
    BY <1>6, <1>7 DEF Abstract!Free, Abstract!Next

LEMMA InPlaceRefines ==
    ASSUME IInv, IInv', NEW b \in DOMAIN held, NEW size \in Request, krealloc_InPlace(b, size)
    PROVE  Abstract!Next
<1>1. /\ held' = [held EXCEPT ![b] = size] /\ blocks[b].size >= size
      /\ blocks' = blocks /\ DOMAIN held' = DOMAIN held
    BY DEF krealloc_InPlace, Suffices
<1>2. /\ Right(blocks, Ar) /\ Placed(Ar, owned) /\ owned \subseteq Page /\ HeldRight(blocks)
      /\ Typed(blocks) /\ Disjoint(blocks)
    BY DEF IInv, Right
<1>3. b \in DOMAIN blocks /\ blocks[b].size \in Nat /\ b \in Nat /\ size \in Nat \ {0}
    BY <1>2, EndNumber, RequestAssumption DEF HeldRight, Used
<1>4. b + HeaderSize \in AddressSpace
    BY <1>1, <1>2, <1>3, InSpace
<1>5. b + HeaderSize \in DOMAIN Live
    BY LiveFacts
<1>6. ASSUME NEW p \in DOMAIN Live \ {b + HeaderSize}
      PROVE  Abstract!Bytes(b + HeaderSize, size) \cap Abstract!Bytes(p, Live[p]) = {}
  <2>1. PICK c \in DOMAIN held : p = c + HeaderSize /\ Live[p] = held[c]
    BY LiveFacts
  <2>2. /\ c \in DOMAIN blocks /\ held[c] <= blocks[c].size /\ held[c] \in Nat /\ c # b
    BY <1>2, <1>6, <2>1, RequestAssumption DEF HeldRight, Used
  <2> QED
    BY <1>1, <1>2, <1>3, <2>1, <2>2, PayloadsApart
<1>7. Live' = Abstract!With({}, b + HeaderSize, size)
  <2>1. held' = HeldAfter(b, size, Null)
    <3>1. Null \notin DOMAIN held
        BY <1>2, EndNumber DEF HeldRight, Used, Null
    <3>2. held = [c \in DOMAIN held |-> held[c]]
        BY <1>2 DEF HeldRight
    <3> QED
        BY <1>1, <3>1, <3>2 DEF HeldAfter
  <2>2. Live' = Abstract!With({Null + HeaderSize} \cap DOMAIN Live, b + HeaderSize, size)
    BY <1>3, <2>1, LiveAfter
  <2>3. {Null + HeaderSize} \cap DOMAIN Live = {}
    <3>1. Null \notin DOMAIN held /\ HeaderSize \in Nat /\ DOMAIN held \subseteq Nat
        BY <1>2, LiveFacts, HeaderAssumption, EndNumber DEF HeldRight, Used, Null
    <3> QED
        BY <3>1, LiveFacts DEF Null
  <2> QED
    BY <2>2, <2>3
<1>8. Abstract!Resize(b + HeaderSize, size)
    BY <1>5, <1>6, <1>7 DEF Abstract!Resize
<1> QED
    BY <1>4, <1>8 DEF Abstract!Next

\* The free-list heap implements the abstract one: an allocation meets no other
\* live one, and stays where it is until it is freed or moved.
THEOREM ImplementsHeap == Spec => Refinement
<1>1. Init => Abstract!Init
    BY DEF Init, Abstract!Init, Live
<1>2. ASSUME IInv, [Next]_vars PROVE [Abstract!Next]_Live
  <2>1. IInv'
    BY <1>2, Step
  <2>2. ASSUME NEW size \in Request, kmalloc(size) PROVE Abstract!Next
    <3>1. FromArenas(size, Null) \/ FromNewArena(size, Null)
        BY <2>2 DEF kmalloc
    <3> QED
        BY <1>2, <3>1, AllocationRefines
  <2>3. ASSUME NEW b \in DOMAIN held, kfree(b) PROVE Abstract!Next
    BY <1>2, <2>1, <2>3, FreeRefines
  <2>4. ASSUME NEW b \in DOMAIN held, NEW size \in Request, krealloc_InPlace(b, size)
        PROVE  Abstract!Next
    BY <1>2, <2>1, <2>4, InPlaceRefines
  <2>5. ASSUME NEW b \in DOMAIN held, NEW size \in Request, krealloc_Move(b, size)
        PROVE  Abstract!Next
    <3>1. FromArenas(size, b) \/ FromNewArena(size, b)
        BY <2>5 DEF krealloc_Move
    <3> QED
        BY <1>2, <3>1, AllocationRefines
  <2>6. CASE UNCHANGED vars
    BY <2>6 DEF vars, Live
  <2> QED
    BY <1>2, <2>2, <2>3, <2>4, <2>5, <2>6 DEF Next
<1>3. IInv /\ [Next]_vars => [Abstract!Next]_Live
    BY <1>2
<1> QED
    BY <1>1, <1>3, InvariantHolds, PTL DEF Spec, Refinement, Abstract!Spec

=============================================================================
