------------------------------- MODULE HeapProofs -------------------------------
(***************************************************************************)
(* Proofs about module Heap, for slots and pages of any size and number.   *)
(* The lists of pages are well formed (Linked) whichever pages are taken   *)
(* out and put in; the bits of a page are those of its blocks (BitsInv),   *)
(* which lie apart (BlocksInv).  So the assertions of new.cc hold, no page *)
(* is lost, and the heap implements a range allocator.                     *)
(***************************************************************************)
EXTENDS Heap, NatLemmas, FiniteSetTheorems

--------------------------------------------------------------------------------
(* The lists, of a set L of pages with the numbers ap of their lists.  The order along  *)
(* the lists is well founded: every page has a rank, above that of the one before it.   *)

Lists == [head : [0 .. Slots -> Page \cup {Nil}],
          next : [Page -> Page \cup {Nil}], prev : [Page -> Page \cup {Nil}]]

HeadsFirst(l, L, ap) ==
    /\ \A i \in 0 .. Slots : l.head[i] # Nil =>
          l.head[i] \in L /\ ap[l.head[i]] = i /\ l.prev[l.head[i]] = Nil
    /\ \A p \in L : l.prev[p] = Nil => l.head[ap[p]] = p
NextBack(l, L, ap) ==
    \A p \in L : l.next[p] # Nil =>
        l.next[p] \in L /\ ap[l.next[p]] = ap[p] /\ l.prev[l.next[p]] = p
PrevForth(l, L, ap) ==
    \A p \in L : l.prev[p] # Nil =>
        l.prev[p] \in L /\ ap[l.prev[p]] = ap[p] /\ l.next[l.prev[p]] = p
Ranked(l, L, rank) ==
    /\ rank \in [Page -> Nat]
    /\ \A p \in L : l.next[p] # Nil => rank[p] < rank[l.next[p]]

Linked(l, L, ap) ==
    /\ HeadsFirst(l, L, ap) /\ NextBack(l, L, ap) /\ PrevForth(l, L, ap)
    /\ \E rank : Ranked(l, L, rank)

\* nullptr is no page.
LEMMA NilNoPage == Nil \notin Page
BY DEF Nil, Page

\* What unlinking a page does to each pointer.
LEMMA UnlinkShape ==
    ASSUME NEW l \in Lists, NEW page \in Page, NEW i \in 0 .. Slots
    PROVE  LET n == l.next[page]
               q == l.prev[page]
           IN  Unlink(l, page, i) =
                 [head |-> IF q = Nil THEN [l.head EXCEPT ![i] = n] ELSE l.head,
                  next |-> IF q = Nil THEN l.next ELSE [l.next EXCEPT ![q] = n],
                  prev |-> IF n = Nil THEN l.prev ELSE [l.prev EXCEPT ![n] = q]]
<1> DEFINE n == l.next[page]
           q == l.prev[page]
<1>1. l = [head |-> l.head, next |-> l.next, prev |-> l.prev]
  BY DEF Lists
<1>2. PICK h, x, y : h = l.head /\ x = l.next /\ y = l.prev
  OBVIOUS
<1>3. l = [head |-> h, next |-> x, prev |-> y]
  BY <1>1, <1>2
<1>4. CASE q = Nil
  BY <1>3, <1>4 DEF Unlink, UnlinkHead, SetPrev
<1>5. CASE q # Nil
  BY <1>3, <1>5 DEF Unlink, UnlinkHead, SetPrev
<1>6. QED BY <1>4, <1>5

\* A page taken out of its list leaves the lists of the others well formed.
LEMMA UnlinkLinked ==
    ASSUME NEW l \in Lists, NEW L \in SUBSET Page, NEW ap \in [Page -> 0 .. Slots],
           Linked(l, L, ap), NEW page \in L
    PROVE  /\ Unlink(l, page, ap[page]) \in Lists
           /\ Linked(Unlink(l, page, ap[page]), L \ {page}, ap)
<1> DEFINE i == ap[page]
           n == l.next[page]
           q == l.prev[page]
<1>1. PICK m : m = Unlink(l, page, i)
  OBVIOUS
<1>2. i \in 0 .. Slots /\ n \in Page \cup {Nil} /\ q \in Page \cup {Nil} /\ page \in Page
  BY DEF Lists
<1>3. PICK h, x, y : h = l.head /\ x = l.next /\ y = l.prev
  OBVIOUS
<1>4. h \in [0 .. Slots -> Page \cup {Nil}] /\ x \in [Page -> Page \cup {Nil}]
      /\ y \in [Page -> Page \cup {Nil}]
  BY <1>3 DEF Lists
<1>5. /\ m.head = IF q = Nil THEN [h EXCEPT ![i] = n] ELSE h
      /\ m.next = IF q = Nil THEN x ELSE [x EXCEPT ![q] = n]
      /\ m.prev = IF n = Nil THEN y ELSE [y EXCEPT ![n] = q]
      /\ m \in Lists
  <2>1. m = [head |-> IF q = Nil THEN [h EXCEPT ![i] = n] ELSE h,
             next |-> IF q = Nil THEN x ELSE [x EXCEPT ![q] = n],
             prev |-> IF n = Nil THEN y ELSE [y EXCEPT ![n] = q]]
    BY <1>1, <1>2, <1>3, UnlinkShape
  <2> HIDE DEF i, n, q
  <2>2. QED BY <1>2, <1>4, <2>1 DEF Lists
<1>6. PICK rank : Ranked(l, L, rank)
  BY DEF Linked
<1>7. /\ \A k \in 0 .. Slots : h[k] # Nil => h[k] \in L /\ ap[h[k]] = k /\ y[h[k]] = Nil
      /\ \A p \in L : y[p] = Nil => h[ap[p]] = p
      /\ \A p \in L : x[p] # Nil => x[p] \in L /\ ap[x[p]] = ap[p] /\ y[x[p]] = p
      /\ \A p \in L : y[p] # Nil => y[p] \in L /\ ap[y[p]] = ap[p] /\ x[y[p]] = p
      /\ \A p \in L : x[p] # Nil => rank[p] < rank[x[p]]
      /\ rank \in [Page -> Nat]
  BY <1>3, <1>6 DEF Linked, HeadsFirst, NextBack, PrevForth, Ranked
<1>8. n = x[page] /\ q = y[page]
  BY <1>3
<1>9. \A p \in L : p \in Page /\ p # Nil
  BY NilNoPage
<1> HIDE DEF i, n, q
<1>10. n # Nil => n \in L /\ n # page /\ ap[n] = i /\ y[n] = page
  <2>1. \A p \in Page : ~(rank[p] < rank[p])
    BY <1>7
  <2>2. QED BY <1>2, <1>7, <1>8, <2>1 DEF i
<1>11. q # Nil => q \in L /\ q # page /\ ap[q] = i /\ x[q] = page
  <2>1. \A p \in Page : ~(rank[p] < rank[p])
    BY <1>7
  <2>2. q # Nil => q \in L /\ ap[q] = i /\ x[q] = page
    BY <1>7, <1>8 DEF i
  <2>3. QED BY <1>7, <1>9, <2>1, <2>2
<1>12. q = Nil => h[i] = page
  BY <1>7, <1>8 DEF i
<1>13. /\ \A k \in 0 .. Slots : m.head[k] = IF q = Nil /\ k = i THEN n ELSE h[k]
       /\ \A p \in Page : m.next[p] = IF q # Nil /\ p = q THEN n ELSE x[p]
       /\ \A p \in Page : m.prev[p] = IF n # Nil /\ p = n THEN q ELSE y[p]
  BY <1>2, <1>4, <1>5
<1>14. \A k \in 0 .. Slots : m.head[k] # Nil =>
          m.head[k] \in L \ {page} /\ ap[m.head[k]] = k /\ m.prev[m.head[k]] = Nil
  <2> SUFFICES ASSUME NEW k \in 0 .. Slots, m.head[k] # Nil
               PROVE  m.head[k] \in L \ {page} /\ ap[m.head[k]] = k
                      /\ m.prev[m.head[k]] = Nil
    OBVIOUS
  <2>1. CASE q = Nil /\ k = i
    BY <1>9, <1>10, <1>13, <2>1
  <2>2. CASE ~(q = Nil /\ k = i)
    <3>1. m.head[k] = h[k] /\ h[k] \in L /\ ap[h[k]] = k /\ y[h[k]] = Nil
      BY <1>7, <1>13, <2>2
    <3>2. h[k] # page
      BY <1>8, <2>2, <3>1 DEF i
    <3>3. n # Nil => h[k] # n
      BY <1>9, <1>10, <3>1
    <3>4. QED BY <1>9, <1>13, <3>1, <3>2, <3>3
  <2>3. QED BY <2>1, <2>2
<1>15. \A p \in L \ {page} : m.prev[p] = Nil => m.head[ap[p]] = p
  <2> SUFFICES ASSUME NEW p \in L \ {page}, m.prev[p] = Nil PROVE m.head[ap[p]] = p
    OBVIOUS
  <2>1. ap[p] \in 0 .. Slots
    OBVIOUS
  <2>2. CASE n # Nil /\ p = n
    BY <1>9, <1>10, <1>13, <2>1, <2>2
  <2>3. CASE ~(n # Nil /\ p = n)
    <3>1. y[p] = Nil /\ h[ap[p]] = p
      BY <1>7, <1>9, <1>13, <2>3
    <3>2. QED BY <1>12, <1>13, <2>1, <3>1
  <2>4. QED BY <2>2, <2>3
<1>16. \A p \in L \ {page} : m.next[p] # Nil =>
          m.next[p] \in L \ {page} /\ ap[m.next[p]] = ap[p] /\ m.prev[m.next[p]] = p
  <2> SUFFICES ASSUME NEW p \in L \ {page}, m.next[p] # Nil
               PROVE  m.next[p] \in L \ {page} /\ ap[m.next[p]] = ap[p]
                      /\ m.prev[m.next[p]] = p
    OBVIOUS
  <2>1. CASE q # Nil /\ p = q
    BY <1>9, <1>10, <1>11, <1>13, <2>1
  <2>2. CASE ~(q # Nil /\ p = q)
    <3>1. m.next[p] = x[p] /\ x[p] \in L /\ ap[x[p]] = ap[p] /\ y[x[p]] = p
      BY <1>7, <1>9, <1>13, <2>2
    <3>2. x[p] # page
      BY <1>8, <1>9, <2>2, <3>1
    <3>3. n # Nil => x[p] # n
      BY <1>10, <3>1
    <3>4. QED BY <1>9, <1>13, <3>1, <3>2, <3>3
  <2>3. QED BY <2>1, <2>2
<1>17. \A p \in L \ {page} : m.prev[p] # Nil =>
          m.prev[p] \in L \ {page} /\ ap[m.prev[p]] = ap[p] /\ m.next[m.prev[p]] = p
  <2> SUFFICES ASSUME NEW p \in L \ {page}, m.prev[p] # Nil
               PROVE  m.prev[p] \in L \ {page} /\ ap[m.prev[p]] = ap[p]
                      /\ m.next[m.prev[p]] = p
    OBVIOUS
  <2>1. CASE n # Nil /\ p = n
    BY <1>9, <1>10, <1>11, <1>13, <2>1
  <2>2. CASE ~(n # Nil /\ p = n)
    <3>1. m.prev[p] = y[p] /\ y[p] \in L /\ ap[y[p]] = ap[p] /\ x[y[p]] = p
      BY <1>7, <1>9, <1>13, <2>2
    <3>2. y[p] # page
      BY <1>8, <1>9, <2>2, <3>1
    <3>3. q # Nil => y[p] # q
      BY <1>11, <3>1
    <3>4. QED BY <1>9, <1>13, <3>1, <3>2, <3>3
  <2>3. QED BY <2>1, <2>2
<1>18. \A p \in L \ {page} : m.next[p] # Nil => rank[p] < rank[m.next[p]]
  <2> SUFFICES ASSUME NEW p \in L \ {page}, m.next[p] # Nil PROVE rank[p] < rank[m.next[p]]
    OBVIOUS
  <2>1. CASE q # Nil /\ p = q
    <3>1. m.next[p] = n /\ n # Nil /\ rank[q] < rank[page] /\ rank[page] < rank[n]
      BY <1>7, <1>8, <1>9, <1>11, <1>13, <2>1
    <3>2. rank[q] \in Nat /\ rank[page] \in Nat /\ rank[n] \in Nat
      BY <1>2, <1>7, <2>1, <3>1
    <3>3. QED BY <2>1, <3>1, <3>2
  <2>2. CASE ~(q # Nil /\ p = q)
    BY <1>7, <1>9, <1>13, <2>2
  <2>3. QED BY <2>1, <2>2
<1>19. Linked(m, L \ {page}, ap)
  BY <1>7, <1>14, <1>15, <1>16, <1>17, <1>18
  DEF Linked, HeadsFirst, NextBack, PrevForth, Ranked
<1>20. QED BY <1>1, <1>5, <1>19 DEF i

\* A page put in front of a list leaves them well formed, its number being that of the list.
LEMMA LinkLinked ==
    ASSUME NEW l \in Lists, NEW L \in SUBSET Page, NEW ap \in [Page -> 0 .. Slots],
           Linked(l, L, ap), NEW page \in Page, page \notin L,
           NEW bp \in [Page -> 0 .. Slots], \A p \in L : bp[p] = ap[p]
    PROVE  /\ Link(l, page, bp[page]) \in Lists
           /\ Linked(Link(l, page, bp[page]), L \cup {page}, bp)
<1> DEFINE i == bp[page]
           o == l.head[i]
<1>1. PICK m : m = Link(l, page, i)
  OBVIOUS
<1>2. PICK h, x, y : h = l.head /\ x = l.next /\ y = l.prev
  OBVIOUS
<1>3. /\ h \in [0 .. Slots -> Page \cup {Nil}] /\ x \in [Page -> Page \cup {Nil}]
      /\ y \in [Page -> Page \cup {Nil}]
      /\ l = [head |-> h, next |-> x, prev |-> y]
  BY <1>2 DEF Lists
<1>4. i \in 0 .. Slots /\ o = h[i] /\ o \in Page \cup {Nil}
  BY <1>2, <1>3
<1>5. PICK rank : Ranked(l, L, rank)
  BY DEF Linked
<1>6. /\ \A k \in 0 .. Slots : h[k] # Nil => h[k] \in L /\ ap[h[k]] = k /\ y[h[k]] = Nil
      /\ \A p \in L : y[p] = Nil => h[ap[p]] = p
      /\ \A p \in L : x[p] # Nil => x[p] \in L /\ ap[x[p]] = ap[p] /\ y[x[p]] = p
      /\ \A p \in L : y[p] # Nil => y[p] \in L /\ ap[y[p]] = ap[p] /\ x[y[p]] = p
      /\ \A p \in L : x[p] # Nil => rank[p] < rank[x[p]]
      /\ rank \in [Page -> Nat]
  BY <1>2, <1>5 DEF Linked, HeadsFirst, NextBack, PrevForth, Ranked
<1>7. /\ m.head = [h EXCEPT ![i] = page]
      /\ m.next = [x EXCEPT ![page] = o]
      /\ m.prev = IF o = Nil THEN [y EXCEPT ![page] = Nil]
                  ELSE [[y EXCEPT ![o] = page] EXCEPT ![page] = Nil]
      /\ m \in Lists
  <2>1. m = [head |-> [h EXCEPT ![i] = page], next |-> [x EXCEPT ![page] = o],
             prev |-> IF o = Nil THEN [y EXCEPT ![page] = Nil]
                      ELSE [[y EXCEPT ![o] = page] EXCEPT ![page] = Nil]]
    <3>1. CASE o = Nil
      BY <1>1, <1>3, <1>4, <3>1 DEF Link, SetPrev
    <3>2. CASE o # Nil
      BY <1>1, <1>3, <1>4, <3>2 DEF Link, SetPrev
    <3>3. QED BY <3>1, <3>2
  <2> HIDE DEF i, o
  <2>2. QED BY <1>3, <1>4, <2>1 DEF Lists
<1>8. \A p \in L : p \in Page /\ p # Nil /\ p # page
  BY NilNoPage
<1> HIDE DEF i, o
<1>9. page # Nil
  BY NilNoPage
<1>10. o # Nil => o \in L /\ ap[o] = i /\ y[o] = Nil
  BY <1>4, <1>6
<1>11. /\ \A k \in 0 .. Slots : m.head[k] = IF k = i THEN page ELSE h[k]
       /\ \A p \in Page : m.next[p] = IF p = page THEN o ELSE x[p]
       /\ \A p \in Page : m.prev[p] = IF p = page THEN Nil
                                      ELSE IF o # Nil /\ p = o THEN page ELSE y[p]
  BY <1>3, <1>4, <1>7
<1>12. \A k \in 0 .. Slots : m.head[k] # Nil =>
          m.head[k] \in L \cup {page} /\ bp[m.head[k]] = k /\ m.prev[m.head[k]] = Nil
  <2> SUFFICES ASSUME NEW k \in 0 .. Slots, m.head[k] # Nil
               PROVE  m.head[k] \in L \cup {page} /\ bp[m.head[k]] = k
                      /\ m.prev[m.head[k]] = Nil
    OBVIOUS
  <2>1. CASE k = i
    BY <1>11, <2>1 DEF i
  <2>2. CASE k # i
    <3>1. m.head[k] = h[k] /\ h[k] \in L /\ ap[h[k]] = k /\ y[h[k]] = Nil
      BY <1>6, <1>11, <2>2
    <3>2. o # Nil => h[k] # o
      BY <1>10, <2>2, <3>1
    <3>3. QED BY <1>8, <1>11, <3>1, <3>2
  <2>3. QED BY <2>1, <2>2
<1>13. \A p \in L \cup {page} : m.prev[p] = Nil => m.head[bp[p]] = p
  <2> SUFFICES ASSUME NEW p \in L \cup {page}, m.prev[p] = Nil PROVE m.head[bp[p]] = p
    OBVIOUS
  <2>1. CASE p = page
    BY <1>4, <1>11, <2>1 DEF i
  <2>2. CASE p # page
    <3>1. p \in L /\ bp[p] = ap[p] /\ bp[p] \in 0 .. Slots
      BY <2>2
    <3>2. ~(o # Nil /\ p = o) /\ y[p] = Nil
      BY <1>8, <1>9, <1>11, <3>1
    <3>3. h[ap[p]] = p
      BY <1>6, <3>1, <3>2
    <3>4. ap[p] # i
      BY <1>4, <1>8, <3>1, <3>2, <3>3
    <3>5. QED BY <1>11, <3>1, <3>3, <3>4
  <2>3. QED BY <2>1, <2>2
<1>14. \A p \in L \cup {page} : m.next[p] # Nil =>
          m.next[p] \in L \cup {page} /\ bp[m.next[p]] = bp[p] /\ m.prev[m.next[p]] = p
  <2> SUFFICES ASSUME NEW p \in L \cup {page}, m.next[p] # Nil
               PROVE  m.next[p] \in L \cup {page} /\ bp[m.next[p]] = bp[p]
                      /\ m.prev[m.next[p]] = p
    OBVIOUS
  <2>1. CASE p = page
    BY <1>8, <1>10, <1>11, <2>1 DEF i
  <2>2. CASE p # page
    <3>1. p \in L /\ m.next[p] = x[p] /\ x[p] \in L /\ ap[x[p]] = ap[p] /\ y[x[p]] = p
      BY <1>6, <1>8, <1>11, <2>2
    <3>2. o # Nil => x[p] # o
      BY <1>8, <1>10, <3>1
    <3>3. QED BY <1>8, <1>11, <3>1, <3>2
  <2>3. QED BY <2>1, <2>2
<1>15. \A p \in L \cup {page} : m.prev[p] # Nil =>
          m.prev[p] \in L \cup {page} /\ bp[m.prev[p]] = bp[p] /\ m.next[m.prev[p]] = p
  <2> SUFFICES ASSUME NEW p \in L \cup {page}, m.prev[p] # Nil
               PROVE  m.prev[p] \in L \cup {page} /\ bp[m.prev[p]] = bp[p]
                      /\ m.next[m.prev[p]] = p
    OBVIOUS
  <2>1. p \in L
    BY <1>11
  <2>2. CASE o # Nil /\ p = o
    BY <1>8, <1>10, <1>11, <2>1, <2>2 DEF i
  <2>3. CASE ~(o # Nil /\ p = o)
    <3>1. m.prev[p] = y[p] /\ y[p] \in L /\ ap[y[p]] = ap[p] /\ x[y[p]] = p
      BY <1>6, <1>8, <1>11, <2>1, <2>3
    <3>2. QED BY <1>8, <1>11, <2>1, <3>1
  <2>4. QED BY <2>2, <2>3
<1> DEFINE rank2 == [p \in Page |-> IF p = page THEN 0 ELSE rank[p] + 1]
<1>16. Ranked(m, L \cup {page}, rank2)
  <2>1. rank2 \in [Page -> Nat]
    BY <1>6
  <2>2. ASSUME NEW p \in L \cup {page}, m.next[p] # Nil PROVE rank2[p] < rank2[m.next[p]]
    <3>1. CASE p = page
      <4>1. m.next[p] = o /\ o \in L /\ o # page /\ o \in Page
        BY <1>8, <1>10, <1>11, <2>2, <3>1
      <4>2. rank2[p] = 0 /\ rank2[o] = rank[o] + 1 /\ rank[o] \in Nat
        BY <1>6, <3>1, <4>1
      <4>3. QED BY <4>1, <4>2
    <3>2. CASE p # page
      <4>1. p \in L /\ m.next[p] = x[p] /\ x[p] \in L /\ rank[p] < rank[x[p]]
        BY <1>6, <1>8, <1>11, <2>2, <3>2
      <4>2. x[p] # page /\ x[p] \in Page /\ p \in Page
        BY <1>8, <4>1
      <4>3. rank2[p] = rank[p] + 1 /\ rank2[x[p]] = rank[x[p]] + 1
            /\ rank[p] \in Nat /\ rank[x[p]] \in Nat
        BY <1>6, <3>2, <4>2
      <4>4. QED BY <4>1, <4>3
    <3>3. QED BY <3>1, <3>2
  <2>3. QED BY <2>1, <2>2 DEF Ranked
<1>17. Linked(m, L \cup {page}, bp)
  BY <1>12, <1>13, <1>14, <1>15, <1>16 DEF Linked, HeadsFirst, NextBack, PrevForth
<1>18. QED BY <1>1, <1>7, <1>17 DEF i

\* What a page out of the lists points to does not matter.
LEMMA GoneLinked ==
    ASSUME NEW l \in Lists, NEW L \in SUBSET Page, NEW ap \in [Page -> 0 .. Slots],
           Linked(l, L, ap), NEW page \in Page, page \notin L
    PROVE  Gone(l, page) \in Lists /\ Linked(Gone(l, page), L, ap)
<1>1. PICK m : m = Gone(l, page)
  OBVIOUS
<1>2. PICK h, x, y : h = l.head /\ x = l.next /\ y = l.prev
  OBVIOUS
<1>3. /\ h \in [0 .. Slots -> Page \cup {Nil}] /\ x \in [Page -> Page \cup {Nil}]
      /\ y \in [Page -> Page \cup {Nil}]
      /\ l = [head |-> h, next |-> x, prev |-> y]
  BY <1>2 DEF Lists
<1>4. m = [head |-> h, next |-> [x EXCEPT ![page] = Nil], prev |-> [y EXCEPT ![page] = Nil]]
  BY <1>1, <1>3 DEF Gone
<1>5. m \in Lists
  BY <1>3, <1>4 DEF Lists
<1>6. /\ m.head = l.head
      /\ \A p \in L : m.next[p] = l.next[p] /\ m.prev[p] = l.prev[p]
  BY <1>2, <1>3, <1>4
<1>7. HeadsFirst(m, L, ap)
  BY <1>6 DEF Linked, HeadsFirst
<1>8. NextBack(m, L, ap)
  BY <1>6 DEF Linked, NextBack
<1>9. PrevForth(m, L, ap)
  BY <1>6 DEF Linked, PrevForth
<1>10. PICK rank : Ranked(l, L, rank)
  BY DEF Linked
<1>11. Ranked(m, L, rank)
  BY <1>6, <1>10 DEF Ranked
<1>12. QED BY <1>1, <1>5, <1>7, <1>8, <1>9, <1>11 DEF Linked

\* Neither do the numbers of pages out of the lists.
LEMMA SameLinked ==
    ASSUME NEW l, NEW L, NEW ap, NEW bp, Linked(l, L, ap), \A p \in L : bp[p] = ap[p]
    PROVE  Linked(l, L, bp)
BY DEF Linked, HeadsFirst, NextBack, PrevForth

--------------------------------------------------------------------------------
(* Following the lists *)

\* A list is followed from its head on by next.
LEMMA ChainShape ==
    ASSUME lists \in Lists, NEW i \in 0 .. Slots
    PROVE  /\ Chain(i) \in [0 .. Pages -> Page \cup {Nil}]
           /\ Chain(i)[0] = lists.head[i]
           /\ \A k \in 1 .. Pages :
                 Chain(i)[k] = IF Chain(i)[k - 1] = Nil THEN Nil ELSE lists.next[Chain(i)[k - 1]]
<1> DEFINE S == Page \cup {Nil}
           F == [p \in Int \X S |-> IF p[2] = Nil THEN Nil ELSE lists.next[p[2]]]
           Body(at) == [k \in 0 .. Pages |->
                           IF k = 0 THEN lists.head[i]
                           ELSE IF at[k - 1] = Nil THEN Nil ELSE lists.next[at[k - 1]]]
<1>1. Pages \in Nat
  BY HeapAssumption
<1>2. PICK x \in S : x = lists.head[i]
  BY DEF Lists
<1>3. \A s \in S : (IF s = Nil THEN Nil ELSE lists.next[s]) \in S
  BY DEF Lists
<1>4. F \in [Int \X S -> S]
  <2> HIDE DEF S
  <2>1. \A p \in Int \X S : (IF p[2] = Nil THEN Nil ELSE lists.next[p[2]]) \in S
    BY <1>3
  <2>2. QED BY <2>1
<1>5. PICK g \in [0 .. Pages -> S] :
          g[0] = x /\ \A k \in 0 + 1 .. Pages : g[k] = F[<<k, g[k - 1]>>]
  <2> HIDE DEF F, S
  <2>1. 0 \in Int /\ Pages \in Int /\ 0 <= Pages
    BY <1>1
  <2>2. Iterations(S, x, F, 0, Pages) # {}
    BY <1>4, <2>1, IterationExists
  <2>3. QED BY <2>2 DEF Iterations
<1>6. \A k \in 1 .. Pages : g[k] = IF g[k - 1] = Nil THEN Nil ELSE lists.next[g[k - 1]]
  <2>1. ASSUME NEW k \in 1 .. Pages
        PROVE  g[k] = IF g[k - 1] = Nil THEN Nil ELSE lists.next[g[k - 1]]
    <3> HIDE DEF S
    <3>1. k \in 0 + 1 .. Pages /\ k - 1 \in 0 .. Pages
      BY <1>1
    <3>2. <<k, g[k - 1]>> \in Int \X S
      BY <3>1
    <3>3. QED BY <1>5, <3>1, <3>2
  <2>2. QED BY <2>1
<1>7. g = Body(g)
  <2>1. \A k \in 0 .. Pages : g[k] = Body(g)[k]
    BY <1>1, <1>2, <1>5, <1>6
  <2>2. QED BY <2>1
<1>8. Chain(i) = CHOOSE at : at = Body(at)
  BY DEF Chain
<1> HIDE DEF Body
<1>9. Chain(i) = Body(Chain(i))
  BY <1>7, <1>8, Zenon
<1> DEFINE at == Chain(i)
<1>10. at = [k \in 0 .. Pages |->
                IF k = 0 THEN lists.head[i]
                ELSE IF at[k - 1] = Nil THEN Nil ELSE lists.next[at[k - 1]]]
  BY <1>9 DEF Body
<1> HIDE DEF at
<1>11. /\ at[0] = lists.head[i]
       /\ \A k \in 1 .. Pages :
             at[k] = IF at[k - 1] = Nil THEN Nil ELSE lists.next[at[k - 1]]
  BY <1>1, <1>10
<1> DEFINE T == {k \in 0 .. Pages : at[k] \in S}
<1>12. 0 \in T
  BY <1>1, <1>2, <1>11
<1>13. ASSUME NEW k \in 0 .. Pages - 1, k \in T PROVE k + 1 \in T
  <2> HIDE DEF S
  <2>1. k + 1 \in 1 .. Pages /\ (k + 1) - 1 = k /\ k + 1 \in 0 .. Pages
    BY <1>1
  <2>2. at[k + 1] = IF at[k] = Nil THEN Nil ELSE lists.next[at[k]]
    BY <1>11, <2>1
  <2>3. QED BY <1>3, <1>13, <2>1, <2>2
<1> HIDE DEF T
<1>14. 0 .. Pages \subseteq T
  BY <1>1, <1>12, <1>13, InductionUpTo
<1>15. at \in [0 .. Pages -> S]
  BY <1>10, <1>14 DEF T
<1>16. QED BY <1>11, <1>15 DEF at

\* Well formed lists end, hold the pages with their number, and prev is the inverse of next.
LEMMA ListsFollowed ==
    ASSUME lists \in Lists, NEW L \in SUBSET Page, NEW ap \in [Page -> 0 .. Slots],
           Linked(lists, L, ap), NEW i \in 0 .. Slots
    PROVE  LET at == Chain(i)
           IN  /\ at[Pages] = Nil
               /\ \A k \in 0 .. Pages : at[k] # Nil => at[k] \in L /\ ap[at[k]] = i
               /\ \A p \in L : ap[p] = i => \E k \in 0 .. Pages : at[k] = p
               /\ \A k \in 0 .. Pages :
                     at[k] # Nil => lists.prev[at[k]] = IF k = 0 THEN Nil ELSE at[k - 1]
<1> DEFINE at == Chain(i)
           x == lists.next
           y == lists.prev
<1>1. Pages \in Nat
  BY HeapAssumption
<1>2. /\ at \in [0 .. Pages -> Page \cup {Nil}] /\ at[0] = lists.head[i]
      /\ \A k \in 1 .. Pages : at[k] = IF at[k - 1] = Nil THEN Nil ELSE x[at[k - 1]]
  BY ChainShape
<1>3. PICK rank : Ranked(lists, L, rank)
  BY DEF Linked
<1>4. /\ at[0] # Nil => at[0] \in L /\ ap[at[0]] = i /\ y[at[0]] = Nil
      /\ \A p \in L : y[p] = Nil => lists.head[ap[p]] = p
      /\ \A p \in L : x[p] # Nil => x[p] \in L /\ ap[x[p]] = ap[p] /\ y[x[p]] = p
      /\ \A p \in L : y[p] # Nil => y[p] \in L /\ ap[y[p]] = ap[p] /\ x[y[p]] = p
      /\ \A p \in L : x[p] # Nil => rank[p] < rank[x[p]]
      /\ rank \in [Page -> Nat]
  <2>1. /\ \A k \in 0 .. Slots : lists.head[k] # Nil =>
              /\ lists.head[k] \in L /\ ap[lists.head[k]] = k
              /\ lists.prev[lists.head[k]] = Nil
        /\ \A p \in L : lists.prev[p] = Nil => lists.head[ap[p]] = p
    BY DEF Linked, HeadsFirst
  <2>2. \A p \in L : x[p] # Nil => x[p] \in L /\ ap[x[p]] = ap[p] /\ y[x[p]] = p
    BY DEF Linked, NextBack
  <2>3. \A p \in L : y[p] # Nil => y[p] \in L /\ ap[y[p]] = ap[p] /\ x[y[p]] = p
    BY DEF Linked, PrevForth
  <2>4. rank \in [Page -> Nat] /\ \A p \in L : x[p] # Nil => rank[p] < rank[x[p]]
    BY <1>3 DEF Ranked
  <2>5. at[0] # Nil => at[0] \in L /\ ap[at[0]] = i /\ y[at[0]] = Nil
    <3> HIDE DEF at
    <3>1. QED BY <1>2, <2>1
  <2>6. QED BY <2>1, <2>2, <2>3, <2>4, <2>5
<1>5. \A p \in L : p \in Page /\ p # Nil
  BY NilNoPage
<1> HIDE DEF at, x, y
<1>6. ASSUME NEW k \in 0 .. Pages - 1
      PROVE  k + 1 \in 0 .. Pages /\ at[k + 1] = IF at[k] = Nil THEN Nil ELSE x[at[k]]
  <2>1. k + 1 \in 1 .. Pages /\ (k + 1) - 1 = k
    BY <1>1
  <2>2. QED BY <1>2, <2>1
<1> DEFINE S == {k \in 0 .. Pages : at[k] # Nil =>
                    /\ at[k] \in L /\ ap[at[k]] = i
                    /\ y[at[k]] = IF k = 0 THEN Nil ELSE at[k - 1]
                    /\ \A j \in 0 .. k - 1 : at[j] # Nil /\ rank[at[j]] < rank[at[k]]}
<1>7. 0 \in S
  BY <1>1, <1>4
<1>8. ASSUME NEW k \in 0 .. Pages - 1, k \in S PROVE k + 1 \in S
  <2>1. k \in 0 .. Pages /\ k + 1 \in 0 .. Pages /\ k + 1 # 0 /\ (k + 1) - 1 = k
    BY <1>1
  <2>2. ASSUME at[k + 1] # Nil
        PROVE  /\ at[k + 1] \in L /\ ap[at[k + 1]] = i
               /\ y[at[k + 1]] = at[k]
               /\ \A j \in 0 .. k : at[j] # Nil /\ rank[at[j]] < rank[at[k + 1]]
    <3>1. at[k] # Nil /\ at[k + 1] = x[at[k]]
      BY <1>6, <2>2
    <3>2. at[k] \in L /\ ap[at[k]] = i
          /\ \A j \in 0 .. k - 1 : at[j] # Nil /\ rank[at[j]] < rank[at[k]]
      BY <1>8, <3>1
    <3>3. at[k + 1] \in L /\ ap[at[k + 1]] = i /\ y[at[k + 1]] = at[k]
          /\ rank[at[k]] < rank[at[k + 1]]
      BY <1>4, <2>2, <3>1, <3>2
    <3>4. ASSUME NEW j \in 0 .. k PROVE at[j] # Nil /\ rank[at[j]] < rank[at[k + 1]]
      <4>1. CASE j = k
        BY <3>1, <3>3, <4>1
      <4>2. CASE j # k
        <5>1. j \in 0 .. k - 1 /\ j \in 0 .. Pages
          BY <1>1, <4>2
        <5>2. at[j] # Nil /\ rank[at[j]] < rank[at[k]]
          BY <3>2, <5>1
        <5>3. at[j] \in Page /\ at[k] \in Page /\ at[k + 1] \in Page
          BY <1>2, <1>5, <3>2, <3>3, <5>1, <5>2
        <5>4. rank[at[j]] \in Nat /\ rank[at[k]] \in Nat /\ rank[at[k + 1]] \in Nat
          BY <1>4, <5>3
        <5>5. QED BY <3>3, <5>2, <5>4
      <4>3. QED BY <4>1, <4>2
    <3>5. QED BY <3>3, <3>4
  <2>3. QED BY <2>1, <2>2
<1>9. 0 .. Pages \subseteq S
  <2> HIDE DEF S
  <2>1. QED BY <1>1, <1>7, <1>8, InductionUpTo
<1>10. \A k \in 0 .. Pages : at[k] # Nil =>
          /\ at[k] \in L /\ ap[at[k]] = i
          /\ y[at[k]] = IF k = 0 THEN Nil ELSE at[k - 1]
          /\ \A j \in 0 .. k - 1 : at[j] # Nil /\ rank[at[j]] < rank[at[k]]
  BY <1>9
<1> HIDE DEF S
<1>11. at[Pages] = Nil
  <2> SUFFICES ASSUME at[Pages] # Nil PROVE FALSE
    OBVIOUS
  <2>1. Pages \in 0 .. Pages
    BY <1>1
  <2>2. ASSUME NEW k \in 0 .. Pages PROVE at[k] # Nil /\ at[k] \in Page
    <3>1. CASE k = Pages
      BY <1>5, <1>10, <3>1, <2>1
    <3>2. CASE k # Pages
      <4>1. k \in 0 .. Pages - 1
        BY <1>1, <3>2
      <4>2. at[k] # Nil
        BY <1>10, <2>1, <4>1
      <4>3. QED BY <1>2, <4>2
    <3>3. QED BY <3>1, <3>2
  <2>3. at \in [0 .. Pages -> Page]
    BY <1>2, <2>2
  <2>4. IsFiniteSet(0 .. Pages) /\ Cardinality(0 .. Pages) = Pages + 1
    BY <1>1, FS_Interval
  <2>5. IsFiniteSet(Page) /\ Cardinality(Page) = Pages
    <3>1. IsFiniteSet(0 .. Pages - 1)
          /\ Cardinality(0 .. Pages - 1) = IF 0 > Pages - 1 THEN 0 ELSE (Pages - 1) - 0 + 1
      BY <1>1, FS_Interval
    <3>2. QED BY <1>1, <3>1 DEF Page
  <2>6. Cardinality(Page) < Cardinality(0 .. Pages)
    BY <1>1, <2>4, <2>5
  <2>7. PICK j \in 0 .. Pages, k \in 0 .. Pages : j # k /\ at[j] = at[k]
    <3>1. PICK Numbers, Places : Numbers = 0 .. Pages /\ Places = Page
      OBVIOUS
    <3>2. /\ IsFiniteSet(Numbers) /\ IsFiniteSet(Places)
          /\ Cardinality(Places) < Cardinality(Numbers)
          /\ at \in [Numbers -> Places]
      BY <2>3, <2>4, <2>5, <2>6, <3>1
    <3>3. \E j, k \in Numbers : j # k /\ at[j] = at[k]
      BY ONLY <3>2, FS_PigeonHole
    <3>4. QED BY <3>1, <3>3
  <2>8. ASSUME NEW j1 \in 0 .. Pages, NEW k1 \in 0 .. Pages, j1 < k1, at[j1] = at[k1]
        PROVE  FALSE
    <3>1. j1 \in 0 .. k1 - 1
      BY <2>8
    <3>2. rank[at[j1]] < rank[at[k1]]
      BY <1>10, <2>2, <3>1
    <3>3. rank[at[k1]] \in Nat
      BY <1>4, <2>2
    <3>4. QED BY <2>8, <3>2, <3>3
  <2>9. j < k \/ k < j
    BY <2>7
  <2>10. QED BY <2>7, <2>8, <2>9
<1>12. \A k \in 0 .. Pages : at[k] # Nil => at[k] \in L /\ ap[at[k]] = i
  BY <1>10
<1>13. {p \in L : ap[p] = i} \subseteq {at[k] : k \in 0 .. Pages}
  <2> DEFINE U == {p \in L : ap[p] = i /\ \A k \in 0 .. Pages : at[k] # p}
             R == {rank[p] : p \in U}
  <2> SUFFICES ASSUME U # {} PROVE FALSE
    OBVIOUS
  <2>1. R \in SUBSET Nat /\ R # {}
    BY <1>4, <1>5
  <2>2. PICK r \in R : \A s \in R : r <= s
    <3> HIDE DEF R
    <3>1. QED BY ONLY <2>1, LeastOfNat
  <2>3. PICK p \in U : \A u \in U : rank[p] <= rank[u]
    BY <2>2
  <2>4. p \in L /\ ap[p] = i /\ \A k \in 0 .. Pages : at[k] # p
    BY <2>3
  <2>5. CASE y[p] = Nil
    <3>1. at[0] = p /\ 0 \in 0 .. Pages
      BY <1>1, <1>2, <1>4, <2>4, <2>5
    <3>2. QED BY <2>4, <3>1
  <2>6. CASE y[p] # Nil
    <3>1. y[p] \in L /\ ap[y[p]] = i /\ x[y[p]] = p
      BY <1>4, <2>4, <2>6
    <3>2. rank[y[p]] < rank[p]
      BY <1>4, <1>5, <2>4, <3>1
    <3>3. rank[y[p]] \in Nat /\ rank[p] \in Nat
      BY <1>4, <1>5, <2>4, <3>1
    <3>4. y[p] \notin U
      BY <2>3, <3>2, <3>3
    <3>5. PICK k \in 0 .. Pages : at[k] = y[p]
      BY <3>1, <3>4
    <3>6. k # Pages
      BY <1>11, <2>6, <3>5
    <3>7. k \in 0 .. Pages - 1
      BY <1>1, <3>6
    <3>8. k + 1 \in 0 .. Pages /\ at[k + 1] = p
      BY <1>6, <2>6, <3>1, <3>5, <3>7
    <3>9. QED BY <2>4, <3>8
  <2>7. QED BY <2>5, <2>6
<1>14. \A p \in L : ap[p] = i => \E k \in 0 .. Pages : at[k] = p
  BY <1>13
<1>15. QED BY <1>10, <1>11, <1>12, <1>14 DEF at, y

--------------------------------------------------------------------------------
(* Pages *)

\* What is known of the parameters.
LEMMA Parameters ==
    /\ Width \in Nat \ {0} /\ Slots \in Nat \ {0} /\ Rest \in Nat \ {0} /\ Pages \in Nat
    /\ PageSlots \in Nat \ {0} /\ PageSlots = Slots + Rest /\ PageBytes \in Nat \ {0}
    /\ Mark \in Spare /\ Slot \cap Spare = {} /\ Slot \cup Spare = 0 .. PageSlots - 1
    /\ Page = 0 .. Pages - 1 /\ Nil \notin Page
    /\ Lengths \subseteq Nat \ {0}
<1>1. /\ Width \in Nat \ {0} /\ Slots \in Nat \ {0} /\ Rest \in Nat \ {0} /\ Pages \in Nat
      /\ Lengths \subseteq Nat \ {0}
  BY HeapAssumption
<1>2. PageSlots \in Nat \ {0} /\ PageSlots = Slots + Rest
  BY <1>1 DEF PageSlots
<1>3. PageBytes \in Nat \ {0}
  BY <1>1, <1>2 DEF PageBytes
<1>4. Mark \in Spare /\ Slot \cap Spare = {} /\ Slot \cup Spare = 0 .. PageSlots - 1
  BY <1>1, <1>2 DEF Mark, Spare, Slot
<1>5. Page = 0 .. Pages - 1 /\ Nil \notin Page
  BY NilNoPage DEF Page
<1>6. QED BY <1>1, <1>2, <1>3, <1>4, <1>5

\* Where n slots are free one after the other, so are fewer.
LEMMA FitsFewer ==
    ASSUME NEW bits, NEW n \in 0 .. Slots, NEW k \in 0 .. n, Fits(n, bits) # {}
    PROVE  Fits(k, bits) # {}
<1>1. PICK o \in 0 .. Slots - n : (o .. o + n - 1) \cap bits = {}
  BY DEF Fits
<1>2. o \in 0 .. Slots - k /\ o .. o + k - 1 \subseteq o .. o + n - 1
  BY Parameters
<1>3. QED BY <1>1, <1>2 DEF Fits

\* The largest aperture is one, and there is no larger one.
LEMMA MaxApertureShape ==
    ASSUME NEW bits
    PROVE  /\ MaxAperture(bits) \in 0 .. Slots
           /\ \A n \in 0 .. Slots : Fits(n, bits) # {} <=> n <= MaxAperture(bits)
<1> DEFINE Good(n) == Fits(n, bits) # {} /\ \A k \in n + 1 .. Slots : Fits(k, bits) = {}
           T == {m \in 0 .. Slots : Fits(Slots - m, bits) # {}}
<1>1. Slots \in Nat
  BY Parameters
<1>2. Fits(0, bits) # {}
  <2>1. 0 \in 0 .. Slots - 0 /\ 0 .. 0 + 0 - 1 = {}
    BY <1>1
  <2>2. QED BY <2>1 DEF Fits
<1>3. T \in SUBSET Nat /\ Slots \in T
  <2>1. Slots - Slots = 0
    BY <1>1
  <2>2. QED BY <1>1, <1>2, <2>1
<1>4. PICK m \in T : \A l \in T : m <= l
  <2> HIDE DEF T
  <2>1. T \in SUBSET Nat /\ T # {}
    BY <1>3
  <2>2. QED BY ONLY <2>1, LeastOfNat
<1>5. Slots - m \in 0 .. Slots /\ Good(Slots - m)
  <2>1. Slots - m \in 0 .. Slots /\ Fits(Slots - m, bits) # {}
    BY <1>1, <1>4
  <2>2. ASSUME NEW k \in Slots - m + 1 .. Slots PROVE Fits(k, bits) = {}
    <3>1. Slots - k \in 0 .. Slots /\ Slots - k < m /\ Slots - (Slots - k) = k
      BY <1>1, <1>4, <2>1
    <3>2. Slots - k \notin T
      BY <1>1, <1>4, <3>1
    <3>3. QED BY <3>1, <3>2
  <2>3. QED BY <2>1, <2>2
<1>6. MaxAperture(bits) = CHOOSE n \in 0 .. Slots : Good(n)
  BY DEF MaxAperture
<1>7. MaxAperture(bits) \in 0 .. Slots /\ Good(MaxAperture(bits))
  <2> HIDE DEF Good
  <2>1. \E n \in 0 .. Slots : Good(n)
    BY <1>5
  <2>2. QED BY <1>6, <2>1, Zenon
<1>8. PICK x \in 0 .. Slots : x = MaxAperture(bits) /\ Good(x)
  BY <1>7
<1>9. ASSUME NEW n \in 0 .. Slots PROVE Fits(n, bits) # {} <=> n <= x
  <2>1. n <= x => Fits(n, bits) # {}
    <3>1. n <= x => n \in 0 .. x
      BY <1>1
    <3>2. QED BY <1>8, <3>1, FitsFewer
  <2>2. ~(n <= x) => n \in x + 1 .. Slots
    BY <1>1, <1>8
  <2>3. QED BY <1>8, <2>1, <2>2
<1>10. QED BY <1>8, <1>9

\* The aperture found is one.
LEMMA ApertureShape ==
    ASSUME NEW bits, NEW n \in 0 .. Slots, Fits(n, bits) # {}
    PROVE  /\ Aperture(n, bits) \in 0 .. Slots - n
           /\ (Aperture(n, bits) .. Aperture(n, bits) + n - 1) \cap bits = {}
<1>1. Fits(n, bits) \in SUBSET Nat
  BY Parameters DEF Fits
<1>2. \E o \in Fits(n, bits) : \A q \in Fits(n, bits) : o <= q
  <2>1. Fits(n, bits) # {}
    OBVIOUS
  <2>2. QED BY ONLY <1>1, <2>1, LeastOfNat
<1>3. Aperture(n, bits) \in Fits(n, bits)
  BY <1>2, Zenon DEF Aperture
<1>4. QED BY <1>3 DEF Fits

\* In a page whose first slots are taken, the others are its largest aperture.
LEMMA FreshAperture ==
    ASSUME NEW taken \in 0 .. Slots, NEW spare \in SUBSET Spare
    PROVE  MaxAperture((0 .. taken - 1) \cup spare) = Slots - taken
<1> DEFINE bits == (0 .. taken - 1) \cup spare
           n == Slots - taken
<1>1. Slots \in Nat /\ n \in 0 .. Slots /\ spare \subseteq Slots .. PageSlots - 1
  BY Parameters DEF Spare
<1>2. Fits(n, bits) # {}
  <2>1. taken \in 0 .. Slots - n /\ taken + n - 1 = Slots - 1
    BY <1>1
  <2>2. (taken .. Slots - 1) \cap bits = {}
    BY <1>1
  <2>3. QED BY <2>1, <2>2 DEF Fits
<1>3. ASSUME NEW k \in 0 .. Slots, k > n PROVE Fits(k, bits) = {}
  <2>1. ASSUME NEW o \in 0 .. Slots - k PROVE o \in (o .. o + k - 1) \cap bits
    BY <1>1, <1>3
  <2>2. QED BY <2>1 DEF Fits
<1>4. PICK x \in 0 .. Slots : x = MaxAperture(bits) /\ (Fits(x, bits) # {})
                              /\ (Fits(n, bits) # {} <=> n <= x)
  <2> HIDE DEF bits, n
  <2>1. MaxAperture(bits) \in 0 .. Slots
        /\ \A k \in 0 .. Slots : Fits(k, bits) # {} <=> k <= MaxAperture(bits)
    BY MaxApertureShape
  <2>2. MaxAperture(bits) <= MaxAperture(bits)
    BY <1>1, <2>1
  <2>3. QED BY <1>1, <2>1, <2>2
<1> HIDE DEF bits
<1>5. x = n
  BY <1>1, <1>2, <1>3, <1>4
<1>6. QED BY <1>4, <1>5 DEF bits

--------------------------------------------------------------------------------
(* Blocks *)

\* How many slots and pages a block has, and its slots in the last page.
LEMMA BlockSizes ==
    ASSUME NEW len \in Lengths
    PROVE  /\ len \in Nat \ {0}
           /\ SlotLen(len) \in Nat \ {0}
           /\ \A k \in Nat : SlotLen(len) <= k <=> len <= k * Width
           /\ NumPages(len) \in Nat \ {0}
           /\ \A k \in Nat : NumPages(len) <= k <=> len + Width * Rest <= k * PageBytes
           /\ LastSlots(len) \in Nat
           /\ \A k \in Nat : LastSlots(len) <= k <=> len % PageBytes <= k * Width
<1>1. len \in Nat \ {0}
  BY Parameters
<1>2. Width \in Nat \ {0} /\ Rest \in Nat \ {0} /\ PageBytes \in Nat \ {0}
  BY Parameters
<1>3. /\ SlotLen(len) \in Nat
      /\ \A k \in Nat : SlotLen(len) <= k <=> len <= k * Width
  BY <1>1, <1>2, RoundUp DEF SlotLen
<1>4. PICK a \in Nat : a = len + Width * Rest
  BY <1>1, <1>2
<1>5. /\ (a + PageBytes - 1) \div PageBytes \in Nat
      /\ \A k \in Nat : (a + PageBytes - 1) \div PageBytes <= k <=> a <= k * PageBytes
  BY <1>2, RoundUp
<1>6. /\ NumPages(len) \in Nat
      /\ \A k \in Nat : NumPages(len) <= k <=> a <= k * PageBytes
  BY <1>4, <1>5 DEF NumPages
<1>7. PICK m \in Nat : m = len % PageBytes
  BY <1>1, <1>2
<1>8. /\ (m + Width - 1) \div Width \in Nat
      /\ \A k \in Nat : (m + Width - 1) \div Width <= k <=> m <= k * Width
  BY <1>2, RoundUp
<1>9. /\ LastSlots(len) \in Nat
      /\ \A k \in Nat : LastSlots(len) <= k <=> len % PageBytes <= k * Width
  BY <1>7, <1>8 DEF LastSlots
<1>10. SlotLen(len) # 0
  <2>1. 0 * Width = 0
    BY <1>2
  <2>2. QED BY <1>1, <1>3, <2>1
<1>11. NumPages(len) # 0
  <2>1. 0 * PageBytes = 0
    BY <1>2
  <2>2. a > 0
    <3>1. Width * Rest \in Nat
      BY <1>2
    <3>2. QED BY <1>1, <1>4, <3>1
  <2>3. QED BY <1>6, <2>1, <2>2
<1>12. QED BY <1>1, <1>3, <1>4, <1>6, <1>9, <1>10, <1>11

\* A block has room in its pages.
LEMMA BlockInPages ==
    ASSUME NEW len \in Lengths
    PROVE  SlotLen(len) <= NumPages(len) * PageSlots
<1>1. Width \in Nat \ {0} /\ Rest \in Nat \ {0} /\ PageSlots \in Nat \ {0}
      /\ PageBytes = Width * PageSlots /\ PageBytes \in Nat \ {0}
  BY Parameters DEF PageBytes
<1>2. PICK n \in Nat : n = NumPages(len) /\ len + Width * Rest <= n * PageBytes
  <2>1. NumPages(len) \in Nat
    BY BlockSizes
  <2>2. NumPages(len) <= NumPages(len)
    BY <2>1
  <2>3. QED BY <2>1, <2>2, BlockSizes
<1>3. n * PageBytes = (n * PageSlots) * Width
  BY <1>1
<1>4. n * PageSlots \in Nat /\ Width * Rest \in Nat /\ len \in Nat
  BY <1>1, BlockSizes
<1>5. len <= (n * PageSlots) * Width
  <2>1. (n * PageSlots) * Width \in Nat
    BY <1>1, <1>4
  <2>2. QED BY <1>2, <1>3, <1>4, <2>1
<1>6. SlotLen(len) <= n * PageSlots
  BY <1>4, <1>5, BlockSizes
<1>7. QED BY <1>2, <1>6

\* Where the last page has room left for its pointers, the slots of a block are all those
\* of the pages before it and the first ones of the last.
LEMMA BlockFills ==
    ASSUME NEW len \in Lengths, LastSlots(len) <= Slots
    PROVE  /\ SlotLen(len) = (NumPages(len) - 1) * PageSlots + LastSlots(len)
           /\ NumPages(len) = 1 => LastSlots(len) > 0
<1>1. Width \in Nat \ {0} /\ Slots \in Nat \ {0} /\ Rest \in Nat \ {0}
      /\ PageSlots \in Nat \ {0} /\ PageBytes \in Nat \ {0}
  BY Parameters
<1>2. PageBytes = PageSlots * Width /\ PageBytes = Slots * Width + Width * Rest
  <2>1. PageBytes = Width * (Slots + Rest)
    BY DEF PageBytes, PageSlots
  <2>2. Width * (Slots + Rest) = Slots * Width + Width * Rest
    BY <1>1
  <2>3. QED BY <2>1, <2>2, <1>1 DEF PageBytes
<1>3. PICK k \in Nat, m \in 0 .. PageBytes - 1 :
          m = len % PageBytes /\ len = k * PageBytes + m
  <2>1. PICK d, k, m : d = PageBytes /\ k = len \div d /\ m = len % d
    OBVIOUS
  <2>2. len \in Nat /\ d \in Nat \ {0}
    BY <1>1, <2>1, BlockSizes
  <2>3. k \in Nat /\ m \in 0 .. d - 1 /\ len = k * d + m
    BY <2>1, <2>2, DivMod
  <2>4. QED BY <2>1, <2>3
<1>4. PICK s \in Nat, n \in Nat, l \in Nat :
          /\ s = SlotLen(len) /\ n = NumPages(len) /\ l = LastSlots(len)
          /\ len \in Nat \ {0} /\ s # 0 /\ n # 0
          /\ \A j \in Nat : s <= j <=> len <= j * Width
          /\ \A j \in Nat : n <= j <=> len + Width * Rest <= j * PageBytes
          /\ \A j \in Nat : l <= j <=> m <= j * Width
  BY <1>3, BlockSizes
<1>5. Width * Rest \in Nat \ {0} /\ Slots * Width \in Nat /\ k * PageBytes \in Nat
  BY <1>1
<1>6. m <= Slots * Width
  BY <1>1, <1>4
<1>7. n = k + 1
  <2>1. (k + 1) * PageBytes = k * PageBytes + PageBytes
    BY <1>1, Multiples
  <2>2. len + Width * Rest <= (k + 1) * PageBytes
    BY <1>1, <1>2, <1>3, <1>5, <1>6, <2>1
  <2>3. n <= k + 1
    BY <1>4, <2>2
  <2>4. ~(len + Width * Rest <= k * PageBytes)
    BY <1>3, <1>5
  <2>5. ~(n <= k)
    BY <1>4, <2>4
  <2>6. QED BY <2>3, <2>5
<1>8. PICK f \in Nat : f = k * PageSlots /\ f * Width = k * PageBytes
  <2>1. k * PageSlots \in Nat /\ (k * PageSlots) * Width = k * PageBytes
    BY <1>1, <1>2
  <2>2. QED BY <2>1
<1>9. s <= f + l
  <2>1. l <= l /\ l * Width \in Nat /\ f * Width \in Nat
    BY <1>1
  <2>2. m <= l * Width
    BY <1>4, <2>1
  <2>3. (f + l) * Width = f * Width + l * Width
    BY <1>1, Multiples
  <2>4. len <= (f + l) * Width
    BY <1>3, <1>5, <1>8, <2>1, <2>2, <2>3
  <2>5. f + l \in Nat
    OBVIOUS
  <2>6. QED BY <1>4, <2>4, <2>5
<1>10. CASE l = 0
  <2>1. m = 0
    <3>1. 0 * Width = 0
      BY <1>1
    <3>2. QED BY <1>3, <1>4, <1>10, <3>1
  <2>2. k # 0 /\ f # 0
    <3>1. k = 0 => k * PageBytes = 0
      BY <1>1
    <3>2. f = 0 => f * Width = 0
      BY <1>1
    <3>3. QED BY <1>3, <1>4, <1>5, <1>8, <2>1, <3>1, <3>2
  <2>3. (f - 1) * Width = f * Width - Width /\ f - 1 \in Nat
    BY <1>1, <2>2, Multiples
  <2>4. ~(len <= (f - 1) * Width)
    BY <1>1, <1>3, <1>5, <1>8, <2>1, <2>3
  <2>5. ~(s <= f - 1)
    BY <1>4, <2>3, <2>4
  <2>6. s = f + l
    BY <1>9, <1>10, <2>3, <2>5
  <2>7. n # 1
    BY <1>7, <2>2
  <2>8. QED BY <1>4, <1>7, <1>8, <2>6, <2>7
<1>11. CASE l # 0
  <2>1. l - 1 \in Nat /\ ~(l <= l - 1)
    BY <1>11
  <2>2. ~(m <= (l - 1) * Width)
    BY <1>4, <2>1
  <2>3. (f + (l - 1)) * Width = f * Width + (l - 1) * Width
    BY <1>1, <2>1, Multiples
  <2>4. (l - 1) * Width \in Nat
    BY <1>1, <2>1
  <2>5. ~(len <= (f + (l - 1)) * Width)
    BY <1>3, <1>5, <1>8, <2>2, <2>3, <2>4
  <2>6. ~(s <= f + (l - 1))
    <3>1. f + (l - 1) \in Nat
      BY <2>1
    <3>2. QED BY <1>4, <2>5, <3>1
  <2>7. s = f + l
    BY <1>9, <2>1, <2>6
  <2>8. QED BY <1>4, <1>7, <1>8, <1>11, <2>7
<1>12. QED BY <1>10, <1>11

\* A block that fits in a page has one.
LEMMA SmallBlock ==
    ASSUME NEW len \in Lengths, SlotLen(len) <= Slots
    PROVE  NumPages(len) = 1 /\ LastSlots(len) = SlotLen(len)
<1>1. Width \in Nat \ {0} /\ Slots \in Nat \ {0} /\ Rest \in Nat \ {0} /\ PageBytes \in Nat \ {0}
  BY Parameters
<1>2. PageBytes = Slots * Width + Width * Rest
  <2>1. PageBytes = Width * (Slots + Rest)
    BY DEF PageBytes, PageSlots
  <2>2. Width * (Slots + Rest) = Slots * Width + Width * Rest
    BY <1>1
  <2>3. QED BY <2>1, <2>2
<1>3. Width * Rest \in Nat \ {0} /\ Slots * Width \in Nat
  BY <1>1
<1>4. len \in Nat /\ len <= Slots * Width
  BY <1>1, BlockSizes
<1>5. NumPages(len) <= 1
  <2>1. 1 * PageBytes = PageBytes /\ 1 \in Nat
    BY <1>1
  <2>2. len + Width * Rest <= 1 * PageBytes
    BY <1>2, <1>3, <1>4, <2>1
  <2>3. QED BY <2>1, <2>2, BlockSizes
<1>6. NumPages(len) = 1
  BY <1>5, BlockSizes
<1>7. len < PageBytes
  BY <1>2, <1>3, <1>4
<1>8. len % PageBytes = len
  BY <1>1, <1>4, <1>7
<1>9. LastSlots(len) = SlotLen(len)
  BY <1>8 DEF LastSlots, SlotLen
<1>10. QED BY <1>6, <1>9

--------------------------------------------------------------------------------
(* Where a block lies *)

\* The block of len bytes at slot o of a page.
Block(page, o, len) == <<page * PageSlots + o, len>>

\* The pages and bits of a block, by its page and its place in it.
LEMMA BlockShape ==
    ASSUME NEW first \in Nat, NEW o \in 0 .. PageSlots - 1, NEW len \in Lengths,
           NEW b, b = Block(first, o, len)
    PROVE  /\ b \in Nat \X Lengths
           /\ FirstPage(b) = first /\ Offset(b) = o
           /\ LastPage(b) = IF o = 0 THEN first + NumPages(len) - 1 ELSE first
           /\ BitsOf(b) = IF o = 0 THEN 0 .. LastSlots(len) - 1 ELSE o .. o + SlotLen(len) - 1
           /\ MarkOf(b) = IF o = 0 /\ NumPages(len) > 1 THEN {Mark} ELSE {}
<1>1. PageSlots \in Nat \ {0}
  BY Parameters
<1>2. /\ first * PageSlots + o \in Nat
      /\ (first * PageSlots + o) \div PageSlots = first
      /\ (first * PageSlots + o) % PageSlots = o
  BY <1>1, DivUnique
<1>3. b[1] = first * PageSlots + o /\ b[2] = len
  BY DEF Block
<1>4. FirstPage(b) = first /\ Offset(b) = o /\ b \in Nat \X Lengths
  BY <1>2, <1>3 DEF FirstPage, Offset, Block
<1>5. NumPages(len) \in Nat \ {0}
  BY BlockSizes
<1>6. LastPage(b) = IF o = 0 THEN first + NumPages(len) - 1 ELSE first
  BY <1>3, <1>4 DEF LastPage
<1>7. BitsOf(b) = IF o = 0 THEN 0 .. LastSlots(len) - 1 ELSE o .. o + SlotLen(len) - 1
  BY <1>3, <1>4 DEF BitsOf
<1>8. LastPage(b) > FirstPage(b) <=> (o = 0 /\ NumPages(len) > 1)
  BY <1>4, <1>5, <1>6
<1>9. MarkOf(b) = IF o = 0 /\ NumPages(len) > 1 THEN {Mark} ELSE {}
  BY <1>8 DEF MarkOf
<1>10. QED BY <1>4, <1>6, <1>7, <1>9

\* A block put into a page is in this page only, and its bits are its slots.
LEMMA BlockInPage ==
    ASSUME NEW page \in Page, NEW len \in Lengths, NEW o \in 0 .. Slots - SlotLen(len),
           SlotLen(len) \in 0 .. Slots, NEW b, b = Block(page, o, len)
    PROVE  /\ b \in Nat \X Lengths
           /\ FirstPage(b) = page /\ LastPage(b) = page /\ Offset(b) = o
           /\ BitsOf(b) = o .. o + SlotLen(len) - 1 /\ MarkOf(b) = {}
           /\ BitsOf(b) \subseteq Slot /\ BitsOf(b) # {}
<1>1. /\ Slots \in Nat \ {0} /\ Rest \in Nat \ {0} /\ PageSlots = Slots + Rest
      /\ page \in Nat /\ Pages \in Nat
  BY Parameters DEF Page
<1>2. SlotLen(len) \in Nat \ {0} /\ o \in 0 .. PageSlots - 1
  BY <1>1, BlockSizes
<1>3. NumPages(len) = 1 /\ LastSlots(len) = SlotLen(len)
  BY SmallBlock, <1>1
<1>4. o \in 0 .. PageSlots - 1
  BY <1>2
<1>5. /\ b \in Nat \X Lengths
      /\ FirstPage(b) = page /\ Offset(b) = o
      /\ LastPage(b) = IF o = 0 THEN page + NumPages(len) - 1 ELSE page
      /\ BitsOf(b) = IF o = 0 THEN 0 .. LastSlots(len) - 1 ELSE o .. o + SlotLen(len) - 1
      /\ MarkOf(b) = IF o = 0 /\ NumPages(len) > 1 THEN {Mark} ELSE {}
  <2>0. page \in Nat
    BY <1>1
  <2>1. b \in Nat \X Lengths
    BY <2>0, <1>4, BlockShape
  <2>2. FirstPage(b) = page
    BY <2>0, <1>4, BlockShape
  <2>3. Offset(b) = o
    BY <2>0, <1>4, BlockShape
  <2>4. LastPage(b) = IF o = 0 THEN page + NumPages(len) - 1 ELSE page
    BY <2>0, <1>4, BlockShape
  <2>5. BitsOf(b) = IF o = 0 THEN 0 .. LastSlots(len) - 1 ELSE o .. o + SlotLen(len) - 1
    BY <2>0, <1>4, BlockShape
  <2>6. MarkOf(b) = IF o = 0 /\ NumPages(len) > 1 THEN {Mark} ELSE {}
    BY <2>0, <1>4, BlockShape
  <2>7. QED BY <2>1, <2>2, <2>3, <2>4, <2>5, <2>6
<1>6. LastPage(b) = page /\ MarkOf(b) = {} /\ BitsOf(b) = o .. o + SlotLen(len) - 1
  BY <1>1, <1>2, <1>3, <1>5
<1>7. BitsOf(b) \subseteq Slot /\ o \in BitsOf(b)
  BY <1>1, <1>2, <1>6 DEF Slot
<1>8. QED BY <1>4, <1>5, <1>6, <1>7

--------------------------------------------------------------------------------
(* The blocks and the bits, for the pages m mapped, the bitmaps bm and the blocks lv *)

\* The pages of a block but the last.
Heads(b) == FirstPage(b) .. LastPage(b) - 1

\* A block lies in pages that are mapped; its bits are set in the last, and the others have
\* none.
WellPlaced(b, m, bm) ==
    /\ b \in Nat \X Lengths
    /\ FirstPage(b) \in Page /\ LastPage(b) \in Page /\ FirstPage(b) <= LastPage(b)
    /\ FirstPage(b) .. LastPage(b) \subseteq m
    /\ BitsOf(b) \subseteq Slot
    /\ BitsOf(b) \cup MarkOf(b) \subseteq bm[LastPage(b)]
    /\ BitsOf(b) \cup MarkOf(b) # {}
    /\ \A p \in Heads(b) : bm[p] = {}
\* Two blocks share no slot; they may share their last page.
Apart(b, c) ==
    /\ LastPage(b) = LastPage(c) => BitsOf(b) \cap BitsOf(c) = {}
    /\ Heads(b) \cap (FirstPage(c) .. LastPage(c)) = {}
BlocksInv(m, bm, lv) ==
    /\ \A b \in lv : WellPlaced(b, m, bm)
    /\ \A b, c \in lv : b # c => Apart(b, c)

\* The bits of a page are those of the blocks that end in it; its spare bits, but for the
\* mark, those it came with; and it is mapped while it has a bit or is in a block.
BitsHere(p, bm, lv) == bm[p] \cap Slot = UNION {BitsOf(b) : b \in {c \in lv : LastPage(c) = p}}
SparesHere(p, bm, lv) ==
    \E bits \in Leftovers :
        /\ (bm[p] \cap Spare) \ {Mark} = bits \ {Mark}
        /\ Mark \in bm[p] => Mark \in bits \/ \E b \in lv : LastPage(b) = p /\ Mark \in MarkOf(b)
InUse(p, m, bm, lv) ==
    /\ bm[p] # {} => p \in m
    /\ p \in m => bm[p] # {} \/ \E b \in lv : p \in Heads(b)
BitsInv(m, bm, lv) ==
    \A p \in Page : BitsHere(p, bm, lv) /\ SparesHere(p, bm, lv) /\ InUse(p, m, bm, lv)

\* A new block in free slots of a page of the heap, or in pages that come with junk in
\* the spare bits of the last, lies apart from the others.
LEMMA BlockAdded ==
    ASSUME NEW m \in SUBSET Page, NEW bm \in [Page -> SUBSET (0 .. PageSlots - 1)], NEW lv,
           BlocksInv(m, bm, lv), BitsInv(m, bm, lv),
           NEW b \in Nat \X Lengths, NEW junk \in SUBSET Spare,
           FirstPage(b) \in Page, LastPage(b) \in Page, FirstPage(b) <= LastPage(b),
           BitsOf(b) \subseteq Slot, BitsOf(b) \cup MarkOf(b) # {},
           BitsOf(b) \cap bm[LastPage(b)] = {},
           Heads(b) \cap m = {},
           \/ LastPage(b) \in m /\ bm[LastPage(b)] # {} /\ junk = {}
           \/ LastPage(b) \notin m /\ junk \in Leftovers,
           NEW m2, m2 = m \cup (FirstPage(b) .. LastPage(b)),
           NEW bm2, bm2 = [bm EXCEPT ![LastPage(b)] =
                              bm[LastPage(b)] \cup BitsOf(b) \cup junk \cup MarkOf(b)]
    PROVE  BlocksInv(m2, bm2, lv \cup {b}) /\ BitsInv(m2, bm2, lv \cup {b})
<1> DEFINE page == LastPage(b)
           new == bm[page] \cup BitsOf(b) \cup junk \cup MarkOf(b)
<1>1. /\ page \in Nat /\ FirstPage(b) \in Nat /\ Mark \in Spare /\ Slot \cap Spare = {}
      /\ FirstPage(b) .. page \subseteq Page /\ \A p \in Page : p \in Nat
  BY Parameters DEF Page
<1>2. bm2[page] = new /\ \A p \in Page : p # page => bm2[p] = bm[p]
  OBVIOUS
<1>3. /\ FirstPage(b) .. page = Heads(b) \cup {page} /\ page \notin Heads(b)
      /\ Heads(b) \subseteq Page
  BY <1>1 DEF Heads
<1>4. \A p \in Page : p \notin m => bm[p] = {}
  BY DEF BitsInv, InUse
<1>5. \A c \in lv : page \notin Heads(c)
  <2> TAKE c \in lv
  <2>1. Heads(c) \subseteq m /\ \A p \in Heads(c) : bm[p] = {}
    <3>1. WellPlaced(c, m, bm)
      BY DEF BlocksInv
    <3>2. Heads(c) \subseteq FirstPage(c) .. LastPage(c)
      BY <3>1 DEF Heads, WellPlaced, Page
    <3>3. QED BY <3>1, <3>2 DEF WellPlaced
  <2>2. QED BY <2>1
<1>6. MarkOf(b) \subseteq {Mark}
  BY DEF MarkOf
<1>7. ASSUME NEW c \in lv PROVE WellPlaced(c, m2, bm2) /\ Apart(b, c) /\ Apart(c, b)
  <2>1. WellPlaced(c, m, bm)
    BY DEF BlocksInv
  <2>2. LastPage(c) \in m /\ FirstPage(c) .. LastPage(c) \subseteq m
    BY <2>1 DEF WellPlaced, Page
  <2>3. \A p \in Heads(c) : p \in Page /\ p # page
    BY <1>5, <2>1, <2>2 DEF Heads, WellPlaced, Page
  <2>4. \A p \in Heads(c) : bm2[p] = {}
    BY <1>2, <2>1, <2>3 DEF WellPlaced
  <2>5. bm[LastPage(c)] \subseteq bm2[LastPage(c)]
    BY <1>2, <2>1 DEF WellPlaced
  <2>6. WellPlaced(c, m2, bm2)
    BY <2>1, <2>2, <2>4, <2>5 DEF WellPlaced
  <2>7. Heads(b) \cap (FirstPage(c) .. LastPage(c)) = {}
    BY <2>2
  <2>8. page = LastPage(c) => BitsOf(b) \cap BitsOf(c) = {}
    BY <2>1 DEF WellPlaced
  <2>9. Heads(c) \cap (FirstPage(b) .. page) = {}
    <3>1. Heads(c) \subseteq m
      BY <2>1, <2>2 DEF Heads, WellPlaced, Page
    <3>2. QED BY <3>1, <1>3, <1>5
  <2>10. QED BY <2>6, <2>7, <2>8, <2>9 DEF Apart
<1>8. WellPlaced(b, m2, bm2)
  <2>1. \A p \in Heads(b) : bm2[p] = {}
    BY <1>2, <1>3, <1>4
  <2>2. BitsOf(b) \cup MarkOf(b) \subseteq bm2[page]
    BY <1>2
  <2>3. QED BY <2>1, <2>2 DEF WellPlaced
<1>9. BlocksInv(m2, bm2, lv \cup {b})
  BY <1>7, <1>8 DEF BlocksInv
<1>10. ASSUME NEW p \in Page PROVE BitsHere(p, bm2, lv \cup {b})
  <2>1. BitsHere(p, bm, lv)
    BY DEF BitsInv
  <2>2. CASE p = page
    <3>1. new \cap Slot = (bm[page] \cap Slot) \cup BitsOf(b)
      BY <1>1, <1>6
    <3>2. QED BY <1>2, <2>1, <2>2, <3>1 DEF BitsHere
  <2>3. CASE p # page
    <3>1. {c \in lv \cup {b} : LastPage(c) = p} = {c \in lv : LastPage(c) = p}
      BY <2>3
    <3>2. QED BY <1>2, <2>1, <2>3, <3>1 DEF BitsHere
  <2>4. QED BY <2>2, <2>3
<1>11. ASSUME NEW p \in Page PROVE SparesHere(p, bm2, lv \cup {b})
  <2>1. SparesHere(p, bm, lv)
    BY DEF BitsInv
  <2>2. CASE p # page
    BY <1>2, <2>1, <2>2 DEF SparesHere
  <2>3. CASE p = page /\ page \in m
    <3>1. PICK bits \in Leftovers :
             /\ (bm[page] \cap Spare) \ {Mark} = bits \ {Mark}
             /\ Mark \in bm[page] =>
                   Mark \in bits \/ \E c \in lv : LastPage(c) = page /\ Mark \in MarkOf(c)
      BY <2>1, <2>3 DEF SparesHere
    <3>2. (new \cap Spare) \ {Mark} = bits \ {Mark}
      BY <1>1, <1>6, <2>3, <3>1
    <3>3. Mark \in new => Mark \in bm[page] \/ Mark \in MarkOf(b)
      BY <1>1, <2>3
    <3>4. Mark \in new =>
             Mark \in bits \/ \E c \in lv \cup {b} : LastPage(c) = page /\ Mark \in MarkOf(c)
      BY <3>1, <3>3
    <3>5. QED BY <1>2, <2>3, <3>2, <3>4 DEF SparesHere
  <2>4. CASE p = page /\ page \notin m
    <3>1. junk \in Leftovers /\ new = BitsOf(b) \cup junk \cup MarkOf(b)
      BY <1>4, <2>4
    <3>2. (new \cap Spare) \ {Mark} = junk \ {Mark}
      BY <1>1, <1>6, <3>1
    <3>3. Mark \in new => Mark \in junk \/ Mark \in MarkOf(b)
      BY <1>1, <3>1
    <3>4. Mark \in new =>
             Mark \in junk \/ \E c \in lv \cup {b} : LastPage(c) = page /\ Mark \in MarkOf(c)
      BY <3>3
    <3>5. QED BY <1>2, <2>4, <3>1, <3>2, <3>4 DEF SparesHere
  <2>5. QED BY <2>2, <2>3, <2>4
<1>12. ASSUME NEW p \in Page PROVE InUse(p, m2, bm2, lv \cup {b})
  <2>1. InUse(p, m, bm, lv)
    BY DEF BitsInv
  <2>2. CASE p = page
    BY <1>2, <1>3, <2>2 DEF InUse
  <2>3. CASE p # page
    BY <1>2, <1>3, <2>1, <2>3 DEF InUse
  <2>4. QED BY <2>2, <2>3
<1>13. QED BY <1>9, <1>10, <1>11, <1>12 DEF BitsInv

\* When a block goes, with its first pages and, if no bit is left in it, the last, the
\* pages and bits of the others stay.
LEMMA BlockRemoved ==
    ASSUME NEW m \in SUBSET Page, NEW bm \in [Page -> SUBSET (0 .. PageSlots - 1)], NEW lv,
           BlocksInv(m, bm, lv), BitsInv(m, bm, lv), NEW b \in lv,
           NEW left, left = bm[LastPage(b)] \ (BitsOf(b) \cup MarkOf(b)),
           NEW m2, m2 = m \ (FirstPage(b) .. IF left = {} THEN LastPage(b) ELSE LastPage(b) - 1),
           NEW bm2, bm2 = [bm EXCEPT ![LastPage(b)] = left]
    PROVE  BlocksInv(m2, bm2, lv \ {b}) /\ BitsInv(m2, bm2, lv \ {b})
<1> DEFINE page == LastPage(b)
<1>1. /\ Mark \in Spare /\ Slot \cap Spare = {}
      /\ \A p \in Page : p \in Int
  BY Parameters DEF Page
<1>2. WellPlaced(b, m, bm)
  BY DEF BlocksInv
<1>3. /\ page \in Page /\ page \in m /\ FirstPage(b) \in Page
      /\ FirstPage(b) .. page = Heads(b) \cup {page}
      /\ page \notin Heads(b)
      /\ FirstPage(b) .. page - 1 = Heads(b)
  BY <1>1, <1>2 DEF WellPlaced, Heads
<1>4. m2 = m \ (IF left = {} THEN Heads(b) \cup {page} ELSE Heads(b))
  BY <1>3
<1>5. bm2[page] = left /\ \A p \in Page : p # page => bm2[p] = bm[p]
  BY <1>3
<1>6. \A p \in Page : bm2[p] \subseteq bm[p]
  BY <1>5
<1>7. MarkOf(b) \subseteq {Mark}
  BY DEF MarkOf
<1>8. ASSUME NEW c \in lv, c # b PROVE WellPlaced(c, m2, bm2)
  <2>1. /\ WellPlaced(c, m, bm) /\ Apart(b, c) /\ Apart(c, b)
    BY <1>8 DEF BlocksInv
  <2>2. /\ LastPage(c) \in FirstPage(c) .. LastPage(c)
        /\ FirstPage(c) .. LastPage(c) = Heads(c) \cup {LastPage(c)}
        /\ Heads(c) \subseteq Page
    BY <1>1, <2>1 DEF WellPlaced, Heads, Page
  <2>3. page \notin Heads(c)
    BY <1>3, <2>1 DEF Apart
  <2>4. LastPage(c) = page => MarkOf(b) = {} \/ MarkOf(c) = {}
    <3>1. SUFFICES ASSUME LastPage(c) = page, MarkOf(b) # {}, MarkOf(c) # {} PROVE FALSE
      OBVIOUS
    <3>2. page > FirstPage(b) /\ page > FirstPage(c)
      BY <3>1 DEF MarkOf
    <3>3. page - 1 \in Heads(b) /\ page - 1 \in Heads(c)
      BY <1>1, <1>3, <2>1, <3>1, <3>2 DEF Heads, WellPlaced
    <3>4. QED BY <2>1, <2>2, <3>3 DEF Apart
  <2>5. BitsOf(c) \cup MarkOf(c) \subseteq bm2[LastPage(c)]
    <3>1. CASE LastPage(c) # page
      BY <1>5, <2>1, <3>1 DEF WellPlaced
    <3>2. CASE LastPage(c) = page
      <4>1. BitsOf(c) \cup MarkOf(c) \subseteq bm[page] /\ BitsOf(c) \subseteq Slot
        BY <2>1, <3>2 DEF WellPlaced
      <4>2. BitsOf(c) \cap BitsOf(b) = {}
        BY <2>1, <3>2 DEF Apart
      <4>3. MarkOf(c) \subseteq {Mark} /\ BitsOf(b) \subseteq Slot
        BY <1>2 DEF MarkOf, WellPlaced
      <4>4. BitsOf(c) \cup MarkOf(c) \subseteq left
        BY <1>1, <1>7, <2>4, <3>2, <4>1, <4>2, <4>3
      <4>5. QED BY <1>5, <3>2, <4>4
    <3>3. QED BY <3>1, <3>2
  <2>6. FirstPage(c) .. LastPage(c) \subseteq m2
    <3>1. FirstPage(c) .. LastPage(c) \subseteq m
      BY <2>1 DEF WellPlaced
    <3>2. Heads(b) \cap (FirstPage(c) .. LastPage(c)) = {}
      BY <2>1 DEF Apart
    <3>3. left = {} => LastPage(c) # page
      BY <1>5, <2>1, <2>5 DEF WellPlaced
    <3>4. QED BY <1>4, <2>2, <2>3, <3>1, <3>2, <3>3
  <2>7. \A p \in Heads(c) : bm2[p] = {}
    BY <1>6, <2>1, <2>2 DEF WellPlaced
  <2>8. QED BY <2>1, <2>5, <2>6, <2>7 DEF WellPlaced
<1>9. BlocksInv(m2, bm2, lv \ {b})
  BY <1>8 DEF BlocksInv
<1>10. ASSUME NEW p \in Page PROVE BitsHere(p, bm2, lv \ {b})
  <2>1. BitsHere(p, bm, lv)
    BY DEF BitsInv
  <2>2. CASE p = page
    <3>1. \A c \in lv \ {b} : LastPage(c) = page => BitsOf(c) \cap BitsOf(b) = {}
      BY DEF BlocksInv, Apart
    <3>2. left \cap Slot = (bm[page] \cap Slot) \ BitsOf(b)
      BY <1>1, <1>7
    <3>3. \A x : x \in bm[page] \cap Slot
                   <=> \E c \in lv : LastPage(c) = page /\ x \in BitsOf(c)
      BY <2>1, <2>2 DEF BitsHere
    <3>4. \A x : x \in left \cap Slot
                   <=> \E c \in lv \ {b} : LastPage(c) = page /\ x \in BitsOf(c)
      BY <3>1, <3>2, <3>3
    <3>5. left \cap Slot = UNION {BitsOf(d) : d \in {c \in lv \ {b} : LastPage(c) = page}}
      BY <3>4
    <3>6. QED BY <1>5, <2>2, <3>5 DEF BitsHere
  <2>3. CASE p # page
    <3>1. {c \in lv \ {b} : LastPage(c) = p} = {c \in lv : LastPage(c) = p}
      BY <2>3
    <3>2. QED BY <1>5, <2>1, <2>3, <3>1 DEF BitsHere
  <2>4. QED BY <2>2, <2>3
<1>11. ASSUME NEW p \in Page PROVE SparesHere(p, bm2, lv \ {b})
  <2>1. PICK bits \in Leftovers :
           /\ (bm[p] \cap Spare) \ {Mark} = bits \ {Mark}
           /\ Mark \in bm[p] =>
                 Mark \in bits \/ \E c \in lv : LastPage(c) = p /\ Mark \in MarkOf(c)
    BY DEF BitsInv, SparesHere
  <2>2. CASE p # page
    <3>1. Mark \in bm2[p] =>
             Mark \in bits \/ \E c \in lv \ {b} : LastPage(c) = p /\ Mark \in MarkOf(c)
      BY <1>5, <2>1, <2>2
    <3>2. QED BY <1>5, <2>1, <2>2, <3>1 DEF SparesHere
  <2>3. CASE p = page
    <3>1. (left \cap Spare) \ {Mark} = bits \ {Mark}
      BY <1>1, <1>2, <1>7, <2>1, <2>3 DEF WellPlaced
    <3>2. Mark \in left =>
             Mark \in bits \/ \E c \in lv \ {b} : LastPage(c) = page /\ Mark \in MarkOf(c)
      BY <2>1, <2>3
    <3>3. QED BY <1>5, <2>3, <3>1, <3>2 DEF SparesHere
  <2>4. QED BY <2>2, <2>3
<1>12. ASSUME NEW p \in Page PROVE InUse(p, m2, bm2, lv \ {b})
  <2>1. InUse(p, m, bm, lv)
    BY DEF BitsInv
  <2>2. CASE p = page
    BY <1>3, <1>4, <1>5, <2>2 DEF InUse
  <2>3. CASE p # page
    <3>1. p \in Heads(b) => bm[p] = {}
      BY <1>2 DEF WellPlaced
    <3>2. bm2[p] # {} => p \in m2
      BY <1>4, <1>5, <2>1, <2>3, <3>1 DEF InUse
    <3>3. p \in m2 => bm2[p] # {} \/ \E c \in lv \ {b} : p \in Heads(c)
      BY <1>4, <1>5, <2>1, <2>3 DEF InUse
    <3>4. QED BY <3>2, <3>3 DEF InUse
  <2>4. QED BY <2>2, <2>3
<1>13. QED BY <1>9, <1>10, <1>11, <1>12 DEF BitsInv

--------------------------------------------------------------------------------
(* The lists hold the pages that have a bit set *)

Listed(bm)    == {p \in Page : bm[p] # {}}
Apertures(bm) == [p \in Page |-> MaxAperture(bm[p])]
ListsInv(l, bm) == l \in Lists /\ Linked(l, Listed(bm), Apertures(bm))

\* A page whose bits change moves to the list of its new aperture.
LEMMA Relisted ==
    ASSUME NEW bm \in [Page -> SUBSET (0 .. PageSlots - 1)], NEW l, ListsInv(l, bm),
           NEW page \in Page, bm[page] # {}, NEW bits \in SUBSET (0 .. PageSlots - 1), bits # {},
           NEW bm2, bm2 = [bm EXCEPT ![page] = bits],
           NEW l2, l2 = Link(Unlink(l, page, MaxAperture(bm[page])), page, MaxAperture(bits))
    PROVE  ListsInv(l2, bm2)
<1> DEFINE L == Listed(bm)
           ap == Apertures(bm)
           bp == Apertures(bm2)
<1>1. L \in SUBSET Page /\ page \in L
  BY DEF Listed
<1>2. ap \in [Page -> 0 .. Slots] /\ bp \in [Page -> 0 .. Slots]
  BY MaxApertureShape DEF Apertures
<1>3. ap[page] = MaxAperture(bm[page]) /\ bp[page] = MaxAperture(bits)
  BY DEF Apertures
<1>4. Listed(bm2) = (L \ {page}) \cup {page}
  BY DEF Listed
<1>5. \A p \in L \ {page} : bp[p] = ap[p]
  BY DEF Apertures, Listed
<1>6. l \in Lists /\ Linked(l, L, ap)
  BY DEF ListsInv
<1> HIDE DEF L, ap, bp
<1>7. PICK l1 : l1 = Unlink(l, page, ap[page])
  OBVIOUS
<1>8. l1 \in Lists /\ Linked(l1, L \ {page}, ap)
  BY <1>1, <1>2, <1>6, <1>7, UnlinkLinked
<1>9. /\ Link(l1, page, bp[page]) \in Lists
      /\ Linked(Link(l1, page, bp[page]), (L \ {page}) \cup {page}, bp)
  BY <1>1, <1>2, <1>5, <1>8, LinkLinked
<1>10. l2 = Link(l1, page, bp[page])
  BY <1>3, <1>7
<1>11. QED BY <1>4, <1>9, <1>10 DEF ListsInv, bp

\* A page whose bits are all cleared is in no list.
LEMMA Delisted ==
    ASSUME NEW bm \in [Page -> SUBSET (0 .. PageSlots - 1)], NEW l, ListsInv(l, bm),
           NEW page \in Page, bm[page] # {},
           NEW bm2, bm2 = [bm EXCEPT ![page] = {}],
           NEW l2, l2 = Gone(Unlink(l, page, MaxAperture(bm[page])), page)
    PROVE  ListsInv(l2, bm2)
<1> DEFINE L == Listed(bm)
           ap == Apertures(bm)
           bp == Apertures(bm2)
<1>1. L \in SUBSET Page /\ page \in L
  BY DEF Listed
<1>2. ap \in [Page -> 0 .. Slots]
  BY MaxApertureShape DEF Apertures
<1>3. ap[page] = MaxAperture(bm[page])
  BY DEF Apertures
<1>4. Listed(bm2) = L \ {page}
  BY DEF Listed
<1>5. \A p \in L \ {page} : bp[p] = ap[p]
  BY DEF Apertures, Listed
<1>6. l \in Lists /\ Linked(l, L, ap)
  BY DEF ListsInv
<1> HIDE DEF L, ap, bp
<1>7. PICK l1 : l1 = Unlink(l, page, ap[page])
  OBVIOUS
<1>8. l1 \in Lists /\ Linked(l1, L \ {page}, ap)
  BY <1>1, <1>2, <1>6, <1>7, UnlinkLinked
<1>9. l2 \in Lists /\ Linked(l2, L \ {page}, ap)
  BY <1>1, <1>2, <1>3, <1>7, <1>8, GoneLinked
<1>10. Linked(l2, L \ {page}, bp)
  BY <1>5, <1>9, SameLinked
<1>11. QED BY <1>4, <1>9, <1>10 DEF ListsInv, bp

\* A page that comes with its bits goes to the list of its aperture.
LEMMA NewlyListed ==
    ASSUME NEW bm \in [Page -> SUBSET (0 .. PageSlots - 1)], NEW l, ListsInv(l, bm),
           NEW page \in Page, bm[page] = {}, NEW bits \in SUBSET (0 .. PageSlots - 1), bits # {},
           NEW bm2, bm2 = [bm EXCEPT ![page] = bits],
           NEW l2, l2 = Link(l, page, MaxAperture(bits))
    PROVE  ListsInv(l2, bm2)
<1> DEFINE L == Listed(bm)
           ap == Apertures(bm)
           bp == Apertures(bm2)
<1>1. L \in SUBSET Page /\ page \notin L
  BY DEF Listed
<1>2. ap \in [Page -> 0 .. Slots] /\ bp \in [Page -> 0 .. Slots]
  BY MaxApertureShape DEF Apertures
<1>3. bp[page] = MaxAperture(bits)
  BY DEF Apertures
<1>4. Listed(bm2) = L \cup {page}
  BY DEF Listed
<1>5. \A p \in L : bp[p] = ap[p]
  BY <1>1 DEF Apertures, Listed
<1>6. l \in Lists /\ Linked(l, L, ap)
  BY DEF ListsInv
<1> HIDE DEF L, ap, bp
<1>7. /\ Link(l, page, bp[page]) \in Lists
      /\ Linked(Link(l, page, bp[page]), L \cup {page}, bp)
  BY <1>1, <1>2, <1>5, <1>6, LinkLinked
<1>8. QED BY <1>3, <1>4, <1>7 DEF ListsInv, bp

--------------------------------------------------------------------------------
(* What each step does *)

HeapTypes == mapped \in SUBSET Page /\ bitmap \in [Page -> SUBSET (0 .. PageSlots - 1)]
HeapInv ==
    /\ HeapTypes
    /\ BlocksInv(mapped, bitmap, live)
    /\ BitsInv(mapped, bitmap, live)
    /\ ListsInv(lists, bitmap)

\* operator new finds a place in the page it takes from a list, and puts the page back.
LEMMA NewInPageShape ==
    ASSUME HeapInv, NEW len \in Lengths, NewInPage(len)
    PROVE  /\ SlotLen(len) \in 0 .. Slots
           /\ \E page \in Page, o \in 0 .. Slots - SlotLen(len), taken \in SUBSET Int :
                 /\ taken = o .. o + SlotLen(len) - 1
                 /\ bitmap[page] # {} /\ taken \cap bitmap[page] = {}
                 /\ bitmap' = [bitmap EXCEPT ![page] = bitmap[page] \cup taken]
                 /\ lists' = Link(Unlink(lists, page, MaxAperture(bitmap[page])), page,
                                  MaxAperture(bitmap[page] \cup taken))
                 /\ live' = live \cup {Block(page, o, len)}
           /\ UNCHANGED <<mapped, failed, stray>>
<1> DEFINE n == SlotLen(len)
           i == FirstList(n)
           page == lists.head[i]
<1>1. n \in Nat \ {0} /\ Slots \in Nat \ {0}
  BY BlockSizes, Parameters
<1>2. i \in n .. Slots /\ page # Nil
  <2>1. Promising(n) # {} /\ Promising(n) \in SUBSET Nat
    BY <1>1 DEF NewInPage, Promising
  <2>2. \E k \in Promising(n) : \A q \in Promising(n) : k <= q
    BY ONLY <2>1, LeastOfNat
  <2>3. i \in Promising(n)
    BY <2>2 DEF FirstList
  <2>4. QED BY <2>3 DEF Promising
<1>3. n \in 0 .. Slots /\ i \in 0 .. Slots
  BY <1>1, <1>2
<1>4. /\ lists \in Lists
      /\ page \in Listed(bitmap) /\ Apertures(bitmap)[page] = i /\ lists.prev[page] = Nil
  BY <1>2, <1>3 DEF HeapInv, ListsInv, Linked, HeadsFirst
<1>5. page \in Page /\ bitmap[page] # {} /\ MaxAperture(bitmap[page]) = i
  BY <1>4 DEF Listed, Apertures
<1>6. Fits(n, bitmap[page]) # {}
  BY <1>2, <1>3, <1>5, MaxApertureShape
<1>7. UnlinkHead(lists, page, i) = Unlink(lists, page, MaxAperture(bitmap[page]))
  BY <1>4, <1>5 DEF Unlink
<1>8. PICK o : o = Aperture(n, bitmap[page])
  OBVIOUS
<1>9. o \in 0 .. Slots - n /\ (o .. o + n - 1) \cap bitmap[page] = {}
  BY <1>3, <1>6, <1>8, ApertureShape
<1>10. /\ bitmap' = [bitmap EXCEPT ![page] = bitmap[page] \cup (o .. o + n - 1)]
       /\ lists' = Link(UnlinkHead(lists, page, i), page,
                        MaxAperture(bitmap[page] \cup (o .. o + n - 1)))
       /\ live' = live \cup {<<page * PageSlots + o, len>>}
       /\ UNCHANGED <<mapped, failed, stray>>
  BY <1>6, <1>8 DEF NewInPage
<1>11. PICK taken \in SUBSET Int : taken = o .. o + n - 1
  OBVIOUS
<1>12. live' = live \cup {Block(page, o, len)}
  BY <1>10 DEF Block
<1>13. /\ taken = o .. o + n - 1
       /\ bitmap[page] # {} /\ taken \cap bitmap[page] = {}
       /\ bitmap' = [bitmap EXCEPT ![page] = bitmap[page] \cup taken]
       /\ lists' = Link(Unlink(lists, page, MaxAperture(bitmap[page])), page,
                        MaxAperture(bitmap[page] \cup taken))
  BY <1>5, <1>7, <1>9, <1>10, <1>11
<1>14. page \in Page /\ o \in 0 .. Slots - n /\ taken \in SUBSET Int
  BY <1>5, <1>9
<1> HIDE DEF page, n, i
<1>15. QED BY <1>3, <1>10, <1>12, <1>13, <1>14 DEF n

\* A block put into a page keeps the invariant.
LEMMA NewInPageKeeps ==
    ASSUME HeapInv, NEW len \in Lengths, NewInPage(len)
    PROVE  HeapInv'
<1>1. SlotLen(len) \in 0 .. Slots /\ mapped' = mapped
  BY NewInPageShape
<1>2. PICK page \in Page, o \in 0 .. Slots - SlotLen(len), taken \in SUBSET Int :
         /\ taken = o .. o + SlotLen(len) - 1
         /\ bitmap[page] # {} /\ taken \cap bitmap[page] = {}
         /\ bitmap' = [bitmap EXCEPT ![page] = bitmap[page] \cup taken]
         /\ lists' = Link(Unlink(lists, page, MaxAperture(bitmap[page])), page,
                          MaxAperture(bitmap[page] \cup taken))
         /\ live' = live \cup {Block(page, o, len)}
  BY NewInPageShape
<1>3. PICK b : b = Block(page, o, len)
  OBVIOUS
<1>4. /\ b \in Nat \X Lengths
      /\ FirstPage(b) = page /\ LastPage(b) = page
      /\ BitsOf(b) = taken /\ MarkOf(b) = {}
      /\ BitsOf(b) \subseteq Slot /\ BitsOf(b) # {}
  BY <1>1, <1>2, <1>3, BlockInPage
<1>5. Heads(b) = {} /\ FirstPage(b) .. LastPage(b) = {page}
  BY <1>4, Parameters DEF Heads, Page
<1>6. page \in mapped
  BY <1>2 DEF HeapInv, BitsInv, InUse
<1>7. PICK m2, bm2 : m2 = mapped /\ bm2 = [bitmap EXCEPT ![page] = bitmap[page] \cup taken]
  OBVIOUS
<1>8. mapped \in SUBSET Page /\ bitmap \in [Page -> SUBSET (0 .. PageSlots - 1)]
  BY DEF HeapInv, HeapTypes
<1>9. taken \in SUBSET (0 .. PageSlots - 1)
  BY <1>4, Parameters
<1>10. BlocksInv(m2, bm2, live \cup {b}) /\ BitsInv(m2, bm2, live \cup {b})
  <2>1. m2 = mapped \cup (FirstPage(b) .. LastPage(b))
    BY <1>5, <1>6, <1>7
  <2>2. bm2 = [bitmap EXCEPT ![LastPage(b)] =
                  bitmap[LastPage(b)] \cup BitsOf(b) \cup {} \cup MarkOf(b)]
    BY <1>4, <1>7
  <2>3. FirstPage(b) \in Page /\ FirstPage(b) <= LastPage(b)
    BY <1>4, Parameters
  <2>4. BitsOf(b) \cap bitmap[LastPage(b)] = {} /\ LastPage(b) \in mapped
        /\ bitmap[LastPage(b)] # {}
    BY <1>2, <1>4, <1>6
  <2>5. {} \in SUBSET Spare
    OBVIOUS
  <2>6. BlocksInv(mapped, bitmap, live) /\ BitsInv(mapped, bitmap, live)
    BY DEF HeapInv
  <2>7. QED BY <1>4, <1>5, <1>8, <2>1, <2>2, <2>3, <2>4, <2>5, <2>6, BlockAdded
<1>11. ListsInv(lists', bm2)
  <2>1. ListsInv(lists, bitmap)
    BY DEF HeapInv
  <2>2. bitmap[page] \cup taken # {} /\ bitmap[page] \cup taken \in SUBSET (0 .. PageSlots - 1)
    BY <1>2, <1>8, <1>9
  <2>3. PICK l2 : l2 = lists'
    OBVIOUS
  <2>4. ListsInv(l2, bm2)
    BY <1>2, <1>7, <1>8, <2>1, <2>2, <2>3, Relisted
  <2>5. QED BY <2>3, <2>4
<1>12. bm2 \in [Page -> SUBSET (0 .. PageSlots - 1)]
  BY <1>7, <1>8, <1>9
<1>13. mapped' = m2 /\ bitmap' = bm2 /\ live' = live \cup {b}
  BY <1>1, <1>2, <1>3, <1>7
<1>14. QED BY <1>7, <1>8, <1>10, <1>11, <1>12, <1>13 DEF HeapInv, HeapTypes

\* The block that comes with new pages.
LEMMA NewPagesShape ==
    ASSUME HeapInv, NEW len \in Lengths, NEW first \in Page, NEW junk \in Leftovers,
           NewPages(len, first, junk), NEW b, b = Block(first, 0, len)
    PROVE  /\ b \in Nat \X Lengths
           /\ FirstPage(b) = first /\ Offset(b) = 0
           /\ LastPage(b) = first + NumPages(len) - 1 /\ LastPage(b) \in Page
           /\ NumPages(len) \in Nat \ {0}
           /\ BitsOf(b) = 0 .. LastSlots(len) - 1
           /\ MarkOf(b) = IF NumPages(len) > 1 THEN {Mark} ELSE {}
           /\ (FirstPage(b) .. LastPage(b)) \cap mapped = {}
           /\ mapped' = mapped \cup (FirstPage(b) .. LastPage(b))
           /\ live' = live \cup {b}
           /\ failed' = failed
<1>1. first \in Nat /\ 0 \in 0 .. PageSlots - 1
  BY Parameters DEF Page
<1>2. b \in Nat \X Lengths
  BY <1>1, BlockShape
<1>3. FirstPage(b) = first
  BY <1>1, BlockShape
<1>4. Offset(b) = 0
  BY <1>1, BlockShape
<1>5. LastPage(b) = IF 0 = 0 THEN first + NumPages(len) - 1 ELSE first
  BY <1>1, BlockShape
<1>6. BitsOf(b) = IF 0 = 0 THEN 0 .. LastSlots(len) - 1 ELSE 0 .. 0 + SlotLen(len) - 1
  BY <1>1, BlockShape
<1>7. MarkOf(b) = IF 0 = 0 /\ NumPages(len) > 1 THEN {Mark} ELSE {}
  BY <1>1, BlockShape
<1>8. NumPages(len) \in Nat \ {0}
  BY BlockSizes
<1>9. PICK last : last = first + NumPages(len) - 1
  OBVIOUS
<1>10. /\ last \in Page /\ (first .. last) \cap mapped = {}
       /\ mapped' = mapped \cup (first .. last)
       /\ live' = live \cup {<<first * PageSlots, len>>} /\ failed' = failed
  BY <1>9 DEF NewPages
<1>11. b = <<first * PageSlots, len>>
  <2>1. first * PageSlots \in Int
    BY <1>1, Parameters
  <2>2. first * PageSlots + 0 = first * PageSlots
    BY <2>1
  <2>3. QED BY <2>2 DEF Block
<1>12. QED BY <1>2, <1>3, <1>4, <1>5, <1>6, <1>7, <1>8, <1>9, <1>10, <1>11

\* New pages keep the invariant, unless _head.entry is left.
LEMMA NewPagesKeeps ==
    ASSUME HeapInv, NEW len \in Lengths, NEW first \in Page, NEW junk \in Leftovers,
           NewPages(len, first, junk), ~stray'
    PROVE  HeapInv'
<1>1. PICK b : b = Block(first, 0, len)
  OBVIOUS
<1>2. /\ b \in Nat \X Lengths
      /\ FirstPage(b) = first /\ LastPage(b) = first + NumPages(len) - 1 /\ LastPage(b) \in Page
      /\ NumPages(len) \in Nat \ {0}
      /\ BitsOf(b) = 0 .. LastSlots(len) - 1
      /\ (FirstPage(b) .. LastPage(b)) \cap mapped = {}
      /\ mapped' = mapped \cup (FirstPage(b) .. LastPage(b))
      /\ live' = live \cup {b}
  BY <1>1, NewPagesShape
<1>3. MarkOf(b) = IF NumPages(len) > 1 THEN {Mark} ELSE {}
  BY <1>1, NewPagesShape
<1>4. PICK page : page = LastPage(b)
  OBVIOUS
<1>5. PICK bits : bits = (0 .. LastSlots(len) - 1) \cup junk \cup MarkOf(b)
  OBVIOUS
<1>6. LastSlots(len) \in 0 .. Slots
  <2>1. LastSlots(len) \in Nat /\ Slots \in Nat
    BY BlockSizes, Parameters
  <2>2. LastSlots(len) <= Slots
    BY <2>1 DEF NewPages
  <2>3. QED BY <2>1, <2>2
<1>7. /\ bitmap' = [bitmap EXCEPT ![page] = bits]
      /\ lists' = Link(lists, page, Slots - LastSlots(len))
  <2>1. page = first + NumPages(len) - 1
    BY <1>2, <1>4
  <2>2. LastSlots(len) \in Nat /\ Slots \in Nat /\ ~(LastSlots(len) > Slots)
    BY <1>6, Parameters
  <2>3. QED BY <1>3, <1>5, <2>1, <2>2 DEF NewPages
<1>8. first \in Nat /\ page \in Page /\ page \in FirstPage(b) .. LastPage(b) /\ first <= page
  BY <1>2, <1>4, Parameters DEF Page
<1>9. mapped \in SUBSET Page /\ bitmap \in [Page -> SUBSET (0 .. PageSlots - 1)]
  BY DEF HeapInv, HeapTypes
<1>10. page \notin mapped /\ bitmap[page] = {}
  BY <1>2, <1>8 DEF HeapInv, BitsInv, InUse
<1>11. junk \in SUBSET Spare
  BY HeapAssumption
<1>12. BitsOf(b) \subseteq Slot /\ BitsOf(b) \cup MarkOf(b) # {}
  <2>1. BitsOf(b) \subseteq Slot
    BY <1>2, <1>6, Parameters DEF Slot
  <2>2. CASE NumPages(len) > 1
    BY <1>3, <2>1, <2>2
  <2>3. CASE ~(NumPages(len) > 1)
    <3>1. NumPages(len) = 1
      BY <1>2, <2>3
    <3>2. LastSlots(len) > 0
      BY <1>6, <3>1, BlockFills
    <3>3. 0 \in BitsOf(b)
      BY <1>2, <1>6, <3>2
    <3>4. QED BY <2>1, <3>3
  <2>4. QED BY <2>1, <2>2, <2>3
<1>13. bits # {} /\ bits \in SUBSET (0 .. PageSlots - 1)
  BY <1>2, <1>3, <1>5, <1>11, <1>12, Parameters
<1>14. PICK m2, bm2 : m2 = mapped' /\ bm2 = [bitmap EXCEPT ![page] = bits]
  OBVIOUS
<1>15. BlocksInv(m2, bm2, live \cup {b}) /\ BitsInv(m2, bm2, live \cup {b})
  <2>1. m2 = mapped \cup (FirstPage(b) .. LastPage(b))
    BY <1>2, <1>14
  <2>2. bm2 = [bitmap EXCEPT ![LastPage(b)] =
                  bitmap[LastPage(b)] \cup BitsOf(b) \cup junk \cup MarkOf(b)]
    BY <1>2, <1>4, <1>5, <1>10, <1>14
  <2>3. Heads(b) \cap mapped = {}
    BY <1>2, <1>8 DEF Heads, Page
  <2>4. BitsOf(b) \cap bitmap[LastPage(b)] = {} /\ LastPage(b) \notin mapped
    BY <1>4, <1>10
  <2>5. FirstPage(b) \in Page /\ FirstPage(b) <= LastPage(b)
    BY <1>2, <1>4, <1>8
  <2>6. BlocksInv(mapped, bitmap, live) /\ BitsInv(mapped, bitmap, live)
    BY DEF HeapInv
  <2>7. QED BY <1>2, <1>9, <1>11, <1>12, <2>1, <2>2, <2>3, <2>4, <2>5, <2>6, BlockAdded
<1>16. ListsInv(lists', bm2)
  <2>1. MaxAperture(bits) = Slots - LastSlots(len)
    <3>1. PICK spare : spare = junk \cup MarkOf(b)
      OBVIOUS
    <3>2. spare \in SUBSET Spare /\ bits = (0 .. LastSlots(len) - 1) \cup spare
      BY <1>3, <1>5, <1>11, <3>1, Parameters
    <3>3. QED BY <1>6, <3>2, FreshAperture
  <2>2. PICK l2 : l2 = lists'
    OBVIOUS
  <2>3. l2 = Link(lists, page, MaxAperture(bits))
    BY <1>7, <2>1, <2>2
  <2>4. ListsInv(lists, bitmap)
    BY DEF HeapInv
  <2>5. ListsInv(l2, bm2)
    BY <1>8, <1>9, <1>10, <1>13, <1>14, <2>3, <2>4, NewlyListed
  <2>6. QED BY <2>2, <2>5
<1>17. bm2 \in [Page -> SUBSET (0 .. PageSlots - 1)] /\ m2 \in SUBSET Page
  <2>1. bm2 \in [Page -> SUBSET (0 .. PageSlots - 1)]
    BY <1>9, <1>13, <1>14
  <2>2. FirstPage(b) .. LastPage(b) \subseteq Page
    BY <1>2, Parameters DEF Page
  <2>3. QED BY <1>2, <1>9, <1>14, <2>1, <2>2
<1>18. mapped' = m2 /\ bitmap' = bm2 /\ live' = live \cup {b}
  BY <1>2, <1>7, <1>14
<1>19. QED BY <1>15, <1>16, <1>17, <1>18 DEF HeapInv, HeapTypes

\* operator delete finds the bits of the block set.
LEMMA DeleteShape ==
    ASSUME HeapInv, NEW b \in live, Delete(b)
    PROVE  LET page == LastPage(b)
               rest == Unlink(lists, page, MaxAperture(bitmap[page]))
           IN  /\ mapped' = mapped \ (FirstPage(b) .. IF Left(b) = {} THEN page ELSE page - 1)
               /\ bitmap' = [bitmap EXCEPT ![page] = Left(b)]
               /\ lists' = IF Left(b) = {} THEN Gone(rest, page)
                           ELSE Link(rest, page, MaxAperture(Left(b)))
               /\ live' = live \ {b}
               /\ UNCHANGED <<failed, stray>>
<1>1. BitsOf(b) \subseteq bitmap[LastPage(b)]
  BY DEF HeapInv, BlocksInv, WellPlaced
<1>2. QED BY <1>1 DEF Delete

\* A block taken away keeps the invariant.
LEMMA DeleteKeeps ==
    ASSUME HeapInv, NEW b \in live, Delete(b)
    PROVE  HeapInv'
<1>1. PICK page, left : page = LastPage(b) /\ left = Left(b)
  OBVIOUS
<1>2. PICK m2, bm2 : /\ m2 = mapped \ (FirstPage(b) .. IF left = {} THEN page ELSE page - 1)
                     /\ bm2 = [bitmap EXCEPT ![page] = left]
  OBVIOUS
<1>3. mapped \in SUBSET Page /\ bitmap \in [Page -> SUBSET (0 .. PageSlots - 1)]
  BY DEF HeapInv, HeapTypes
<1>4. page \in Page /\ bitmap[page] # {}
  <2>1. WellPlaced(b, mapped, bitmap)
    BY DEF HeapInv, BlocksInv
  <2>2. QED BY <1>1, <2>1 DEF WellPlaced
<1>5. left = bitmap[page] \ (BitsOf(b) \cup MarkOf(b))
  BY <1>1 DEF Left
<1>6. left \in SUBSET (0 .. PageSlots - 1)
  BY <1>3, <1>4, <1>5
<1>7. BlocksInv(m2, bm2, live \ {b}) /\ BitsInv(m2, bm2, live \ {b})
  <2>1. BlocksInv(mapped, bitmap, live) /\ BitsInv(mapped, bitmap, live)
    BY DEF HeapInv
  <2>2. /\ left = bitmap[LastPage(b)] \ (BitsOf(b) \cup MarkOf(b))
        /\ m2 = mapped \ (FirstPage(b) .. IF left = {} THEN LastPage(b) ELSE LastPage(b) - 1)
        /\ bm2 = [bitmap EXCEPT ![LastPage(b)] = left]
    BY <1>1, <1>2, <1>5
  <2>3. QED BY <1>3, <2>1, <2>2, BlockRemoved
<1>8. ListsInv(lists', bm2)
  <2>1. ListsInv(lists, bitmap)
    BY DEF HeapInv
  <2>2. PICK rest : rest = Unlink(lists, page, MaxAperture(bitmap[page]))
    OBVIOUS
  <2>3. lists' = IF left = {} THEN Gone(rest, page) ELSE Link(rest, page, MaxAperture(left))
    BY <1>1, <2>2, DeleteShape
  <2>4. PICK l2 : l2 = lists'
    OBVIOUS
  <2>5. CASE left = {}
    <3>1. l2 = Gone(Unlink(lists, page, MaxAperture(bitmap[page])), page)
      BY <2>2, <2>3, <2>4, <2>5
    <3>2. bm2 = [bitmap EXCEPT ![page] = {}]
      BY <1>2, <2>5
    <3>3. ListsInv(l2, bm2)
      BY <1>3, <1>4, <2>1, <3>1, <3>2, Delisted
    <3>4. QED BY <2>4, <3>3
  <2>6. CASE left # {}
    <3>1. l2 = Link(Unlink(lists, page, MaxAperture(bitmap[page])), page, MaxAperture(left))
      BY <2>2, <2>3, <2>4, <2>6
    <3>2. ListsInv(l2, bm2)
      BY <1>2, <1>3, <1>4, <1>6, <2>1, <2>6, <3>1, Relisted
    <3>3. QED BY <2>4, <3>2
  <2>7. QED BY <2>5, <2>6
<1>9. bm2 \in [Page -> SUBSET (0 .. PageSlots - 1)] /\ m2 \in SUBSET Page
  BY <1>2, <1>3, <1>6
<1>10. mapped' = m2 /\ bitmap' = bm2 /\ live' = live \ {b}
  BY <1>1, <1>2, DeleteShape
<1>11. QED BY <1>7, <1>8, <1>9, <1>10 DEF HeapInv, HeapTypes

--------------------------------------------------------------------------------
(* The theorems *)

\* Nothing has failed, and the invariant holds until a pointer is written outside the
\* lists' heads.
HeapSafe == failed = FALSE /\ (~stray => HeapInv)

\* An empty heap satisfies the invariant.
LEMMA InitSafe == Init => HeapSafe
<1> SUFFICES ASSUME Init PROVE HeapSafe
  OBVIOUS
<1>1. /\ mapped = {} /\ bitmap = [p \in Page |-> {}] /\ live = {} /\ failed = FALSE
      /\ lists = [head |-> [i \in 0 .. Slots |-> Nil],
                  next |-> [p \in Page |-> Nil], prev |-> [p \in Page |-> Nil]]
  BY DEF Init
<1>2. HeapTypes
  BY <1>1 DEF HeapTypes
<1>3. BlocksInv(mapped, bitmap, live)
  BY <1>1 DEF BlocksInv
<1>4. BitsInv(mapped, bitmap, live)
  <2> SUFFICES ASSUME NEW p \in Page
               PROVE  BitsHere(p, bitmap, live) /\ SparesHere(p, bitmap, live)
                      /\ InUse(p, mapped, bitmap, live)
    BY DEF BitsInv
  <2>1. bitmap[p] = {}
    BY <1>1
  <2>2. BitsHere(p, bitmap, live)
    BY <1>1, <2>1 DEF BitsHere
  <2>3. SparesHere(p, bitmap, live)
    BY <2>1, HeapAssumption DEF SparesHere
  <2>4. QED BY <1>1, <2>1, <2>2, <2>3 DEF InUse
<1>5. ListsInv(lists, bitmap)
  <2>1. lists \in Lists
    BY <1>1 DEF Lists
  <2>2. Listed(bitmap) = {}
    BY <1>1 DEF Listed
  <2>3. \A i \in 0 .. Slots : lists.head[i] = Nil
    BY <1>1
  <2>4. Ranked(lists, {}, [p \in Page |-> 0])
    BY DEF Ranked
  <2>5. Linked(lists, {}, Apertures(bitmap))
    BY <2>3, <2>4 DEF Linked, HeadsFirst, NextBack, PrevForth
  <2>6. QED BY <2>1, <2>2, <2>5 DEF ListsInv
<1>6. QED BY <1>1, <1>2, <1>3, <1>4, <1>5 DEF HeapSafe, HeapInv

\* Every step keeps it.
LEMMA StepSafe == HeapSafe /\ [Next]_vars => HeapSafe'
<1> SUFFICES ASSUME HeapSafe, [Next]_vars PROVE HeapSafe'
  OBVIOUS
<1>1. ASSUME NEW len \in Lengths, ~stray, NewInPage(len) PROVE HeapSafe'
  <2>1. HeapInv
    BY <1>1 DEF HeapSafe
  <2>2. HeapInv' /\ failed' = failed
    BY <1>1, <2>1, NewInPageKeeps, NewInPageShape
  <2>3. QED BY <2>2 DEF HeapSafe
<1>2. ASSUME NEW len \in Lengths, NEW first \in Page, NEW junk \in Leftovers, ~stray,
             NewPages(len, first, junk)
      PROVE  HeapSafe'
  <2>1. HeapInv
    BY <1>2 DEF HeapSafe
  <2>2. failed' = failed
    BY <1>2 DEF NewPages
  <2>3. ~stray' => HeapInv'
    BY <1>2, <2>1, NewPagesKeeps
  <2>4. QED BY <2>2, <2>3 DEF HeapSafe
<1>3. ASSUME NEW b \in live, ~stray, Delete(b) PROVE HeapSafe'
  <2>1. HeapInv
    BY <1>3 DEF HeapSafe
  <2>2. HeapInv'
    BY <1>3, <2>1, DeleteKeeps
  <2>3. failed' = failed
    BY <1>3, <2>1, DeleteShape
  <2>4. QED BY <2>2, <2>3 DEF HeapSafe
<1>4. ASSUME UNCHANGED vars PROVE HeapSafe'
  <2>1. /\ mapped' = mapped /\ bitmap' = bitmap /\ lists' = lists /\ live' = live
        /\ failed' = failed /\ stray' = stray
    BY <1>4 DEF vars
  <2>2. HeapInv => HeapInv'
    BY <2>1 DEF HeapInv, HeapTypes
  <2>3. QED BY <2>1, <2>2 DEF HeapSafe
<1>5. QED BY <1>1, <1>2, <1>3, <1>4 DEF Next

\* The invariant holds of every execution.
THEOREM HeapStaysSafe == Spec => []HeapSafe
<1>1. Init => HeapSafe
  BY InitSafe
<1>2. HeapSafe /\ [Next]_vars => HeapSafe'
  BY StepSafe
<1>3. QED BY <1>1, <1>2, PTL DEF Spec

\* The assertions of new.cc hold: the place a list promises is found in its page, and
\* delete finds all bits of a block set.
THEOREM AssertionsHold == Spec => []NoFailure
<1>1. HeapSafe => NoFailure
  BY DEF HeapSafe, NoFailure
<1>2. QED BY <1>1, HeapStaysSafe, PTL

\* The lists end, hold just the pages with a bit set by their largest aperture, and are
\* linked both ways.
THEOREM ListsStayTrue == Spec => []ListsTrue
<1>1. HeapSafe => ListsTrue
  <2> SUFFICES ASSUME HeapInv, NEW i \in 0 .. Slots
               PROVE  LET at == Chain(i) IN
                      /\ at[Pages] = Nil
                      /\ {at[k] : k \in 0 .. Pages} \ {Nil} =
                            {p \in Page : bitmap[p] # {} /\ MaxAperture(bitmap[p]) = i}
                      /\ \A k \in 0 .. Pages :
                            at[k] # Nil => lists.prev[at[k]] = IF k = 0 THEN Nil ELSE at[k - 1]
    BY DEF HeapSafe, ListsTrue
  <2>1. PICK L, ap : L = Listed(bitmap) /\ ap = Apertures(bitmap)
    OBVIOUS
  <2>2. L \in SUBSET Page /\ ap \in [Page -> 0 .. Slots]
    BY <2>1, MaxApertureShape DEF Listed, Apertures
  <2>3. lists \in Lists /\ Linked(lists, L, ap)
    BY <2>1 DEF HeapInv, ListsInv
  <2>4. {p \in L : ap[p] = i} = {p \in Page : bitmap[p] # {} /\ MaxAperture(bitmap[p]) = i}
    BY <2>1 DEF Listed, Apertures
  <2>5. PICK at : at = Chain(i)
    OBVIOUS
  <2>6. /\ at[Pages] = Nil
        /\ \A k \in 0 .. Pages : at[k] # Nil => at[k] \in L /\ ap[at[k]] = i
        /\ \A p \in L : ap[p] = i => \E k \in 0 .. Pages : at[k] = p
        /\ \A k \in 0 .. Pages :
              at[k] # Nil => lists.prev[at[k]] = IF k = 0 THEN Nil ELSE at[k - 1]
    <3>1. /\ Chain(i)[Pages] = Nil
          /\ \A k \in 0 .. Pages : Chain(i)[k] # Nil => Chain(i)[k] \in L /\ ap[Chain(i)[k]] = i
          /\ \A p \in L : ap[p] = i => \E k \in 0 .. Pages : Chain(i)[k] = p
          /\ \A k \in 0 .. Pages : Chain(i)[k] # Nil =>
                lists.prev[Chain(i)[k]] = IF k = 0 THEN Nil ELSE Chain(i)[k - 1]
      BY ONLY <2>2, <2>3, i \in 0 .. Slots, ListsFollowed, Zenon
    <3>2. QED BY ONLY <2>5, <3>1
  <2>7. {at[k] : k \in 0 .. Pages} \ {Nil} = {p \in L : ap[p] = i}
    <3>1. Nil \notin L
      BY <2>2, NilNoPage
    <3>2. QED BY <2>6, <3>1
  <2>8. QED BY <2>4, <2>5, <2>6, <2>7
<1>2. QED BY <1>1, HeapStaysSafe, PTL

\* The bits of a page are those of the blocks in it; of the spare ones only the mark of
\* a large block is ever set or cleared.
THEOREM BitmapStaysTrue == Spec => []BitmapTrue
<1>1. HeapSafe => BitmapTrue
  <2> SUFFICES ASSUME HeapInv, NEW p \in Page
               PROVE  LET here == {b \in live : LastPage(b) = p}
                      IN  /\ bitmap[p] \cap Slot = UNION {BitsOf(b) : b \in here}
                          /\ UNION {MarkOf(b) : b \in here} \subseteq bitmap[p]
                          /\ (bitmap[p] \cap Spare) \ {Mark} \in
                                {bits \ {Mark} : bits \in Leftovers}
    BY DEF HeapSafe, BitmapTrue
  <2>1. BitsHere(p, bitmap, live) /\ SparesHere(p, bitmap, live)
    BY DEF HeapInv, BitsInv
  <2>2. \A b \in live : LastPage(b) = p => MarkOf(b) \subseteq bitmap[p]
    BY DEF HeapInv, BlocksInv, WellPlaced
  <2>3. UNION {MarkOf(b) : b \in {b \in live : LastPage(b) = p}} \subseteq bitmap[p]
    BY <2>2
  <2>4. (bitmap[p] \cap Spare) \ {Mark} \in {bits \ {Mark} : bits \in Leftovers}
    BY <2>1 DEF SparesHere
  <2>5. QED BY <2>1, <2>3, <2>4 DEF BitsHere
<1>2. QED BY <1>1, HeapStaysSafe, PTL

\* A page of no block stays mapped only for spare bits it came with.
THEOREM NothingIsLost == Spec => []NothingLeaks
<1>1. HeapSafe => NothingLeaks
  <2> SUFFICES ASSUME HeapInv, NEW p \in mapped,
                      \A b \in live : p \notin FirstPage(b) .. LastPage(b)
               PROVE  /\ bitmap[p] # {}
                      /\ \E bits \in Leftovers : bitmap[p] \in {bits, bits \ {Mark}}
    BY DEF HeapSafe, NothingLeaks
  <2>1. p \in Page /\ BitsHere(p, bitmap, live) /\ SparesHere(p, bitmap, live)
        /\ InUse(p, mapped, bitmap, live)
    BY DEF HeapInv, HeapTypes, BitsInv
  <2>2. \A b \in live : LastPage(b) # p /\ p \notin Heads(b)
    <3> TAKE b \in live
    <3>1. WellPlaced(b, mapped, bitmap)
      BY DEF HeapInv, BlocksInv
    <3>2. LastPage(b) \in FirstPage(b) .. LastPage(b)
          /\ Heads(b) \subseteq FirstPage(b) .. LastPage(b)
      BY <3>1 DEF WellPlaced, Heads, Page
    <3>3. QED BY <3>2
  <2>3. bitmap[p] # {}
    BY <2>1, <2>2 DEF InUse
  <2>4. bitmap[p] \cap Slot = {}
    <3>1. {b \in live : LastPage(b) = p} = {}
      BY <2>2
    <3>2. QED BY <2>1, <3>1 DEF BitsHere
  <2>5. PICK bits \in Leftovers :
           /\ (bitmap[p] \cap Spare) \ {Mark} = bits \ {Mark}
           /\ Mark \in bitmap[p] => Mark \in bits
    BY <2>1, <2>2 DEF SparesHere
  <2>6. bitmap[p] \subseteq Spare
    BY <2>1, <2>4, Parameters DEF HeapInv, HeapTypes
  <2>7. bitmap[p] \in {bits, bits \ {Mark}}
    BY <2>5, <2>6
  <2>8. QED BY <2>3, <2>7
<1>2. QED BY <1>1, HeapStaysSafe, PTL

--------------------------------------------------------------------------------
(* The heap hands out ranges *)

\* The slots of a block, by their addresses.
SlotsOf(b) == b[1] .. b[1] + SlotLen(b[2]) - 1

\* A block with pages of its own lies within them.
LEMMA RangeInPages ==
    ASSUME NEW b \in Nat \X Lengths, Offset(b) = 0, NEW x \in SlotsOf(b)
    PROVE  x \in Nat /\ x \div PageSlots \in FirstPage(b) .. LastPage(b)
<1>1. PICK s, len : s = b[1] /\ len = b[2] /\ s \in Nat /\ len \in Lengths
  OBVIOUS
<1>2. PICK n, k : n = SlotLen(len) /\ k = NumPages(len)
  OBVIOUS
<1>3. n \in Nat \ {0} /\ k \in Nat \ {0}
  BY <1>1, <1>2, BlockSizes
<1>4. PICK d : d = PageSlots
  OBVIOUS
<1>5. d \in Nat \ {0}
  BY <1>4, Parameters
<1>6. PICK f : f = FirstPage(b)
  OBVIOUS
<1>7. f \in Nat /\ s = f * d
  <2>1. f = s \div d /\ s % d = 0
    BY <1>1, <1>4, <1>6 DEF FirstPage, Offset
  <2>2. s \div d \in Nat /\ s = (s \div d) * d + (s % d)
    BY <1>1, <1>5, DivMod
  <2>3. (s \div d) * d \in Int
    BY <2>2, <1>5
  <2>4. s = (s \div d) * d
    BY <2>1, <2>2, <2>3
  <2>5. QED BY <2>1, <2>2, <2>4
<1>8. LastPage(b) = f + k - 1
  BY <1>1, <1>2, <1>6 DEF LastPage
<1>9. x \in Nat /\ s <= x /\ x <= s + n - 1
  BY <1>1, <1>2, <1>3 DEF SlotsOf
<1>10. PICK q, r : q = x \div d /\ r = x % d
  OBVIOUS
<1>11. q \in Nat /\ r \in 0 .. d - 1 /\ x = q * d + r
  BY <1>5, <1>9, <1>10, DivMod
<1>12. n <= k * d
  BY <1>1, <1>2, <1>4, BlockInPages
<1>13. q * d \in Int /\ f * d \in Int /\ k * d \in Int /\ (f + k) * d = f * d + k * d
  BY <1>3, <1>5, <1>7, <1>11, Multiples
<1>14. f <= q
  <2>1. q < f => q * d + d <= f * d
    BY <1>5, <1>7, <1>11, Multiples
  <2>2. QED BY <1>5, <1>7, <1>9, <1>11, <1>13, <2>1
<1>15. q < f + k
  <2>1. q * d < (f + k) * d
    BY <1>3, <1>7, <1>9, <1>11, <1>12, <1>13
  <2>2. f + k \in Int
    BY <1>3, <1>7
  <2>3. QED BY <1>5, <1>11, <2>1, <2>2, Multiples
<1>16. QED BY <1>3, <1>4, <1>6, <1>7, <1>8, <1>9, <1>10, <1>11, <1>14, <1>15

\* A block lies in its pages, and in the last one at its bits.
LEMMA RangeShape ==
    ASSUME NEW b \in Nat \X Lengths, BitsOf(b) \subseteq Slot, NEW x \in SlotsOf(b)
    PROVE  /\ x \in Nat /\ x \div PageSlots \in FirstPage(b) .. LastPage(b)
           /\ x \div PageSlots = LastPage(b) => x % PageSlots \in BitsOf(b)
<1>1. PICK s, len : s = b[1] /\ len = b[2] /\ s \in Nat /\ len \in Lengths
  OBVIOUS
<1>2. PICK n : n = SlotLen(len)
  OBVIOUS
<1>3. n \in Nat \ {0}
  BY <1>1, <1>2, BlockSizes
<1>4. PICK d, f, o : d = PageSlots /\ f = FirstPage(b) /\ o = Offset(b)
  OBVIOUS
<1>5. d \in Nat \ {0} /\ Slots \in Nat /\ Slots < d
  BY <1>4, Parameters
<1>6. f \in Nat /\ o \in 0 .. d - 1 /\ s = f * d + o
  <2>1. f = s \div d /\ o = s % d
    BY <1>1, <1>4 DEF FirstPage, Offset
  <2>2. QED BY <1>1, <1>5, <2>1, DivMod
<1>7. x \in Nat /\ s <= x /\ x <= s + n - 1
  BY <1>1, <1>2, <1>3 DEF SlotsOf
<1>8. f * d \in Int
  BY <1>5, <1>6
<1>9. CASE o # 0
  <2>1. LastPage(b) = f /\ BitsOf(b) = o .. o + n - 1
    BY <1>1, <1>2, <1>4, <1>9 DEF LastPage, BitsOf
  <2>2. o + n - 1 \in BitsOf(b)
    BY <1>3, <1>6, <2>1
  <2>3. o + n - 1 < Slots
    BY <1>5, <2>2 DEF Slot
  <2>4. PICK r : r = x - f * d
    OBVIOUS
  <2>5. r \in o .. o + n - 1 /\ x = f * d + r
    BY <1>3, <1>6, <1>7, <1>8, <2>4
  <2>6. r \in 0 .. d - 1
    BY <1>3, <1>5, <1>6, <2>3, <2>5
  <2>7. x \div d = f /\ x % d = r
    BY <1>5, <1>6, <2>5, <2>6, DivUnique
  <2>8. QED BY <1>4, <1>6, <1>7, <2>1, <2>5, <2>7
<1>10. CASE o = 0
  <2>1. x \in Nat /\ x \div PageSlots \in FirstPage(b) .. LastPage(b)
    BY <1>4, <1>10, RangeInPages
  <2>2. PICK l, k : l = LastSlots(len) /\ k = NumPages(len)
    OBVIOUS
  <2>3. l \in Nat /\ k \in Nat \ {0}
    BY <1>1, <2>2, BlockSizes
  <2>4. LastPage(b) = f + k - 1 /\ BitsOf(b) = 0 .. l - 1
    BY <1>1, <1>4, <1>10, <2>2 DEF LastPage, BitsOf
  <2>5. l <= Slots
    <3>1. SUFFICES ASSUME l > Slots PROVE FALSE
      BY <1>5, <2>3
    <3>2. l - 1 \in BitsOf(b)
      BY <1>5, <2>3, <2>4, <3>1
    <3>3. QED BY <1>5, <2>3, <3>1, <3>2 DEF Slot
  <2>6. n = (k - 1) * d + l
    BY <1>1, <1>2, <1>4, <2>2, <2>5, BlockFills
  <2>7. SUFFICES ASSUME x \div d = f + k - 1 PROVE x % d \in 0 .. l - 1
    BY <1>4, <2>1, <2>4
  <2>8. PICK r : r = x % d
    OBVIOUS
  <2>9. r \in 0 .. d - 1 /\ x = (f + k - 1) * d + r
    BY <1>5, <1>7, <2>7, <2>8, DivMod
  <2>10. (f + (k - 1)) * d = f * d + (k - 1) * d /\ (k - 1) * d \in Int
    BY <1>5, <1>6, <2>3, Multiples
  <2>11. f + k - 1 = f + (k - 1)
    BY <1>6, <2>3
  <2>12. x = f * d + (k - 1) * d + r
    BY <2>9, <2>10, <2>11
  <2>13. x <= f * d + ((k - 1) * d + l) - 1
    BY <1>6, <1>7, <1>8, <1>10, <2>3, <2>6, <2>10
  <2>14. r < l
    BY <1>8, <2>3, <2>9, <2>10, <2>12, <2>13
  <2>15. QED BY <2>3, <2>8, <2>9, <2>14
<1>11. QED BY <1>9, <1>10

\* Two blocks in use share no slot.
LEMMA RangesApart ==
    ASSUME HeapInv, NEW b \in live, NEW c \in live, b # c
    PROVE  SlotsOf(b) \cap SlotsOf(c) = {}
<1> SUFFICES ASSUME NEW x \in SlotsOf(b), x \in SlotsOf(c) PROVE FALSE
  OBVIOUS
<1>1. WellPlaced(b, mapped, bitmap) /\ WellPlaced(c, mapped, bitmap) /\ Apart(b, c) /\ Apart(c, b)
  BY DEF HeapInv, BlocksInv
<1>2. PICK q, r : q = x \div PageSlots /\ r = x % PageSlots
  OBVIOUS
<1>3. /\ q \in FirstPage(b) .. LastPage(b) /\ q \in FirstPage(c) .. LastPage(c)
      /\ q = LastPage(b) => r \in BitsOf(b)
      /\ q = LastPage(c) => r \in BitsOf(c)
  BY <1>1, <1>2, RangeShape DEF WellPlaced
<1>4. FirstPage(b) \in Int /\ LastPage(b) \in Int /\ FirstPage(c) \in Int /\ LastPage(c) \in Int
  BY <1>1 DEF WellPlaced, Page
<1>5. q \notin Heads(b) /\ q \notin Heads(c)
  BY <1>1, <1>3 DEF Apart
<1>6. q = LastPage(b) /\ q = LastPage(c)
  BY <1>3, <1>4, <1>5 DEF Heads
<1>7. QED BY <1>1, <1>3, <1>6 DEF Apart

\* A new block shares none with those in use.
LEMMA NewRange ==
    ASSUME HeapInv, NEW b \in Nat \X Lengths, NEW x \in SlotsOf(b),
           NEW c \in live, x \in SlotsOf(c),
           \/ x \div PageSlots \notin mapped
           \/ /\ bitmap[x \div PageSlots] # {} /\ x \div PageSlots \in Page
              /\ x % PageSlots \notin bitmap[x \div PageSlots]
    PROVE  FALSE
<1>1. WellPlaced(c, mapped, bitmap)
  BY DEF HeapInv, BlocksInv
<1>2. PICK q, r : q = x \div PageSlots /\ r = x % PageSlots
  OBVIOUS
<1>3. q \in FirstPage(c) .. LastPage(c) /\ (q = LastPage(c) => r \in BitsOf(c))
  BY <1>1, <1>2, RangeShape DEF WellPlaced
<1>4. q \in mapped /\ FirstPage(c) \in Int /\ LastPage(c) \in Int
  BY <1>1, <1>3 DEF WellPlaced, Page
<1>5. bitmap[q] # {} /\ r \notin bitmap[q]
  BY <1>2, <1>4
<1>6. q \notin Heads(c)
  BY <1>1, <1>5 DEF WellPlaced
<1>7. q = LastPage(c)
  BY <1>3, <1>4, <1>6 DEF Heads
<1>8. QED BY <1>1, <1>3, <1>5, <1>7 DEF WellPlaced

\* A slot of a page is in the address space.
LEMMA InSpace ==
    ASSUME NEW x \in Nat, x \div PageSlots \in Page
    PROVE  x \in 0 .. Pages * PageSlots - 1
<1>1. PICK d, q : d = PageSlots /\ q = x \div d
  OBVIOUS
<1>2. d \in Nat \ {0} /\ Pages \in Nat /\ q \in 0 .. Pages - 1
  BY <1>1, Parameters
<1>3. x = q * d + (x % d) /\ x % d \in 0 .. d - 1
  BY <1>1, <1>2, DivMod
<1>4. q * d + d <= Pages * d /\ q * d \in Int /\ Pages * d \in Int
  <2>1. q \in Int /\ Pages \in Int /\ q < Pages
    BY <1>2
  <2>2. QED BY <1>2, <2>1, Multiples
<1>5. QED BY <1>1, <1>2, <1>3, <1>4

\* The ranges the blocks are, for the range allocator.
Ranges == {<<b[1], SlotLen(b[2])>> : b \in live}

\* A new block is a range mapped.
LEMMA NewMaps ==
    ASSUME NEW b \in Nat \X Lengths, live' = live \cup {b},
           \A x \in SlotsOf(b) : x \in 0 .. Pages * PageSlots - 1,
           \A c \in live : SlotsOf(b) \cap SlotsOf(c) = {}
    PROVE  Abstract!Next
<1>1. PICK s, n : s = b[1] /\ n = SlotLen(b[2]) /\ s \in Nat /\ b[2] \in Lengths
  OBVIOUS
<1>2. n \in Nat \ {0} /\ n \in {SlotLen(len) : len \in Lengths}
  BY <1>1, BlockSizes
<1>3. s \in SlotsOf(b) /\ SlotsOf(b) = s .. s + n - 1
  BY <1>1, <1>2 DEF SlotsOf
<1>4. s \in 0 .. Pages * PageSlots - 1
  BY <1>3
<1>5. PICK r : r = <<s, n>>
  OBVIOUS
<1>6. Abstract!Bytes(r) = SlotsOf(b) /\ r[2] = n
  BY <1>3, <1>5 DEF Abstract!Bytes
<1>7. \A x \in Abstract!Held : \E c \in live : x \in SlotsOf(c)
  <2> SUFFICES ASSUME NEW x \in Abstract!Held PROVE \E c \in live : x \in SlotsOf(c)
    OBVIOUS
  <2>1. PICK c \in live : x \in Abstract!Bytes(<<c[1], SlotLen(c[2])>>)
    BY DEF Abstract!Held
  <2>2. x \in SlotsOf(c)
    BY <2>1 DEF Abstract!Bytes, SlotsOf
  <2>3. QED BY <2>2
<1>8. Abstract!Bytes(r) \subseteq (0 .. Pages * PageSlots - 1) \ Abstract!Held
  BY <1>6, <1>7
<1>9. Ranges' = Ranges \cup {r}
  BY <1>1, <1>5 DEF Ranges
<1>10. Abstract!Map(r)
  BY <1>2, <1>6, <1>8, <1>9 DEF Abstract!Map, Ranges
<1>11. QED BY <1>2, <1>4, <1>5, <1>10 DEF Abstract!Next

\* Every step is one of the range allocator, or changes nothing of it.
LEMMA StepImplements == HeapSafe /\ [Next]_vars => [Abstract!Next]_<<Ranges, {}>>
<1> SUFFICES ASSUME HeapSafe, [Next]_vars PROVE [Abstract!Next]_<<Ranges, {}>>
  OBVIOUS
<1>1. ASSUME NEW len \in Lengths, ~stray, NewInPage(len) PROVE Abstract!Next
  <2>1. HeapInv
    BY <1>1 DEF HeapSafe
  <2>2. SlotLen(len) \in 0 .. Slots
    BY <1>1, <2>1, NewInPageShape
  <2>3. PICK page \in Page, o \in 0 .. Slots - SlotLen(len), taken \in SUBSET Int :
           /\ taken = o .. o + SlotLen(len) - 1
           /\ bitmap[page] # {} /\ taken \cap bitmap[page] = {}
           /\ live' = live \cup {Block(page, o, len)}
    BY <1>1, <2>1, NewInPageShape
  <2>4. PICK b : b = Block(page, o, len)
    OBVIOUS
  <2>5. /\ b \in Nat \X Lengths /\ FirstPage(b) = page /\ LastPage(b) = page
        /\ BitsOf(b) = taken /\ BitsOf(b) \subseteq Slot
    BY <2>2, <2>3, <2>4, BlockInPage
  <2>6. ASSUME NEW x \in SlotsOf(b)
        PROVE  x \in Nat /\ x \div PageSlots = page /\ x % PageSlots \in taken
    <3>1. /\ x \in Nat /\ x \div PageSlots \in FirstPage(b) .. LastPage(b)
          /\ x \div PageSlots = LastPage(b) => x % PageSlots \in BitsOf(b)
      BY <2>5, RangeShape
    <3>2. x \div PageSlots = page
      BY <2>5, <3>1, Parameters
    <3>3. QED BY <2>5, <3>1, <3>2
  <2>7. \A x \in SlotsOf(b) : x \in 0 .. Pages * PageSlots - 1
    BY <2>6, InSpace
  <2>8. ASSUME NEW c \in live, NEW x \in SlotsOf(b), x \in SlotsOf(c) PROVE FALSE
    <3>1. /\ bitmap[x \div PageSlots] # {} /\ x \div PageSlots \in Page
          /\ x % PageSlots \notin bitmap[x \div PageSlots]
      BY <2>3, <2>6
    <3>2. QED BY <2>1, <2>5, <2>8, <3>1, NewRange
  <2>9. QED BY <2>3, <2>4, <2>5, <2>7, <2>8, NewMaps
<1>2. ASSUME NEW len \in Lengths, NEW first \in Page, NEW junk \in Leftovers, ~stray,
             NewPages(len, first, junk)
      PROVE  Abstract!Next
  <2>1. HeapInv
    BY <1>2 DEF HeapSafe
  <2>2. PICK b : b = Block(first, 0, len)
    OBVIOUS
  <2>3. /\ b \in Nat \X Lengths /\ Offset(b) = 0
        /\ FirstPage(b) = first /\ LastPage(b) \in Page
        /\ (FirstPage(b) .. LastPage(b)) \cap mapped = {}
        /\ live' = live \cup {b}
    BY <1>2, <2>1, <2>2, NewPagesShape
  <2>4. ASSUME NEW x \in SlotsOf(b)
        PROVE  x \in Nat /\ x \div PageSlots \in Page /\ x \div PageSlots \notin mapped
    <3>1. x \in Nat /\ x \div PageSlots \in FirstPage(b) .. LastPage(b)
      BY <2>3, RangeInPages
    <3>2. x \div PageSlots \in Page
      BY <2>3, <3>1, Parameters
    <3>3. QED BY <2>3, <3>1, <3>2
  <2>5. \A x \in SlotsOf(b) : x \in 0 .. Pages * PageSlots - 1
    BY <2>4, InSpace
  <2>6. ASSUME NEW c \in live, NEW x \in SlotsOf(b), x \in SlotsOf(c) PROVE FALSE
    BY <2>1, <2>3, <2>4, <2>6, NewRange
  <2>7. QED BY <2>3, <2>5, <2>6, NewMaps
<1>3. ASSUME NEW b \in live, ~stray, Delete(b) PROVE Abstract!Next
  <2>1. HeapInv
    BY <1>3 DEF HeapSafe
  <2>2. live' = live \ {b}
    BY <1>3, <2>1, DeleteShape
  <2>3. b \in Nat \X Lengths
    BY <2>1 DEF HeapInv, BlocksInv, WellPlaced
  <2>4. PICK s, n : s = b[1] /\ n = SlotLen(b[2])
    OBVIOUS
  <2>5. s \in Nat /\ n \in Nat \ {0} /\ s \in SlotsOf(b)
    BY <2>3, <2>4, BlockSizes DEF SlotsOf
  <2>6. PICK r : r = <<s, n>>
    OBVIOUS
  <2>7. r \in Ranges
    BY <2>4, <2>6 DEF Ranges
  <2>8. \A c \in live : c # b => <<c[1], SlotLen(c[2])>> # r
    <3> SUFFICES ASSUME NEW c \in live, c # b, <<c[1], SlotLen(c[2])>> = r PROVE FALSE
      OBVIOUS
    <3>1. SlotsOf(c) = SlotsOf(b)
      BY <2>4, <2>6 DEF SlotsOf
    <3>2. QED BY <2>1, <2>5, <3>1, RangesApart
  <2>9. Ranges' = (Ranges \ {r}) \cup {}
    BY <2>2, <2>4, <2>6, <2>8 DEF Ranges
  <2>10. r[2] = n /\ ~(n < r[2]) /\ n \in 1 .. r[2]
    BY <2>5, <2>6
  <2>11. Abstract!Unmap(r, n)
    BY <2>7, <2>9, <2>10 DEF Abstract!Unmap, Ranges
  <2>12. QED BY <2>7, <2>10, <2>11 DEF Abstract!Next, Ranges
<1>4. ASSUME UNCHANGED vars PROVE UNCHANGED <<Ranges, {}>>
  BY <1>4 DEF vars, Ranges
<1>5. QED BY <1>1, <1>2, <1>3, <1>4 DEF Next

\* The heap implements a range allocator: new returns slots of the address space nobody
\* holds, delete gives back the whole block, and nothing else changes who holds what,
\* not even where a pointer is written outside the lists' heads.
THEOREM HeapIsRangeAllocator == Spec => Implements
<1>1. Init => Abstract!Init
  BY DEF Init, Abstract!Init
<1>2. HeapSafe /\ [Next]_vars => [Abstract!Next]_<<Ranges, {}>>
  BY StepImplements
<1>3. QED BY <1>1, <1>2, HeapStaysSafe, PTL DEF Spec, Implements, Abstract!Spec, Ranges

================================================================================
