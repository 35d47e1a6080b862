----------------------------- MODULE HeapProofs -----------------------------
(***************************************************************************)
(* The collector and the root table of Heap, for any number of objects,    *)
(* roots and collections: tokens resolve to their objects, the heap is the *)
(* program's object graph, tokens are never handed out twice, and a        *)
(* collection keeps exactly what can be reached from the tokens held.      *)
(*                                                                         *)
(* The loops of the code that are recursive functions in Heap (RegisterAll *)
(* and Swept) are reasoned about with the least step at which something    *)
(* would go wrong.                                                         *)
(***************************************************************************)
EXTENDS Heap, TLAPS, FiniteSetTheorems, SequenceTheorems, WellFoundedInduction

\* The pointer of a cell among n cells of epoch e.
Valid(p, n, e) == p \in PtrType /\ p.index \in 1..n /\ p.generation = e

TableType == [roots : Seq(RootType), free : Seq(Nat), tokens : Seq(TokenType)]

\* A root table in order: what is registered points to a cell, and what is
\* free is free, and free once.
TableOK(t, n, e) ==
    /\ t \in TableType
    /\ \A s \in 1..Len(t.roots) : t.roots[s].pointer # NoPtr => Valid(t.roots[s].pointer, n, e)
    /\ \A k \in 1..Len(t.free) : t.free[k] \in 1..Len(t.roots) /\ t.roots[t.free[k]].pointer = NoPtr
    /\ \A k, m \in 1..Len(t.free) : t.free[k] = t.free[m] => k = m

\* A token that was handed out is the registered one of its slot, or its
\* generation has passed.
IssuedOK(I, roots) ==
    \A token \in I :
        /\ token \in TokenType /\ token.slot \in 1..Len(roots)
        /\ \/ token.generation < roots[token.slot].generation
           \/ /\ token.generation = roots[token.slot].generation
              /\ roots[token.slot].pointer # NoPtr

\* The cells are the objects, each at most once, and their pointers the
\* references between them.
Graph(cells, objs, e) ==
    /\ cells \in Seq(CellType) /\ objs \in Seq(Seq(Nat))
    /\ \A i \in 1..Len(cells) :
           /\ cells[i].generation = e /\ cells[i].obj \in 1..Len(objs)
           /\ Len(cells[i].kids) = Len(objs[cells[i].obj])
           /\ \A k \in 1..Len(cells[i].kids) :
                  /\ Valid(cells[i].kids[k], Len(cells), e)
                  /\ cells[cells[i].kids[k].index].obj = objs[cells[i].obj][k]
    /\ \A i, j \in 1..Len(cells) : cells[i].obj = cells[j].obj => i = j

\* A token is registered.
Registered(roots, token) ==
    /\ token \in TokenType /\ token.slot \in 1..Len(roots)
    /\ roots[token.slot].generation = token.generation
    /\ roots[token.slot].pointer # NoPtr

HeldOK ==
    \A token \in DOMAIN held :
        /\ token \in issued /\ Registered(runtime_roots, token)
        /\ slots[Pointer(token).index].obj = held[token]

IInv ==
    /\ next_gc_slot_count \in Nat /\ extreme_stress \in BOOLEAN /\ collection_epoch \in Nat
    /\ Graph(slots, objects, collection_epoch)
    /\ TableOK(Table, Len(slots), collection_epoch)
    /\ IssuedOK(issued, runtime_roots)
    /\ HeldOK

-----------------------------------------------------------------------------
(* The loops.                                                               *)

LEMMA LeastNat ==
  ASSUME NEW B \in SUBSET Nat, B # {}
  PROVE  \E m \in B : \A k \in B : m <= k
<1>1. PICK m \in B : \A k \in B : ~(<<k, m>> \in OpToRel(<, Nat))
  BY NatLessThanWellFounded, WFMin
<1>2. ASSUME NEW k \in B PROVE m <= k
  <2>1. ~(k < m)
    BY <1>1 DEF OpToRel
  <2> QED
    BY <2>1
<1> QED
  BY <1>2

\* RegisterAll is its loop.
LEMMA RegisterLoop ==
  ASSUME NEW t, NEW S, NEW pointers \in Seq(S)
  PROVE  \E after : /\ after = [n \in 0..Len(pointers) |->
                                   IF n = 0 THEN t ELSE Register(after[n - 1], pointers[n])]
                    /\ RegisterAll(t, pointers) = after[Len(pointers)]
<1> DEFINE N == Len(pointers)
           Loop(g, m) == g = [n \in 0..m |-> IF n = 0 THEN t ELSE Register(g[n - 1], pointers[n])]
           B == {m \in 0..N : ~\E g : Loop(g, m)}
           rec == CHOOSE g : Loop(g, N)
<1>1. N \in Nat
  OBVIOUS
<1>2. RegisterAll(t, pointers) = rec[N]
  BY DEF RegisterAll
<1>3. B = {}
  <2> SUFFICES ASSUME B # {} PROVE FALSE
    OBVIOUS
  <2>1. PICK m \in B : \A k \in B : m <= k
    <3>1. B \in SUBSET Nat
      BY <1>1
    <3> HIDE DEF B
    <3> QED
      BY <3>1, LeastNat
  <2>2. m \in 0..N /\ ~\E g : Loop(g, m)
    BY <2>1
  <2>3. CASE m = 0
    <3> DEFINE g == [n \in 0..0 |-> t]
    <3>1. g = [n \in 0..0 |-> IF n = 0 THEN t ELSE Register(g[n - 1], pointers[n])]
      OBVIOUS
    <3> QED
      BY <2>2, <2>3, <3>1
  <2>4. CASE m # 0
    <3>1. m - 1 \in 0..N /\ m - 1 \notin B /\ m \in Nat
      <4>1. m - 1 \in 0..N /\ ~(m <= m - 1) /\ m \in Nat
        BY <1>1, <2>2, <2>4
      <4> HIDE DEF B
      <4> QED
        BY <2>1, <4>1
    <3>2. PICK g : Loop(g, m - 1)
      BY <3>1
    <3> DEFINE h == [n \in 0..m |-> IF n = m THEN Register(g[m - 1], pointers[m]) ELSE g[n]]
    <3>3. h = [n \in 0..m |-> IF n = 0 THEN t ELSE Register(h[n - 1], pointers[n])]
      <4>1. ASSUME NEW n \in 0..m
            PROVE  h[n] = IF n = 0 THEN t ELSE Register(h[n - 1], pointers[n])
        <5>1. CASE n = m
          <6>1. h[n] = Register(g[m - 1], pointers[m]) /\ h[n - 1] = g[m - 1]
            BY <2>4, <3>1, <5>1
          <6> QED
            BY <2>4, <5>1, <6>1
        <5>2. CASE n # m
          <6>1. n \in 0..(m - 1) /\ h[n] = g[n] /\ (n # 0 => h[n - 1] = g[n - 1])
            BY <3>1, <5>2
          <6>2. g[n] = IF n = 0 THEN t ELSE Register(g[n - 1], pointers[n])
            BY <3>2, <6>1
          <6> QED
            BY <6>1, <6>2
        <5> QED
          BY <5>1, <5>2
      <4> QED
        BY <4>1
    <3> QED
      BY <2>2, <3>3
  <2> QED
    BY <2>3, <2>4
<1>4. \E g : Loop(g, N)
  BY <1>1, <1>3
<1>5. Loop(rec, N)
  BY <1>4
<1> QED
  BY <1>2, <1>5

\* What the sweep does with one slot.
SweepSlot(t, live, g, slot) ==
    IF Stale(t.roots, slot, live)
    THEN Unregister(g, Token(slot, t.roots[slot].generation)) ELSE g

\* Swept is its loop.
LEMMA SweepLoop ==
  ASSUME NEW t, NEW live, NEW S, t.roots \in Seq(S)
  PROVE  \E sweep : /\ sweep = [n \in 0..Len(t.roots) |->
                                   IF n = 0 THEN t ELSE SweepSlot(t, live, sweep[n - 1], n)]
                    /\ Swept(t, live) = sweep[Len(t.roots)]
<1> DEFINE N == Len(t.roots)
           Loop(g, m) == g = [n \in 0..m |-> IF n = 0 THEN t ELSE SweepSlot(t, live, g[n - 1], n)]
           B == {m \in 0..N : ~\E g : Loop(g, m)}
           rec == CHOOSE g : Loop(g, N)
<1>1. N \in Nat
  OBVIOUS
<1>2. Swept(t, live) = rec[N]
  BY DEF Swept, SweepSlot
<1>3. B = {}
  <2> SUFFICES ASSUME B # {} PROVE FALSE
    OBVIOUS
  <2>1. PICK m \in B : \A k \in B : m <= k
    <3>1. B \in SUBSET Nat
      BY <1>1
    <3> HIDE DEF B
    <3> QED
      BY <3>1, LeastNat
  <2>2. m \in 0..N /\ ~\E g : Loop(g, m)
    BY <2>1
  <2>3. CASE m = 0
    <3> DEFINE g == [n \in 0..0 |-> t]
    <3>1. g = [n \in 0..0 |-> IF n = 0 THEN t ELSE SweepSlot(t, live, g[n - 1], n)]
      OBVIOUS
    <3> QED
      BY <2>2, <2>3, <3>1
  <2>4. CASE m # 0
    <3>1. m - 1 \in 0..N /\ m - 1 \notin B /\ m \in Nat
      <4>1. m - 1 \in 0..N /\ ~(m <= m - 1) /\ m \in Nat
        BY <1>1, <2>2, <2>4
      <4> HIDE DEF B
      <4> QED
        BY <2>1, <4>1
    <3>2. PICK g : Loop(g, m - 1)
      BY <3>1
    <3> DEFINE h == [n \in 0..m |-> IF n = m THEN SweepSlot(t, live, g[m - 1], m) ELSE g[n]]
    <3>3. h = [n \in 0..m |-> IF n = 0 THEN t ELSE SweepSlot(t, live, h[n - 1], n)]
      <4>1. ASSUME NEW n \in 0..m
            PROVE  h[n] = IF n = 0 THEN t ELSE SweepSlot(t, live, h[n - 1], n)
        <5>1. CASE n = m
          <6>1. h[n] = SweepSlot(t, live, g[m - 1], m) /\ h[n - 1] = g[m - 1]
            BY <2>4, <3>1, <5>1
          <6> QED
            BY <2>4, <5>1, <6>1
        <5>2. CASE n # m
          <6>1. n \in 0..(m - 1) /\ h[n] = g[n] /\ (n # 0 => h[n - 1] = g[n - 1])
            BY <3>1, <5>2
          <6>2. g[n] = IF n = 0 THEN t ELSE SweepSlot(t, live, g[n - 1], n)
            BY <3>2, <6>1
          <6> QED
            BY <6>1, <6>2
        <5> QED
          BY <5>1, <5>2
      <4> QED
        BY <4>1
    <3> QED
      BY <2>2, <3>3
  <2> QED
    BY <2>3, <2>4
<1>4. \E g : Loop(g, N)
  BY <1>1, <1>3
<1>5. Loop(rec, N)
  BY <1>4
<1> QED
  BY <1>2, <1>5

-----------------------------------------------------------------------------
(* The root table.                                                          *)

\* g is t with the pointer p registered, for which tok was handed out.
Added(t, g, tok, p) ==
    /\ tok \in TokenType /\ tok.slot \in 1..Len(g.roots)
    /\ g.roots[tok.slot] = Entry(tok.generation, p)
    /\ Len(g.roots) >= Len(t.roots)
    /\ tok.slot \in 1..Len(t.roots) =>
           t.roots[tok.slot].pointer = NoPtr /\ t.roots[tok.slot].generation = tok.generation
    /\ \A s \in 1..Len(t.roots) : s # tok.slot => g.roots[s] = t.roots[s]

LEMMA PutIs ==
  ASSUME NEW roots \in Seq(RootType), NEW slot, NEW entry \in RootType
  PROVE  /\ Put(roots, slot, entry) \in Seq(RootType)
         /\ Len(Put(roots, slot, entry)) = Len(roots) /\ Len(roots) \in Nat
         /\ \A s \in 1..Len(roots) : Put(roots, slot, entry)[s] = IF s = slot THEN entry ELSE roots[s]
<1>1. Len(roots) \in Nat /\ \A s \in 1..Len(roots) : roots[s] \in RootType
  OBVIOUS
<1>2. \A s \in 1..Len(roots) : Put(roots, slot, entry)[s] = IF s = slot THEN entry ELSE roots[s]
  BY DEF Put
<1>3. Put(roots, slot, entry) \in Seq(RootType) /\ Len(Put(roots, slot, entry)) = Len(roots)
  BY <1>1 DEF Put
<1> QED
  BY <1>1, <1>2, <1>3

LEMMA NoPtrInvalid == ASSUME NEW n, NEW e, NEW p, Valid(p, n, e) PROVE p # NoPtr /\ p \in PtrType
  BY DEF Valid, NoPtr

LEMMA EntryIs ==
  ASSUME NEW gen \in Nat, NEW p \in PtrType
  PROVE  Entry(gen, p) \in RootType /\ Entry(gen, p).generation = gen /\ Entry(gen, p).pointer = p
  BY DEF Entry, RootType

LEMMA TableTypes ==
  ASSUME NEW t, NEW n, NEW e, TableOK(t, n, e)
  PROVE  /\ t \in TableType /\ t.roots \in Seq(RootType) /\ t.free \in Seq(Nat) /\ t.tokens \in Seq(TokenType)
         /\ Len(t.roots) \in Nat /\ Len(t.free) \in Nat /\ Len(t.tokens) \in Nat
         /\ \A s \in 1..Len(t.roots) : t.roots[s] \in RootType
<1>1. t \in TableType
  BY DEF TableOK
<1>2. t.roots \in Seq(RootType) /\ t.free \in Seq(Nat) /\ t.tokens \in Seq(TokenType)
  BY <1>1 DEF TableType
<1> QED
  BY <1>1, <1>2

\* A free slot is taken from the end of the list.
LEMMA FrontIs ==
  ASSUME NEW q \in Seq(Nat), q # <<>>
  PROVE  /\ SubSeq(q, 1, Len(q) - 1) \in Seq(Nat) /\ Len(SubSeq(q, 1, Len(q) - 1)) = Len(q) - 1
         /\ Len(q) \in Nat /\ Len(q) > 0 /\ q[Len(q)] \in Nat
         /\ \A k \in 1..(Len(q) - 1) : SubSeq(q, 1, Len(q) - 1)[k] = q[k]
<1>1. Len(q) \in Nat /\ Len(q) > 0 /\ q[Len(q)] \in Nat
  OBVIOUS
<1> DEFINE m == Len(q) - 1
<1>2. m \in Nat /\ m <= Len(q)
  BY <1>1
<1> HIDE DEF m
<1>3. SubSeq(q, 1, m) \in Seq(Nat) /\ Len(SubSeq(q, 1, m)) = m
  BY <1>1, <1>2
<1>4. \A k \in 1..m : SubSeq(q, 1, m)[k] = q[k]
  BY <1>1, <1>2
<1> QED
  BY <1>1, <1>3, <1>4 DEF m

LEMMA RegisterReuses ==
  ASSUME NEW t, NEW n, NEW e, TableOK(t, n, e), NEW p, Valid(p, n, e), t.free # <<>>
  PROVE  LET g == Register(t, p)
             tok == Token(t.free[Len(t.free)], t.roots[t.free[Len(t.free)]].generation)
         IN  TableOK(g, n, e) /\ g.tokens = Append(t.tokens, tok) /\ Added(t, g, tok, p)
<1> DEFINE slot == t.free[Len(t.free)]
           gen == t.roots[slot].generation
           tok == Token(slot, gen)
           entry == Entry(gen, p)
           r == Put(t.roots, slot, entry)
           f == SubSeq(t.free, 1, Len(t.free) - 1)
           k == Append(t.tokens, tok)
           g == [roots |-> r, free |-> f, tokens |-> k]
<1>1. /\ t.roots \in Seq(RootType) /\ t.free \in Seq(Nat) /\ t.tokens \in Seq(TokenType)
      /\ Len(t.roots) \in Nat /\ Len(t.free) \in Nat
      /\ \A s \in 1..Len(t.roots) : t.roots[s] \in RootType
  BY TableTypes
<1>2. Register(t, p) = g
  BY Zenon DEF Register
<1>3. /\ f \in Seq(Nat) /\ Len(f) = Len(t.free) - 1 /\ Len(t.free) > 0
      /\ \A i \in 1..(Len(t.free) - 1) : f[i] = t.free[i]
  BY <1>1, FrontIs
<1>4. slot \in 1..Len(t.roots) /\ t.roots[slot].pointer = NoPtr
  <2>1. Len(t.free) \in 1..Len(t.free)
    BY <1>1, <1>3
  <2> QED
    BY <2>1 DEF TableOK
<1>5. slot \in Nat /\ gen \in Nat
  BY <1>1, <1>4 DEF RootType
<1>6. \A i \in 1..Len(f) : i \in 1..Len(t.free) /\ f[i] = t.free[i] /\ i # Len(t.free)
  BY <1>1, <1>3
<1>7. \A i \in 1..Len(f) : f[i] \in 1..Len(t.roots) /\ t.roots[f[i]].pointer = NoPtr /\ f[i] # slot
  <2>1. Len(t.free) \in 1..Len(t.free)
    BY <1>1, <1>3
  <2> QED
    BY <1>6, <2>1 DEF TableOK
<1>8. \A i, j \in 1..Len(f) : f[i] = f[j] => i = j
  BY <1>6 DEF TableOK
<1> HIDE DEF slot, gen, f
<1>9. tok \in TokenType /\ tok.slot = slot /\ tok.generation = gen
  BY <1>5 DEF Token, TokenType
<1>10. entry \in RootType /\ entry.pointer = p /\ entry.generation = gen
  BY <1>5, NoPtrInvalid, EntryIs
<1> HIDE DEF entry, tok
<1>11. /\ r \in Seq(RootType) /\ Len(r) = Len(t.roots)
       /\ \A s \in 1..Len(t.roots) : r[s] = IF s = slot THEN entry ELSE t.roots[s]
  BY <1>1, <1>10, PutIs
<1>12. k \in Seq(TokenType)
  BY <1>1, <1>9
<1> HIDE DEF r, k
<1>13. g \in TableType /\ g.roots = r /\ g.free = f /\ g.tokens = k
  BY <1>3, <1>11, <1>12 DEF TableType
<1> HIDE DEF g
<1>14. \A s \in 1..Len(r) : r[s].pointer # NoPtr => Valid(r[s].pointer, n, e)
  BY <1>10, <1>11 DEF TableOK
<1>15. \A i \in 1..Len(f) : f[i] \in 1..Len(r) /\ r[f[i]].pointer = NoPtr
  BY <1>7, <1>11
<1>16. TableOK(g, n, e)
  BY <1>8, <1>13, <1>14, <1>15, Zenon DEF TableOK
<1>17. Len(g.roots) >= Len(t.roots)
  BY <1>1, <1>11, <1>13
<1>18. tok.slot \in 1..Len(g.roots) /\ g.roots[tok.slot] = Entry(tok.generation, p)
  BY <1>4, <1>9, <1>11, <1>13 DEF entry
<1>19. \A s \in 1..Len(t.roots) : s # tok.slot => g.roots[s] = t.roots[s]
  BY <1>9, <1>11, <1>13
<1>20. Added(t, g, tok, p)
  BY <1>4, <1>9, <1>17, <1>18, <1>19 DEF Added, gen
<1> QED
  BY <1>2, <1>13, <1>16, <1>20, Zenon DEF k, tok, slot, gen

LEMMA RegisterGrows ==
  ASSUME NEW t, NEW n, NEW e, TableOK(t, n, e), NEW p, Valid(p, n, e), t.free = <<>>
  PROVE  LET g == Register(t, p)
             tok == Token(Len(t.roots) + 1, 0)
         IN  TableOK(g, n, e) /\ g.tokens = Append(t.tokens, tok) /\ Added(t, g, tok, p)
<1> DEFINE L == Len(t.roots)
           tok == Token(L + 1, 0)
           entry == Entry(0, p)
           r == Append(t.roots, entry)
           f == <<>>
           k == Append(t.tokens, tok)
           g == [roots |-> r, free |-> f, tokens |-> k]
<1>1. /\ t.roots \in Seq(RootType) /\ t.tokens \in Seq(TokenType) /\ L \in Nat
  BY TableTypes
<1>2. Register(t, p) = g
  BY Zenon DEF Register
<1>3. f \in Seq(Nat) /\ Len(f) = 0 /\ 1..Len(f) = {}
  OBVIOUS
<1> HIDE DEF f
<1>4. tok \in TokenType /\ tok.slot = L + 1 /\ tok.generation = 0
  BY <1>1 DEF Token, TokenType
<1>5. entry \in RootType /\ entry.pointer = p /\ entry.generation = 0
  BY NoPtrInvalid, EntryIs
<1> HIDE DEF entry, tok
<1>6. /\ r \in Seq(RootType) /\ Len(r) = L + 1 /\ r[L + 1] = entry
      /\ \A s \in 1..L : r[s] = t.roots[s]
  BY <1>1, <1>5
<1>7. k \in Seq(TokenType)
  BY <1>1, <1>4
<1> HIDE DEF r, k
<1>8. g \in TableType /\ g.roots = r /\ g.free = f /\ g.tokens = k
  BY <1>3, <1>6, <1>7 DEF TableType
<1> HIDE DEF g
<1>9. \A s \in 1..Len(r) : s \in 1..L \/ s = L + 1
  BY <1>1, <1>6
<1>10. \A s \in 1..Len(r) : r[s].pointer # NoPtr => Valid(r[s].pointer, n, e)
  BY <1>5, <1>6, <1>9 DEF TableOK
<1>11. TableOK(g, n, e)
  BY <1>3, <1>8, <1>10 DEF TableOK
<1>12. tok.slot \in 1..Len(g.roots) /\ tok.slot \notin 1..L /\ Len(g.roots) >= L
  BY <1>1, <1>4, <1>6, <1>8
<1>13. g.roots[tok.slot] = Entry(tok.generation, p)
  BY <1>4, <1>6, <1>8 DEF entry
<1>14. Added(t, g, tok, p)
  BY <1>4, <1>6, <1>8, <1>12, <1>13 DEF Added
<1> QED
  BY <1>2, <1>8, <1>11, <1>14, Zenon DEF k, tok, L

LEMMA RegisterOne ==
  ASSUME NEW t, NEW n, NEW e, TableOK(t, n, e), NEW p, Valid(p, n, e)
  PROVE  \E tok : /\ TableOK(Register(t, p), n, e)
                  /\ Register(t, p).tokens = Append(t.tokens, tok)
                  /\ Added(t, Register(t, p), tok, p)
<1>1. CASE t.free # <<>>
  BY <1>1, RegisterReuses
<1>2. CASE t.free = <<>>
  BY <1>2, RegisterGrows
<1> QED
  BY <1>1, <1>2

\* What is registered stays so, and the new token is a new one.
LEMMA AddedKeeps ==
  ASSUME NEW t, NEW g, NEW n, NEW e, TableOK(t, n, e), TableOK(g, n, e), NEW tok, NEW p, Valid(p, n, e),
         Added(t, g, tok, p)
  PROVE  /\ Registered(g.roots, tok) /\ g.roots[tok.slot].pointer = p
         /\ \A h : Registered(t.roots, h) => Registered(g.roots, h) /\ g.roots[h.slot] = t.roots[h.slot]
         /\ \A I : IssuedOK(I, t.roots) => tok \notin I /\ IssuedOK(I \cup {tok}, g.roots)
<1>1. /\ Len(t.roots) \in Nat /\ Len(g.roots) \in Nat
      /\ \A s \in 1..Len(t.roots) : t.roots[s] \in RootType
      /\ \A s \in 1..Len(g.roots) : g.roots[s] \in RootType
  BY TableTypes
<1>2. tok.generation \in Nat /\ p \in PtrType /\ p # NoPtr
  BY NoPtrInvalid DEF Added, TokenType
<1>3. Entry(tok.generation, p).generation = tok.generation /\ Entry(tok.generation, p).pointer = p
  BY <1>2, EntryIs
<1>4. Registered(g.roots, tok) /\ g.roots[tok.slot].pointer = p
  BY <1>2, <1>3 DEF Added, Registered
<1>5. \A s \in 1..Len(t.roots) : s \in 1..Len(g.roots)
  BY <1>1 DEF Added
<1>6. ASSUME NEW h, Registered(t.roots, h)
      PROVE  Registered(g.roots, h) /\ g.roots[h.slot] = t.roots[h.slot]
  <2>1. h.slot # tok.slot
    BY <1>6 DEF Registered, Added
  <2>2. g.roots[h.slot] = t.roots[h.slot]
    BY <1>6, <2>1 DEF Registered, Added
  <2> QED
    BY <1>5, <1>6, <2>2 DEF Registered
<1>7. ASSUME NEW I, IssuedOK(I, t.roots) PROVE tok \notin I /\ IssuedOK(I \cup {tok}, g.roots)
  <2>1. tok \notin I
    <3> SUFFICES ASSUME tok \in I PROVE FALSE
      OBVIOUS
    <3>1. /\ tok.slot \in 1..Len(t.roots)
          /\ \/ tok.generation < t.roots[tok.slot].generation
             \/ /\ tok.generation = t.roots[tok.slot].generation
                /\ t.roots[tok.slot].pointer # NoPtr
      BY <1>7 DEF IssuedOK
    <3>2. t.roots[tok.slot].pointer = NoPtr /\ t.roots[tok.slot].generation = tok.generation
      BY <3>1 DEF Added
    <3> QED
      BY <1>2, <3>1, <3>2
  <2>2. ASSUME NEW h \in I
        PROVE  /\ h \in TokenType /\ h.slot \in 1..Len(g.roots)
               /\ \/ h.generation < g.roots[h.slot].generation
                  \/ /\ h.generation = g.roots[h.slot].generation
                     /\ g.roots[h.slot].pointer # NoPtr
    <3>1. /\ h \in TokenType /\ h.slot \in 1..Len(t.roots)
          /\ \/ h.generation < t.roots[h.slot].generation
             \/ /\ h.generation = t.roots[h.slot].generation
                /\ t.roots[h.slot].pointer # NoPtr
      BY <1>7 DEF IssuedOK
    <3>2. CASE h.slot # tok.slot
      <4>1. g.roots[h.slot] = t.roots[h.slot]
        BY <3>1, <3>2 DEF Added
      <4> QED
        BY <1>5, <3>1, <4>1, Zenon
    <3>3. CASE h.slot = tok.slot
      <4>1. t.roots[h.slot].generation = tok.generation /\ t.roots[h.slot].pointer = NoPtr
        BY <3>1, <3>3 DEF Added
      <4>2. g.roots[h.slot].generation = tok.generation
        BY <1>4, <3>3 DEF Registered
      <4> QED
        BY <1>5, <3>1, <4>1, <4>2, Zenon
    <3> QED
      BY <3>2, <3>3
  <2>3. IssuedOK(I \cup {tok}, g.roots)
    BY <1>4, <2>2 DEF IssuedOK, Registered
  <2> QED
    BY <2>1, <2>3
<1> QED
  BY <1>4, <1>6, <1>7

\* The loop of RegisterAll after m pointers.
Registers(t, g, m, pointers, I, n, e) ==
    /\ TableOK(g, n, e) /\ Len(g.tokens) = m
    /\ \A i \in 1..m : /\ Registered(g.roots, g.tokens[i])
                       /\ g.roots[g.tokens[i].slot].pointer = pointers[i]
                       /\ g.tokens[i] \notin I
    /\ \A i, j \in 1..m : g.tokens[i] = g.tokens[j] => i = j
    /\ IssuedOK(I \cup Range(g.tokens), g.roots)
    /\ \A h : Registered(t.roots, h) => Registered(g.roots, h) /\ g.roots[h.slot] = t.roots[h.slot]

LEMMA RegistersNext ==
  ASSUME NEW t, NEW g, NEW m \in Nat, NEW pointers, NEW I, NEW n, NEW e,
         Registers(t, g, m, pointers, I, n, e), Valid(pointers[m + 1], n, e)
  PROVE  Registers(t, Register(g, pointers[m + 1]), m + 1, pointers, I, n, e)
<1> DEFINE p == pointers[m + 1]
           k == Register(g, p)
<1>1. TableOK(g, n, e) /\ Len(g.tokens) = m
  BY DEF Registers
<1>2. PICK tok : TableOK(k, n, e) /\ k.tokens = Append(g.tokens, tok) /\ Added(g, k, tok, p)
  BY <1>1, RegisterOne
<1> HIDE DEF k, p
<1>3. g.tokens \in Seq(TokenType) /\ tok \in TokenType
  BY <1>1, <1>2, TableTypes DEF Added
<1>4. /\ Len(k.tokens) = m + 1 /\ k.tokens[m + 1] = tok
      /\ \A i \in 1..m : k.tokens[i] = g.tokens[i]
  BY <1>1, <1>2, <1>3
<1>5. Valid(p, n, e)
  BY DEF p
<1>6. /\ Registered(k.roots, tok) /\ k.roots[tok.slot].pointer = p
      /\ \A h : Registered(g.roots, h) => Registered(k.roots, h) /\ k.roots[h.slot] = g.roots[h.slot]
      /\ \A J : IssuedOK(J, g.roots) => tok \notin J /\ IssuedOK(J \cup {tok}, k.roots)
  BY <1>1, <1>2, <1>5, AddedKeeps
<1>7. \A i \in 1..m : tok # g.tokens[i]
  <2>1. \A i \in 1..m : g.tokens[i] \in Range(g.tokens)
    BY <1>1, <1>3 DEF Range
  <2>2. IssuedOK(I \cup Range(g.tokens), g.roots)
    BY DEF Registers
  <2>3. tok \notin I \cup Range(g.tokens)
    BY <1>6, <2>2
  <2> QED
    BY <2>1, <2>3
<1>8. tok \notin I
  BY <1>6 DEF Registers
<1>9. \A i \in 1..(m + 1) : i \in 1..m \/ i = m + 1
  OBVIOUS
<1>10. Range(k.tokens) = Range(g.tokens) \cup {tok}
  <2>1. DOMAIN g.tokens = 1..m /\ DOMAIN k.tokens = 1..(m + 1)
    BY <1>1, <1>2, <1>3, <1>4
  <2>2. 1..m \subseteq 1..(m + 1) /\ m + 1 \in 1..(m + 1)
    OBVIOUS
  <2> QED
    BY <1>4, <1>9, <2>1, <2>2 DEF Range
<1>11. IssuedOK(I \cup Range(k.tokens), k.roots)
  <2>1. IssuedOK((I \cup Range(g.tokens)) \cup {tok}, k.roots)
    BY <1>6 DEF Registers
  <2>2. (I \cup Range(g.tokens)) \cup {tok} = I \cup Range(k.tokens)
    BY <1>10
  <2> QED
    BY <2>1, <2>2
<1>12. ASSUME NEW i \in 1..(m + 1)
       PROVE  /\ Registered(k.roots, k.tokens[i])
              /\ k.roots[k.tokens[i].slot].pointer = pointers[i]
              /\ k.tokens[i] \notin I
  <2>1. CASE i = m + 1
    BY <1>4, <1>6, <1>8, <2>1 DEF p
  <2>2. CASE i \in 1..m
    <3>1. /\ Registered(g.roots, g.tokens[i])
          /\ g.roots[g.tokens[i].slot].pointer = pointers[i]
          /\ g.tokens[i] \notin I
      BY <2>2 DEF Registers
    <3> QED
      BY <1>4, <1>6, <2>2, <3>1
  <2> QED
    BY <1>9, <2>1, <2>2
<1>13. \A i, j \in 1..(m + 1) : k.tokens[i] = k.tokens[j] => i = j
  BY <1>4, <1>7, <1>9, SMTT(40) DEF Registers
<1>14. \A h : Registered(t.roots, h) => Registered(k.roots, h) /\ k.roots[h.slot] = t.roots[h.slot]
  BY <1>6, Zenon DEF Registers
<1> QED
  BY <1>2, <1>4, <1>11, <1>12, <1>13, <1>14, Zenon DEF Registers, k, p

LEMMA RegistersNone ==
  ASSUME NEW t, NEW pointers, NEW I, NEW n, NEW e, TableOK(t, n, e), t.tokens = <<>>, IssuedOK(I, t.roots)
  PROVE  Registers(t, t, 0, pointers, I, n, e)
<1>1. Len(t.tokens) = 0 /\ Range(t.tokens) = {} /\ 1..0 = {}
  BY DEF Range
<1>2. IssuedOK(I \cup Range(t.tokens), t.roots)
  <2>1. I \cup Range(t.tokens) = I
    BY <1>1
  <2> QED
    BY <2>1
<1> QED
  BY <1>1, <1>2 DEF Registers

\* Open: every pointer of a cell gets a token of its own, and a new one.
LEMMA RegisterAllOK ==
  ASSUME NEW t, NEW pointers \in Seq(PtrType), NEW I, NEW n, NEW e,
         TableOK(t, n, e), t.tokens = <<>>, IssuedOK(I, t.roots),
         \A i \in 1..Len(pointers) : Valid(pointers[i], n, e)
  PROVE  Registers(t, RegisterAll(t, pointers), Len(pointers), pointers, I, n, e)
<1>1. PICK after : /\ after = [m \in 0..Len(pointers) |->
                                  IF m = 0 THEN t ELSE Register(after[m - 1], pointers[m])]
                   /\ RegisterAll(t, pointers) = after[Len(pointers)]
  BY RegisterLoop, Zenon
<1> DEFINE N == Len(pointers)
           B == {m \in 0..N : ~Registers(t, after[m], m, pointers, I, n, e)}
<1>2. N \in Nat /\ B \in SUBSET Nat
  OBVIOUS
<1>3. \A m \in 0..N : after[m] = IF m = 0 THEN t ELSE Register(after[m - 1], pointers[m])
  BY <1>1
<1>4. B = {}
  <2> SUFFICES ASSUME B # {} PROVE FALSE
    OBVIOUS
  <2>1. PICK m \in B : \A k \in B : m <= k
    <3> HIDE DEF B
    <3> QED
      BY <1>2, LeastNat
  <2>2. m \in 0..N /\ ~Registers(t, after[m], m, pointers, I, n, e)
    BY <2>1
  <2>3. CASE m = 0
    <3>1. after[0] = t
      BY <1>2, <1>3
    <3> QED
      BY <2>2, <2>3, <3>1, RegistersNone
  <2>4. CASE m # 0
    <3>1. m - 1 \in 0..N /\ m - 1 \in Nat /\ ~(m <= m - 1) /\ m \in 1..N /\ (m - 1) + 1 = m
      BY <1>2, <2>2, <2>4
    <3>2. m - 1 \notin B
      <4> HIDE DEF B
      <4> QED
        BY <2>1, <3>1
    <3>3. Registers(t, after[m - 1], m - 1, pointers, I, n, e)
      BY <3>1, <3>2
    <3>4. after[m] = Register(after[m - 1], pointers[m]) /\ Valid(pointers[m], n, e)
      BY <1>3, <2>2, <2>4, <3>1
    <3> DEFINE j == m - 1
               prev == after[m - 1]
    <3>5. j \in Nat /\ Registers(t, prev, j, pointers, I, n, e) /\ Valid(pointers[j + 1], n, e)
      BY <3>1, <3>3, <3>4
    <3>6. j + 1 = m /\ after[m] = Register(prev, pointers[j + 1])
      BY <3>1, <3>4
    <3> HIDE DEF j, prev
    <3>7. Registers(t, Register(prev, pointers[j + 1]), j + 1, pointers, I, n, e)
      BY <3>5, RegistersNext
    <3> QED
      BY <2>2, <3>6, <3>7
  <2> QED
    BY <2>3, <2>4
<1>5. N \in 0..N
  BY <1>2
<1> QED
  BY <1>1, <1>4, <1>5

-----------------------------------------------------------------------------
(* Tokens come into the evaluator's hands.                                  *)

\* The cells of the heap are where they were, and are the same objects.
Grown(cells, more) ==
    Len(more) >= Len(cells) /\ \A i \in 1..Len(cells) : more[i].obj = cells[i].obj

LEMMA HoldKeeps ==
  ASSUME IInv, NEW g, NEW m \in Nat, NEW pointers, NEW objs,
         Registers(Table, g, m, pointers, issued, Len(slots'), collection_epoch),
         Hold(g, objs), Grown(slots, slots'),
         \A i \in 1..m : slots'[pointers[i].index].obj = objs[i]
  PROVE  TableOK(Table', Len(slots'), collection_epoch) /\ IssuedOK(issued', runtime_roots') /\ HeldOK'
<1> DEFINE n == Len(slots')
           e == collection_epoch
<1>1. /\ TableOK(g, n, e) /\ Len(g.tokens) = m
      /\ \A i \in 1..m : /\ Registered(g.roots, g.tokens[i])
                         /\ g.roots[g.tokens[i].slot].pointer = pointers[i]
      /\ \A i, j \in 1..m : g.tokens[i] = g.tokens[j] => i = j
      /\ IssuedOK(issued \cup Range(g.tokens), g.roots)
      /\ \A h : Registered(Table.roots, h) =>
                    Registered(g.roots, h) /\ g.roots[h.slot] = Table.roots[h.slot]
  BY DEF Registers
<1>2. /\ runtime_roots' = g.roots /\ free_roots' = g.free
      /\ issued' = issued \cup Range(g.tokens)
      /\ held' = [token \in DOMAIN held \cup Range(g.tokens) |->
                   IF token \in Range(g.tokens)
                   THEN objs[CHOOSE i \in 1..Len(g.tokens) : g.tokens[i] = token]
                   ELSE held[token]]
  BY DEF Hold
<1>3. g.roots \in Seq(RootType) /\ g.free \in Seq(Nat) /\ g.tokens \in Seq(TokenType)
  BY <1>1, TableTypes
<1>4. TableOK(Table', n, e)
  <2> DEFINE tab == [roots |-> g.roots, free |-> g.free, tokens |-> <<>>]
  <2>1. Table' = tab
    BY <1>2 DEF Table
  <2>2. tab \in TableType /\ tab.roots = g.roots /\ tab.free = g.free
    BY <1>3 DEF TableType
  <2> HIDE DEF tab
  <2>3. TableOK(tab, n, e)
    BY <1>1, <2>2, Zenon DEF TableOK
  <2> QED
    BY <2>1, <2>3
<1>5. IssuedOK(issued', runtime_roots')
  BY <1>1, <1>2
<1>6. DOMAIN g.tokens = 1..m
  BY <1>1, <1>3
<1>7. ASSUME NEW token \in DOMAIN held'
      PROVE  /\ token \in issued' /\ Registered(runtime_roots', token)
             /\ slots'[runtime_roots'[token.slot].pointer.index].obj = held'[token]
  <2>1. token \in DOMAIN held \cup Range(g.tokens)
    BY <1>2
  <2>2. CASE token \in Range(g.tokens)
    <3>1. PICK i \in 1..m : g.tokens[i] = token
      BY <1>6, <2>2 DEF Range
    <3>2. (CHOOSE j \in 1..Len(g.tokens) : g.tokens[j] = token) = i
      BY <1>1, <3>1
    <3>3. held'[token] = objs[i]
      BY <1>2, <2>1, <2>2, <3>2
    <3>4. Registered(g.roots, token) /\ g.roots[token.slot].pointer = pointers[i]
      BY <1>1, <3>1
    <3> QED
      BY <1>2, <2>2, <3>3, <3>4
  <2>3. CASE token \notin Range(g.tokens)
    <3>1. token \in DOMAIN held /\ held'[token] = held[token]
      BY <1>2, <2>1, <2>3
    <3>2. /\ token \in issued /\ Registered(runtime_roots, token)
          /\ slots[runtime_roots[token.slot].pointer.index].obj = held[token]
      BY <3>1 DEF IInv, HeldOK, Pointer
    <3>3. Table.roots = runtime_roots
      BY DEF Table
    <3>4. Registered(g.roots, token) /\ g.roots[token.slot] = runtime_roots[token.slot]
      BY <1>1, <3>2, <3>3
    <3>5. runtime_roots[token.slot].pointer.index \in 1..Len(slots)
      BY <3>2, <3>3 DEF IInv, TableOK, Registered, Valid
    <3>6. slots'[runtime_roots[token.slot].pointer.index].obj = held[token]
      BY <3>2, <3>5 DEF Grown
    <3> QED
      BY <1>2, <3>1, <3>2, <3>4, <3>6
  <2> QED
    BY <2>1, <2>2, <2>3
<1>8. HeldOK'
  BY <1>7 DEF HeldOK, Pointer
<1> QED
  BY <1>4, <1>5, <1>8

LEMMA GraphTypes ==
  ASSUME NEW cells, NEW objs, NEW e, Graph(cells, objs, e)
  PROVE  /\ cells \in Seq(CellType) /\ Len(cells) \in Nat
         /\ objs \in Seq(Seq(Nat)) /\ Len(objs) \in Nat
         /\ \A i \in 1..Len(cells) :
                /\ cells[i] \in CellType /\ cells[i].generation \in Nat
                /\ cells[i].obj \in Nat /\ cells[i].kids \in Seq(PtrType)
         /\ \A o \in 1..Len(objs) : objs[o] \in Seq(Nat)
<1>1. cells \in Seq(CellType) /\ objs \in Seq(Seq(Nat))
  BY DEF Graph
<1>2. \A i \in 1..Len(cells) : cells[i] \in CellType
  BY <1>1
<1>3. \A i \in 1..Len(cells) :
          cells[i].generation \in Nat /\ cells[i].obj \in Nat /\ cells[i].kids \in Seq(PtrType)
  BY <1>2 DEF CellType
<1> QED
  BY <1>1, <1>2, <1>3

\* Alloc: a new cell for a new object.
LEMMA GraphPushed ==
  ASSUME NEW cells, NEW objs, NEW e \in Nat, Graph(cells, objs, e),
         NEW kids \in Seq(PtrType), NEW refs \in Seq(Nat), Len(kids) = Len(refs),
         \A k \in 1..Len(kids) : Valid(kids[k], Len(cells), e) /\ cells[kids[k].index].obj = refs[k]
  PROVE  LET more == Append(cells, [generation |-> e, obj |-> Len(objs) + 1, kids |-> kids])
         IN  /\ Graph(more, Append(objs, refs), e) /\ Grown(cells, more)
             /\ Len(more) = Len(cells) + 1 /\ more[Len(cells) + 1].obj = Len(objs) + 1
<1> DEFINE cell == [generation |-> e, obj |-> Len(objs) + 1, kids |-> kids]
           more == Append(cells, cell)
           refers == Append(objs, refs)
           n == Len(cells)
           m == Len(objs)
<1>1. /\ cells \in Seq(CellType) /\ n \in Nat /\ objs \in Seq(Seq(Nat)) /\ m \in Nat
  BY GraphTypes
<1>2. cell \in CellType /\ cell.generation = e /\ cell.obj = m + 1 /\ cell.kids = kids
  BY <1>1 DEF CellType
<1> HIDE DEF cell
<1>3. /\ more \in Seq(CellType) /\ Len(more) = n + 1 /\ more[n + 1] = cell
      /\ \A i \in 1..n : more[i] = cells[i]
  BY <1>1, <1>2
<1>4. /\ refers \in Seq(Seq(Nat)) /\ Len(refers) = m + 1 /\ refers[m + 1] = refs
      /\ \A o \in 1..m : refers[o] = objs[o]
  BY <1>1
<1> HIDE DEF more, refers
<1>5. \A i \in 1..Len(more) : i \in 1..n \/ i = n + 1
  BY <1>1, <1>3
<1>6. /\ \A i \in 1..n : i \in 1..Len(more)
      /\ \A o \in 1..m : o \in 1..Len(refers) /\ o # m + 1
      /\ m + 1 \in 1..Len(refers) /\ n + 1 \in 1..Len(more)
  BY <1>1, <1>3, <1>4
<1>7. \A p : Valid(p, n, e) => Valid(p, Len(more), e) /\ more[p.index] = cells[p.index]
  BY <1>3, <1>6 DEF Valid
<1>8. ASSUME NEW i \in 1..Len(more)
      PROVE  /\ more[i].generation = e /\ more[i].obj \in 1..Len(refers)
             /\ Len(more[i].kids) = Len(refers[more[i].obj])
             /\ \A k \in 1..Len(more[i].kids) :
                    /\ Valid(more[i].kids[k], Len(more), e)
                    /\ more[more[i].kids[k].index].obj = refers[more[i].obj][k]
  <2>1. CASE i \in 1..n
    <3>1. more[i] = cells[i] /\ cells[i].obj \in 1..m
      BY <1>3, <2>1 DEF Graph
    <3>2. refers[more[i].obj] = objs[cells[i].obj] /\ more[i].obj \in 1..Len(refers)
      BY <1>4, <1>6, <3>1
    <3>3. /\ cells[i].generation = e
          /\ Len(cells[i].kids) = Len(objs[cells[i].obj])
          /\ \A k \in 1..Len(cells[i].kids) :
                  /\ Valid(cells[i].kids[k], n, e)
                  /\ cells[cells[i].kids[k].index].obj = objs[cells[i].obj][k]
      BY <2>1 DEF Graph
    <3>4. ASSUME NEW k \in 1..Len(more[i].kids)
          PROVE  /\ Valid(more[i].kids[k], Len(more), e)
                 /\ more[more[i].kids[k].index].obj = refers[more[i].obj][k]
      <4> DEFINE p == cells[i].kids[k]
      <4>1. Valid(p, n, e) /\ cells[p.index].obj = objs[cells[i].obj][k] /\ more[i].kids[k] = p
        BY <3>1, <3>3
      <4> HIDE DEF p
      <4>2. Valid(p, Len(more), e) /\ more[p.index] = cells[p.index]
        BY <1>7, <4>1
      <4> QED
        BY <3>1, <3>2, <4>1, <4>2
    <3> QED
      BY <3>1, <3>2, <3>3, <3>4
  <2>2. CASE i = n + 1
    <3>1. more[i].generation = e /\ more[i].obj = m + 1 /\ more[i].kids = kids
      BY <1>2, <1>3, <2>2
    <3> QED
      BY <1>4, <1>6, <1>7, <3>1, ZenonT(60)
  <2> QED
    BY <1>5, <2>1, <2>2
<1>9. ASSUME NEW i \in 1..Len(more), NEW j \in 1..Len(more), more[i].obj = more[j].obj PROVE i = j
  <2>1. \A k \in 1..n : more[k].obj = cells[k].obj /\ cells[k].obj \in 1..m
    BY <1>3 DEF Graph
  <2>2. \A k \in 1..n : more[k].obj # more[n + 1].obj
    BY <1>2, <1>3, <1>6, <2>1
  <2> QED
    BY <1>5, <1>9, <2>1, <2>2 DEF Graph
<1>10. Graph(more, refers, e)
  BY <1>3, <1>4, <1>8, <1>9 DEF Graph
<1>11. Grown(cells, more)
  BY <1>1, <1>3 DEF Grown
<1> QED
  BY <1>1, <1>2, <1>3, <1>10, <1>11 DEF more, refers, cell

\* OverwriteRoot: the pointers of one cell are copied to another, and the
\* references of its object with them.
LEMMA GraphOverwritten ==
  ASSUME NEW cells, NEW objs, NEW e, Graph(cells, objs, e),
         NEW at \in 1..Len(cells), NEW from \in 1..Len(cells)
  PROVE  LET new == [cells EXCEPT ![at].kids = cells[from].kids]
         IN  /\ Graph(new, [objs EXCEPT ![cells[at].obj] = objs[cells[from].obj]], e)
             /\ Len(new) = Len(cells) /\ Grown(cells, new)
<1> DEFINE new == [cells EXCEPT ![at].kids = cells[from].kids]
           a == cells[at].obj
           b == cells[from].obj
           refers == [objs EXCEPT ![a] = objs[b]]
           n == Len(cells)
           m == Len(objs)
<1>1. /\ cells \in Seq(CellType) /\ n \in Nat /\ objs \in Seq(Seq(Nat)) /\ m \in Nat
      /\ \A i \in 1..n : /\ cells[i] \in CellType /\ cells[i].kids \in Seq(PtrType)
      /\ \A o \in 1..m : objs[o] \in Seq(Nat)
  BY GraphTypes
<1>2. a \in 1..m /\ b \in 1..m
  BY DEF Graph
<1>3. \A i \in 1..n : i # at => new[i] = cells[i]
  BY <1>1
<1>4. /\ new[at] \in CellType /\ new[at].generation = cells[at].generation
      /\ new[at].obj = a /\ new[at].kids = cells[from].kids
  <2> DEFINE q == cells[from].kids
  <2>1. new[at] = [cells[at] EXCEPT !.kids = q]
    BY <1>1, SMTT(40)
  <2>2. q \in Seq(PtrType) /\ cells[at] \in CellType
    BY <1>1
  <2> HIDE DEF q, new
  <2> QED
    BY <2>1, <2>2 DEF CellType, q
<1>5. new \in Seq(CellType) /\ Len(new) = n
  <2>1. DOMAIN new = 1..n
    BY <1>1
  <2>2. \A i \in 1..n : new[i] \in CellType
    BY <1>1, <1>3, <1>4
  <2>3. new = [i \in 1..n |-> new[i]]
    BY <2>1
  <2> HIDE DEF new
  <2> QED
    BY <1>1, <2>1, <2>2, <2>3
<1>6. \A i \in 1..n : new[i].obj = cells[i].obj /\ new[i].generation = e
  BY <1>3, <1>4 DEF Graph
<1>7. /\ refers \in Seq(Seq(Nat)) /\ Len(refers) = m /\ refers[a] = objs[b]
      /\ \A o \in 1..m : o # a => refers[o] = objs[o]
  BY <1>1, <1>2
<1>8. \A i \in 1..n : i # at => cells[i].obj # a
  BY DEF Graph
<1> HIDE DEF new, refers
<1>9. ASSUME NEW i \in 1..n
      PROVE  /\ Len(new[i].kids) = Len(refers[new[i].obj])
             /\ \A k \in 1..Len(new[i].kids) :
                    /\ Valid(new[i].kids[k], n, e)
                    /\ new[new[i].kids[k].index].obj = refers[new[i].obj][k]
  <2>1. PICK j \in 1..n : new[i].kids = cells[j].kids /\ refers[new[i].obj] = objs[cells[j].obj]
    <3>1. CASE i = at
      BY <1>4, <1>7, <3>1
    <3>2. CASE i # at
      <4>1. cells[i].obj \in 1..m
        BY DEF Graph
      <4> QED
        BY <1>3, <1>7, <1>8, <3>2, <4>1
    <3> QED
      BY <3>1, <3>2
  <2>2. /\ Len(cells[j].kids) = Len(objs[cells[j].obj])
        /\ \A k \in 1..Len(cells[j].kids) :
                  /\ Valid(cells[j].kids[k], n, e)
                  /\ cells[cells[j].kids[k].index].obj = objs[cells[j].obj][k]
    BY DEF Graph
  <2>3. \A p : Valid(p, n, e) => new[p.index].obj = cells[p.index].obj
    BY <1>6 DEF Valid
  <2> QED
    BY <2>1, <2>2, <2>3
<1>10. \A i, j \in 1..n : new[i].obj = new[j].obj => i = j
  BY <1>6 DEF Graph
<1>11. \A i \in 1..n : new[i].obj \in 1..m
  BY <1>6 DEF Graph
<1>12. Graph(new, refers, e)
  BY <1>5, <1>6, <1>7, <1>9, <1>10, <1>11 DEF Graph
<1>13. Grown(cells, new)
  BY <1>1, <1>5, <1>6 DEF Grown
<1> QED
  BY <1>5, <1>12, <1>13 DEF new, refers

-----------------------------------------------------------------------------
(* One lemma for each action.                                               *)

\* What a held token leads to.
LEMMA HeldCell ==
  ASSUME IInv, NEW token \in DOMAIN held
  PROVE  /\ Valid(Pointer(token), Len(slots), collection_epoch)
         /\ Pointer(token).index \in 1..Len(slots)
         /\ slots[Pointer(token).index].obj = held[token]
         /\ held[token] \in 1..Len(objects) /\ held[token] \in Nat
<1>1. Registered(runtime_roots, token) /\ slots[Pointer(token).index].obj = held[token]
  BY DEF IInv, HeldOK
<1>2. Table.roots = runtime_roots
  BY DEF Table
<1>3. Valid(Pointer(token), Len(slots), collection_epoch)
  BY <1>1, <1>2 DEF IInv, TableOK, Registered, Pointer
<1>4. Pointer(token).index \in 1..Len(slots)
  BY <1>3 DEF Valid
<1>5. held[token] \in 1..Len(objects)
  BY <1>1, <1>4 DEF IInv, Graph
<1>6. held[token] \in Nat
  BY <1>1, <1>4, GraphTypes DEF IInv
<1> QED
  BY <1>1, <1>3, <1>4, <1>5, <1>6

LEMMA TableGrows ==
  ASSUME NEW t, NEW n \in Nat, NEW e, TableOK(t, n, e)
  PROVE  TableOK(t, n + 1, e)
<1>1. \A p : Valid(p, n, e) => Valid(p, n + 1, e)
  BY DEF Valid
<1> QED
  BY <1>1, Zenon DEF TableOK

LEMMA AllocKeeps ==
  ASSUME IInv, NEW tokens \in Arguments, Alloc(tokens)
  PROVE  /\ IInv'
         /\ Registers(Table, Register(Table, Ptr(Len(slots) + 1, collection_epoch)), 1,
                      <<Ptr(Len(slots) + 1, collection_epoch)>>, issued, Len(slots'), collection_epoch)
<1> DEFINE e == collection_epoch
           n == Len(slots)
           kids == [i \in 1..Len(tokens) |-> Pointer(tokens[i])]
           refs == [i \in 1..Len(tokens) |-> held[tokens[i]]]
           p == Ptr(n + 1, e)
           g == Register(Table, p)
<1>1. PICK c \in 0..MaxKids : tokens \in [1..c -> DOMAIN held]
  BY DEF Arguments
<1>2. c \in Nat
  BY HeapAssumption
<1>3. Len(tokens) = c /\ \A i \in 1..c : tokens[i] \in DOMAIN held
  BY <1>1, <1>2
<1>4. e \in Nat /\ Graph(slots, objects, e) /\ n \in Nat /\ Len(objects) \in Nat
  BY GraphTypes DEF IInv
<1>5. ASSUME NEW i \in 1..c
      PROVE  /\ Valid(Pointer(tokens[i]), n, e) /\ Pointer(tokens[i]) \in PtrType
             /\ slots[Pointer(tokens[i]).index].obj = held[tokens[i]] /\ held[tokens[i]] \in Nat
  <2>1. tokens[i] \in DOMAIN held
    BY <1>3
  <2> QED
    BY <2>1, HeldCell, NoPtrInvalid
<1>6. /\ kids \in Seq(PtrType) /\ Len(kids) = c /\ \A i \in 1..c : kids[i] = Pointer(tokens[i])
  BY <1>2, <1>3, <1>5
<1>7. /\ refs \in Seq(Nat) /\ Len(refs) = c /\ \A i \in 1..c : refs[i] = held[tokens[i]]
  BY <1>2, <1>3, <1>5
<1>8. /\ slots' = Append(slots, [generation |-> e, obj |-> Len(objects) + 1, kids |-> kids])
      /\ objects' = Append(objects, refs)
      /\ Hold(g, <<Len(objects) + 1>>)
      /\ UNCHANGED <<next_gc_slot_count, extreme_stress, collection_epoch>>
  BY DEF Alloc, Pushed, NewObject
<1> HIDE DEF kids, refs
<1>9. /\ Graph(slots', objects', e) /\ Grown(slots, slots')
      /\ Len(slots') = n + 1 /\ slots'[n + 1].obj = Len(objects) + 1
  <2>1. /\ kids \in Seq(PtrType) /\ refs \in Seq(Nat) /\ Len(kids) = Len(refs)
        /\ \A k \in 1..Len(kids) : Valid(kids[k], n, e) /\ slots[kids[k].index].obj = refs[k]
    BY <1>5, <1>6, <1>7
  <2> DEFINE more == Append(slots, [generation |-> e, obj |-> Len(objects) + 1, kids |-> kids])
  <2>2. /\ Graph(more, Append(objects, refs), e) /\ Grown(slots, more)
        /\ Len(more) = n + 1 /\ more[n + 1].obj = Len(objects) + 1
    BY <1>4, <2>1, GraphPushed, ZenonT(60)
  <2> QED
    BY <1>8, <2>2
<1>10. p \in PtrType /\ p.index = n + 1 /\ p.generation = e /\ Valid(p, n + 1, e)
  BY <1>4 DEF Ptr, PtrType, Valid
<1> HIDE DEF p
<1>11. TableOK(Table, n + 1, e) /\ Table.tokens = <<>> /\ IssuedOK(issued, Table.roots)
  <2>1. Table.tokens = <<>> /\ Table.roots = runtime_roots
    BY DEF Table
  <2>2. TableOK(Table, n, e) /\ IssuedOK(issued, runtime_roots)
    BY DEF IInv
  <2> QED
    BY <1>4, <2>1, <2>2, TableGrows
<1> DEFINE pointers == <<p>>
<1>12. pointers[0 + 1] = p
  OBVIOUS
<1> HIDE DEF pointers
<1>13. Registers(Table, Table, 0, pointers, issued, n + 1, e)
  BY <1>11, RegistersNone
<1>14. Registers(Table, Register(Table, pointers[0 + 1]), 0 + 1, pointers, issued, n + 1, e)
  <2>1. Valid(pointers[0 + 1], n + 1, e) /\ 0 \in Nat
    BY <1>10, <1>12
  <2> QED
    BY <1>13, <2>1, RegistersNext
<1>15. Registers(Table, g, 1, pointers, issued, Len(slots'), e)
  <2>1. 0 + 1 = 1
    OBVIOUS
  <2> QED
    BY <1>9, <1>12, <1>14, <2>1
<1>16. \A i \in 1..1 : slots'[pointers[i].index].obj = <<Len(objects) + 1>>[i]
  BY <1>9, <1>10 DEF pointers
<1>17. TableOK(Table', Len(slots'), e) /\ IssuedOK(issued', runtime_roots') /\ HeldOK'
  <2> DEFINE objs == <<Len(objects) + 1>>
             m == 1
  <2>1. /\ m \in Nat /\ Registers(Table, g, m, pointers, issued, Len(slots'), collection_epoch)
        /\ Hold(g, objs) /\ \A i \in 1..m : slots'[pointers[i].index].obj = objs[i]
    BY <1>8, <1>15, <1>16
  <2> HIDE DEF objs, m, g
  <2> QED
    BY <1>9, <2>1, HoldKeeps
<1>18. IInv'
  BY <1>8, <1>9, <1>17, Zenon DEF IInv
<1> QED
  BY <1>15, <1>18 DEF pointers, p

LEMMA OpenKeeps ==
  ASSUME IInv, NEW token \in DOMAIN held, Open(token)
  PROVE  /\ IInv'
         /\ LET kids == slots[Pointer(token).index].kids
            IN  Registers(Table, RegisterAll(Table, kids), Len(kids), kids, issued, Len(slots), collection_epoch)
<1> DEFINE e == collection_epoch
           n == Len(slots)
           at == Pointer(token).index
           kids == slots[at].kids
           g == RegisterAll(Table, kids)
<1>1. at \in 1..n
  BY HeldCell
<1>2. /\ Hold(g, objects[slots[at].obj])
      /\ UNCHANGED <<slots, next_gc_slot_count, extreme_stress, collection_epoch, objects>>
  BY Zenon DEF Open
<1> HIDE DEF at
<1>3. Graph(slots, objects, e) /\ n \in Nat /\ kids \in Seq(PtrType) /\ Len(kids) \in Nat
  BY <1>1, GraphTypes DEF IInv
<1>4. \A i \in 1..Len(kids) :
          Valid(kids[i], n, e) /\ slots[kids[i].index].obj = objects[slots[at].obj][i]
  BY <1>1, <1>3 DEF Graph
<1> HIDE DEF kids
<1>5. TableOK(Table, n, e) /\ Table.tokens = <<>> /\ IssuedOK(issued, Table.roots)
  BY DEF IInv, Table
<1>6. Registers(Table, g, Len(kids), kids, issued, n, e)
  BY <1>3, <1>4, <1>5, RegisterAllOK
<1>7. Grown(slots, slots') /\ Len(slots') = n
  BY <1>2, <1>3 DEF Grown
<1>8. \A i \in 1..Len(kids) : slots'[kids[i].index].obj = objects[slots[at].obj][i]
  BY <1>2, <1>4
<1>9. TableOK(Table', Len(slots'), e) /\ IssuedOK(issued', runtime_roots') /\ HeldOK'
  <2> DEFINE objs == objects[slots[at].obj]
             m == Len(kids)
  <2>1. /\ m \in Nat /\ Registers(Table, g, m, kids, issued, Len(slots'), collection_epoch)
        /\ Hold(g, objs) /\ \A i \in 1..m : slots'[kids[i].index].obj = objs[i]
    BY <1>2, <1>3, <1>6, <1>7, <1>8
  <2> HIDE DEF objs, m, g
  <2> QED
    BY <1>7, <2>1, HoldKeeps
<1>10. IInv'
  BY <1>2, <1>3, <1>7, <1>9, Zenon DEF IInv
<1> QED
  BY <1>6, <1>10 DEF kids, at

LEMMA OverwriteRootKeeps ==
  ASSUME IInv, NEW target \in DOMAIN held, NEW value \in DOMAIN held, OverwriteRoot(target, value)
  PROVE  IInv'
<1> DEFINE e == collection_epoch
           n == Len(slots)
           at == Pointer(target).index
           from == Pointer(value).index
<1>1. /\ at \in 1..n /\ slots[at].obj = held[target]
      /\ from \in 1..n /\ slots[from].obj = held[value]
  BY HeldCell
<1>2. /\ slots' = [slots EXCEPT ![at].kids = slots[from].kids]
      /\ objects' = [objects EXCEPT ![slots[at].obj] = objects[slots[from].obj]]
      /\ UNCHANGED <<runtime_roots, free_roots, next_gc_slot_count, extreme_stress,
                     collection_epoch, held, issued>>
  BY <1>1 DEF OverwriteRoot
<1> HIDE DEF at, from
<1>3. Graph(slots, objects, e)
  BY DEF IInv
<1>4. Graph(slots', objects', e) /\ Len(slots') = n /\ Grown(slots, slots')
  BY <1>1, <1>2, <1>3, GraphOverwritten, ZenonT(60)
<1>5. TableOK(Table', Len(slots'), e) /\ IssuedOK(issued', runtime_roots')
  BY <1>2, <1>4 DEF IInv, Table
<1>6. HeldOK'
  <2>1. ASSUME NEW token \in DOMAIN held
        PROVE  /\ token \in issued /\ Registered(runtime_roots, token)
               /\ slots'[runtime_roots[token.slot].pointer.index].obj = held[token]
    <3>1. runtime_roots[token.slot].pointer.index \in 1..n
      BY HeldCell DEF Pointer
    <3> QED
      BY <1>4, <3>1 DEF IInv, HeldOK, Pointer, Grown
  <2> QED
    BY <1>2, <2>1 DEF HeldOK, Pointer
<1> QED
  BY <1>2, <1>4, <1>5, <1>6, Zenon DEF IInv

LEMMA ForgetKeeps ==
  ASSUME IInv, NEW token \in DOMAIN held, Forget(token)
  PROVE  IInv'
<1>1. HeldOK'
  <2>1. ASSUME NEW other \in DOMAIN held'
        PROVE  other \in DOMAIN held /\ held'[other] = held[other]
    BY DEF Forget
  <2>2. UNCHANGED <<slots, runtime_roots, issued>>
    BY DEF Forget
  <2> QED
    BY <2>1, <2>2 DEF IInv, HeldOK, Pointer
<1>2. UNCHANGED <<slots, runtime_roots, free_roots, next_gc_slot_count, extreme_stress,
                  collection_epoch, issued, objects>>
  BY DEF Forget
<1> QED
  BY <1>1, <1>2 DEF IInv, Table

-----------------------------------------------------------------------------
(* The sweep of the root table.                                             *)

LEMMA UnregisterOne ==
  ASSUME NEW t, NEW n, NEW e, TableOK(t, n, e),
         NEW slot \in 1..Len(t.roots), t.roots[slot].pointer # NoPtr
  PROVE  LET g == Unregister(t, Token(slot, t.roots[slot].generation))
         IN  /\ TableOK(g, n, e) /\ Len(g.roots) = Len(t.roots) /\ g.tokens = t.tokens
             /\ g.roots[slot] = Entry(t.roots[slot].generation + 1, NoPtr)
             /\ \A s \in 1..Len(t.roots) : s # slot => g.roots[s] = t.roots[s]
<1> DEFINE gen == t.roots[slot].generation
           tok == Token(slot, gen)
           entry == Entry(gen + 1, NoPtr)
           r == Put(t.roots, slot, entry)
           f == Append(t.free, slot)
           g == [t EXCEPT !.roots = r, !.free = f]
<1>1. /\ t \in TableType /\ t.roots \in Seq(RootType) /\ t.free \in Seq(Nat)
      /\ Len(t.roots) \in Nat /\ Len(t.free) \in Nat /\ t.roots[slot] \in RootType
  BY TableTypes
<1>2. gen \in Nat /\ slot \in Nat
  BY <1>1 DEF RootType
<1>3. tok.slot = slot /\ tok.generation = gen
  BY DEF Token
<1> HIDE DEF tok
<1>4. Unregister(t, tok) = g
  BY <1>3, Zenon DEF Unregister
<1> HIDE DEF gen
<1>5. entry \in RootType /\ entry.pointer = NoPtr
  <2>1. NoPtr \in PtrType /\ gen + 1 \in Nat
    BY <1>2 DEF NoPtr, PtrType
  <2> QED
    BY <2>1, EntryIs
<1> HIDE DEF entry
<1>6. /\ r \in Seq(RootType) /\ Len(r) = Len(t.roots)
      /\ \A s \in 1..Len(t.roots) : r[s] = IF s = slot THEN entry ELSE t.roots[s]
  BY <1>1, <1>5, PutIs
<1>7. /\ f \in Seq(Nat) /\ Len(f) = Len(t.free) + 1 /\ f[Len(t.free) + 1] = slot
      /\ \A k \in 1..Len(t.free) : f[k] = t.free[k]
  BY <1>1, <1>2
<1> HIDE DEF r, f
<1>8. g \in TableType /\ g.roots = r /\ g.free = f /\ g.tokens = t.tokens
  BY <1>1, <1>6, <1>7 DEF TableType
<1> HIDE DEF g
<1>9. \A k \in 1..Len(f) : k \in 1..Len(t.free) \/ k = Len(t.free) + 1
  BY <1>1, <1>7
<1>10. \A k \in 1..Len(t.free) :
           f[k] = t.free[k] /\ t.free[k] \in 1..Len(t.roots) /\ t.roots[t.free[k]].pointer = NoPtr /\ f[k] # slot
  BY <1>7 DEF TableOK
<1>11. \A s \in 1..Len(r) : r[s].pointer # NoPtr => Valid(r[s].pointer, n, e)
  BY <1>5, <1>6 DEF TableOK
<1>12. \A k \in 1..Len(f) : f[k] \in 1..Len(r) /\ r[f[k]].pointer = NoPtr
  BY <1>5, <1>6, <1>7, <1>9, <1>10, ZenonT(60)
<1>13. \A k, m \in 1..Len(f) : f[k] = f[m] => k = m
  BY <1>7, <1>9, <1>10 DEF TableOK
<1>14. TableOK(g, n, e)
  BY <1>8, <1>11, <1>12, <1>13, Zenon DEF TableOK
<1> QED
  BY <1>4, <1>6, <1>8, <1>14 DEF entry, gen, tok

\* The sweep after m slots: the stale ones among them are released, the rest
\* of the table is as it was.
Sweeps(t, g, m, live, n, e) ==
    /\ TableOK(g, n, e) /\ Len(g.roots) = Len(t.roots)
    /\ \A s \in 1..Len(t.roots) :
           g.roots[s] = IF s <= m /\ Stale(t.roots, s, live)
                        THEN Entry(t.roots[s].generation + 1, NoPtr) ELSE t.roots[s]

LEMMA SweepsNext ==
  ASSUME NEW t, NEW g, NEW m \in Nat, NEW live, NEW n, NEW e, Len(t.roots) \in Nat,
         Sweeps(t, g, m, live, n, e), m + 1 \in 1..Len(t.roots)
  PROVE  Sweeps(t, SweepSlot(t, live, g, m + 1), m + 1, live, n, e)
<1> DEFINE slot == m + 1
           k == SweepSlot(t, live, g, slot)
<1>1. TableOK(g, n, e) /\ Len(g.roots) = Len(t.roots)
  BY DEF Sweeps
<1>2. /\ \A s \in 1..Len(t.roots) : s # slot => (s <= slot <=> s <= m)
      /\ slot <= slot /\ ~(slot <= m)
  OBVIOUS
<1>3. \A s \in 1..Len(t.roots) :
           g.roots[s] = IF s <= m /\ Stale(t.roots, s, live)
                        THEN Entry(t.roots[s].generation + 1, NoPtr) ELSE t.roots[s]
  BY DEF Sweeps
<1>4. slot \in 1..Len(t.roots)
  OBVIOUS
<1> HIDE DEF slot
<1>5. g.roots[slot] = t.roots[slot]
  BY <1>2, <1>3, <1>4
<1>6. CASE ~Stale(t.roots, slot, live)
  <2>1. k = g
    BY <1>6 DEF SweepSlot
  <2>2. ASSUME NEW s \in 1..Len(t.roots)
        PROVE  g.roots[s] = IF s <= slot /\ Stale(t.roots, s, live)
                            THEN Entry(t.roots[s].generation + 1, NoPtr) ELSE t.roots[s]
    BY <1>2, <1>3, <1>5, <1>6, Zenon
  <2>3. Sweeps(t, g, slot, live, n, e)
    BY <1>1, <2>2, Zenon DEF Sweeps
  <2> QED
    BY <2>1, <2>3 DEF slot
<1>7. CASE Stale(t.roots, slot, live)
  <2>1. g.roots[slot].pointer # NoPtr /\ slot \in 1..Len(g.roots)
    BY <1>1, <1>4, <1>5, <1>7 DEF Stale
  <2>2. k = Unregister(g, Token(slot, g.roots[slot].generation))
    BY <1>5, <1>7 DEF SweepSlot
  <2> HIDE DEF k
  <2>3. /\ TableOK(k, n, e) /\ Len(k.roots) = Len(g.roots)
        /\ k.roots[slot] = Entry(g.roots[slot].generation + 1, NoPtr)
        /\ \A s \in 1..Len(g.roots) : s # slot => k.roots[s] = g.roots[s]
    BY <1>1, <2>1, <2>2, UnregisterOne
  <2>4. ASSUME NEW s \in 1..Len(t.roots)
        PROVE  k.roots[s] = IF s <= slot /\ Stale(t.roots, s, live)
                            THEN Entry(t.roots[s].generation + 1, NoPtr) ELSE t.roots[s]
    <3>1. CASE s = slot
      BY <1>2, <1>5, <1>7, <2>3, <3>1
    <3>2. CASE s # slot
      <4>1. k.roots[s] = g.roots[s]
        BY <1>1, <2>3, <3>2
      <4> QED
        BY <1>2, <1>3, <3>2, <4>1, Zenon
    <3> QED
      BY <3>1, <3>2
  <2>5. Sweeps(t, k, slot, live, n, e)
    BY <1>1, <2>3, <2>4, Zenon DEF Sweeps
  <2> QED
    BY <2>5 DEF k, slot
<1> QED
  BY <1>6, <1>7

LEMMA SweptIs ==
  ASSUME NEW t, NEW live, NEW n, NEW e, TableOK(t, n, e)
  PROVE  Sweeps(t, Swept(t, live), Len(t.roots), live, n, e)
<1> DEFINE N == Len(t.roots)
<1>1. t.roots \in Seq(RootType) /\ N \in Nat
  BY TableTypes
<1>2. PICK sweep : /\ sweep = [m \in 0..Len(t.roots) |->
                                   IF m = 0 THEN t ELSE SweepSlot(t, live, sweep[m - 1], m)]
                   /\ Swept(t, live) = sweep[Len(t.roots)]
  BY <1>1, SweepLoop, Zenon
<1> DEFINE B == {m \in 0..N : ~Sweeps(t, sweep[m], m, live, n, e)}
<1>3. B \in SUBSET Nat
  BY <1>1
<1>4. \A m \in 0..N : sweep[m] = IF m = 0 THEN t ELSE SweepSlot(t, live, sweep[m - 1], m)
  BY <1>2
<1>5. B = {}
  <2> SUFFICES ASSUME B # {} PROVE FALSE
    OBVIOUS
  <2>1. PICK m \in B : \A k \in B : m <= k
    <3> HIDE DEF B
    <3> QED
      BY <1>3, LeastNat
  <2>2. m \in 0..N /\ ~Sweeps(t, sweep[m], m, live, n, e)
    BY <2>1
  <2>3. CASE m = 0
    <3>1. sweep[0] = t
      BY <1>1, <1>4
    <3>2. \A s \in 1..Len(t.roots) : ~(s <= 0)
      BY <1>1
    <3>3. Sweeps(t, t, 0, live, n, e)
      BY <3>2, Zenon DEF Sweeps
    <3> QED
      BY <2>2, <2>3, <3>1, <3>3
  <2>4. CASE m # 0
    <3>1. m - 1 \in 0..N /\ m - 1 \in Nat /\ ~(m <= m - 1) /\ m \in 1..N /\ (m - 1) + 1 = m
      BY <1>1, <2>2, <2>4
    <3>2. m - 1 \notin B
      <4> HIDE DEF B
      <4> QED
        BY <2>1, <3>1
    <3>3. Sweeps(t, sweep[m - 1], m - 1, live, n, e)
      BY <3>1, <3>2
    <3>4. sweep[m] = SweepSlot(t, live, sweep[m - 1], m)
      BY <1>4, <2>2, <2>4
    <3> DEFINE j == m - 1
               prev == sweep[m - 1]
    <3>5. /\ j \in Nat /\ Sweeps(t, prev, j, live, n, e) /\ j + 1 \in 1..Len(t.roots)
          /\ j + 1 = m /\ sweep[m] = SweepSlot(t, live, prev, j + 1)
      BY <3>1, <3>3, <3>4
    <3> HIDE DEF j, prev
    <3>6. Sweeps(t, SweepSlot(t, live, prev, j + 1), j + 1, live, n, e)
      BY <1>1, <3>5, SweepsNext
    <3> QED
      BY <2>2, <3>5, <3>6
  <2> QED
    BY <2>3, <2>4
<1>6. N \in 0..N
  BY <1>1
<1> QED
  BY <1>2, <1>5, <1>6

\* After the sweep what is registered is live, what is live is as it was, and
\* no token that was handed out comes back.
LEMMA SweptKeeps ==
  ASSUME NEW t, NEW live, NEW n, NEW e, TableOK(t, n, e), NEW I, IssuedOK(I, t.roots)
  PROVE  LET r == Swept(t, live).roots
         IN  /\ TableOK(Swept(t, live), n, e) /\ Len(r) = Len(t.roots) /\ IssuedOK(I, r)
             /\ \A s \in 1..Len(r) :
                    r[s].pointer # NoPtr =>
                        r[s] = t.roots[s] /\ Token(s, t.roots[s].generation) \in live
             /\ \A h \in live : Registered(t.roots, h) => Registered(r, h) /\ r[h.slot] = t.roots[h.slot]
<1> DEFINE g == Swept(t, live)
           r == g.roots
           N == Len(t.roots)
<1>1. t.roots \in Seq(RootType) /\ N \in Nat /\ \A s \in 1..N : t.roots[s] \in RootType
  BY TableTypes
<1>2. /\ TableOK(g, n, e) /\ Len(r) = N
      /\ \A s \in 1..N : r[s] = IF s <= N /\ Stale(t.roots, s, live)
                                THEN Entry(t.roots[s].generation + 1, NoPtr) ELSE t.roots[s]
  BY SweptIs DEF Sweeps
<1> HIDE DEF g
<1>3. \A s \in 1..N : s <= N
  BY <1>1
<1>4. \A s \in 1..N : r[s] = IF Stale(t.roots, s, live)
                             THEN Entry(t.roots[s].generation + 1, NoPtr) ELSE t.roots[s]
  BY <1>2, <1>3
<1>5. \A s \in 1..N : t.roots[s].generation \in Nat
  BY <1>1 DEF RootType
<1>6. \A s \in 1..N : Stale(t.roots, s, live) =>
          r[s].pointer = NoPtr /\ r[s].generation = t.roots[s].generation + 1
  <2>1. \A gen : Entry(gen, NoPtr).pointer = NoPtr /\ Entry(gen, NoPtr).generation = gen
    BY DEF Entry
  <2> QED
    BY <1>4, <2>1
<1>7. \A s \in 1..N : ~Stale(t.roots, s, live) => r[s] = t.roots[s]
  BY <1>4
<1>8. \A s \in 1..N : r[s].pointer # NoPtr =>
                        r[s] = t.roots[s] /\ Token(s, t.roots[s].generation) \in live
  BY <1>6, <1>7 DEF Stale
<1>9. ASSUME NEW h \in live, Registered(t.roots, h)
      PROVE  Registered(r, h) /\ r[h.slot] = t.roots[h.slot]
  <2>1. h.slot \in 1..N /\ h \in TokenType /\ t.roots[h.slot].generation = h.generation
    BY <1>9 DEF Registered
  <2>2. h = Token(h.slot, t.roots[h.slot].generation)
    BY <2>1 DEF TokenType, Token
  <2>3. ~Stale(t.roots, h.slot, live)
    BY <2>2 DEF Stale
  <2> QED
    BY <1>2, <1>7, <1>9, <2>1, <2>3 DEF Registered
<1>10. ASSUME NEW h \in I
       PROVE  /\ h \in TokenType /\ h.slot \in 1..Len(r)
              /\ \/ h.generation < r[h.slot].generation
                 \/ h.generation = r[h.slot].generation /\ r[h.slot].pointer # NoPtr
  <2>1. /\ h \in TokenType /\ h.slot \in 1..N
        /\ \/ h.generation < t.roots[h.slot].generation
           \/ /\ h.generation = t.roots[h.slot].generation
              /\ t.roots[h.slot].pointer # NoPtr
    BY DEF IssuedOK
  <2>2. h.generation \in Nat
    BY <2>1 DEF TokenType
  <2>3. CASE Stale(t.roots, h.slot, live)
    <3>1. r[h.slot].generation = t.roots[h.slot].generation + 1
      BY <1>6, <2>1, <2>3
    <3>2. h.generation < r[h.slot].generation
      BY <1>5, <2>1, <2>2, <3>1
    <3> QED
      BY <1>2, <2>1, <3>2
  <2>4. CASE ~Stale(t.roots, h.slot, live)
    BY <1>2, <1>7, <2>1, <2>4, Zenon
  <2> QED
    BY <2>3, <2>4
<1>11. IssuedOK(I, r)
  BY <1>10 DEF IssuedOK
<1> QED
  BY <1>2, <1>8, <1>9, <1>11 DEF g

-----------------------------------------------------------------------------
(* The collection.                                                          *)

\* What the trace finds has the roots and is closed.
LEMMA LiveReaches ==
  ASSUME IInv, NEW t, TableOK(t, Len(slots), collection_epoch)
  PROVE  /\ Live(t.roots) \subseteq 1..Len(slots) /\ IsFiniteSet(Live(t.roots))
         /\ Cardinality(Live(t.roots)) \in Nat /\ Reaches(Live(t.roots), t.roots)
<1> DEFINE roots == t.roots
           L == Live(roots)
<1>1. L \subseteq 1..Len(slots)
  BY DEF Live
<1>2. Len(slots) \in Nat
  BY GraphTypes DEF IInv
<1>3. IsFiniteSet(L) /\ Cardinality(L) \in Nat
  <2>1. IsFiniteSet(1..Len(slots))
    BY <1>2, FS_Interval
  <2>2. IsFiniteSet(L)
    BY <1>1, <2>1, FS_Subset
  <2> QED
    BY <2>2, FS_CardinalityType
<1>4. ASSUME NEW r \in 1..Len(roots), roots[r].pointer # NoPtr PROVE roots[r].pointer.index \in L
  <2>1. roots[r].pointer.index \in 1..Len(slots)
    BY <1>4 DEF TableOK, Valid
  <2>2. \A S \in SUBSET (1..Len(slots)) : Reaches(S, roots) => roots[r].pointer.index \in S
    BY <1>4 DEF Reaches
  <2> QED
    BY <2>1, <2>2 DEF Live
<1>5. ASSUME NEW i \in L, NEW k \in 1..Len(slots[i].kids) PROVE slots[i].kids[k].index \in L
  <2>1. slots[i].kids[k].index \in 1..Len(slots)
    BY <1>1 DEF IInv, Graph, Valid
  <2>2. ASSUME NEW S \in SUBSET (1..Len(slots)), Reaches(S, roots) PROVE slots[i].kids[k].index \in S
    <3>1. i \in S
      BY <2>2 DEF Live
    <3> QED
      BY <2>2, <3>1 DEF Reaches
  <2> QED
    BY <2>1, <2>2 DEF Live
<1>6. Reaches(L, roots)
  BY <1>4, <1>5 DEF Reaches
<1> QED
  BY <1>1, <1>3, <1>6

\* Every place of the new heap is taken, by one cell.
LEMMA DestinationsOnto ==
  ASSUME NEW L, IsFiniteSet(L), NEW to \in Destinations(L)
  PROVE  /\ DOMAIN to = L /\ \A i \in L : to[i] \in 1..Cardinality(L)
         /\ \A i, j \in L : to[i] = to[j] => i = j
         /\ \A place \in 1..Cardinality(L) : \E i \in L : to[i] = place
<1> DEFINE c == Cardinality(L)
<1>1. c \in Nat
  BY FS_CardinalityType
<1>2. to \in [L -> 1..c] /\ \A i, j \in L : to[i] = to[j] => i = j
  BY DEF Destinations
<1>3. IsFiniteSet(1..c) /\ Cardinality(1..c) = c
  <2>1. IsFiniteSet(1..c) /\ Cardinality(1..c) = IF 1 > c THEN 0 ELSE c - 1 + 1
    BY <1>1, FS_Interval
  <2> HIDE DEF c
  <2>2. (IF 1 > c THEN 0 ELSE c - 1 + 1) = c
    BY <1>1
  <2> QED
    BY <2>1, <2>2
<1>4. to \in Injection(L, 1..c)
  BY <1>2 DEF Injection, IsInjective
<1>5. to \in Surjection(L, 1..c)
  BY <1>3, <1>4, FS_Injection
<1> QED
  BY <1>2, <1>5 DEF Surjection

\* The cells of L moved to their places.
Moves(cells, L, to, c, e, new) ==
    /\ c \in Nat /\ L \subseteq 1..Len(cells)
    /\ DOMAIN to = L /\ \A i \in L : to[i] \in 1..c
    /\ \A i, j \in L : to[i] = to[j] => i = j
    /\ \A place \in 1..c : \E i \in L : to[i] = place
    /\ \A i \in L : \A k \in 1..Len(cells[i].kids) : cells[i].kids[k].index \in L
    /\ Len(new) = c /\ new \in Seq(CellType)
    /\ \A i \in L :
           /\ new[to[i]].generation = e + 1 /\ new[to[i]].obj = cells[i].obj
           /\ Len(new[to[i]].kids) = Len(cells[i].kids)
           /\ \A k \in 1..Len(cells[i].kids) :
                  new[to[i]].kids[k] = Ptr(to[cells[i].kids[k].index], e + 1)

LEMMA MovedSlotsIs ==
  ASSUME IInv, NEW t, TableOK(t, Len(slots), collection_epoch), NEW to \in Destinations(Live(t.roots))
  PROVE  Moves(slots, Live(t.roots), to, Cardinality(Live(t.roots)), collection_epoch, MovedSlots(to))
<1> DEFINE L == Live(t.roots)
           c == Cardinality(L)
           e == collection_epoch
           new == MovedSlots(to)
           moved(i) == [generation |-> e + 1, obj |-> slots[i].obj,
                        kids |-> [k \in 1..Len(slots[i].kids) |-> Forward(to, slots[i].kids[k])]]
           inv(place) == CHOOSE i \in DOMAIN to : to[i] = place
<1>1. L \subseteq 1..Len(slots) /\ IsFiniteSet(L) /\ c \in Nat /\ Reaches(L, t.roots)
  BY LiveReaches
<1>2. /\ DOMAIN to = L /\ \A i \in L : to[i] \in 1..c
      /\ \A i, j \in L : to[i] = to[j] => i = j
      /\ \A place \in 1..c : \E i \in L : to[i] = place
  BY <1>1, DestinationsOnto
<1>3. e \in Nat /\ Len(slots) \in Nat /\ \A i \in 1..Len(slots) :
          slots[i] \in CellType /\ slots[i].obj \in Nat /\ slots[i].kids \in Seq(PtrType)
  BY GraphTypes DEF IInv
<1>4. \A i \in L : \A k \in 1..Len(slots[i].kids) : slots[i].kids[k].index \in L
  BY <1>1 DEF Reaches
<1>5. new = [place \in 1..c |-> moved(inv(place))]
  BY <1>2 DEF MovedSlots
<1> HIDE DEF L, c, new
<1>6. \A i \in L : inv(to[i]) = i
  BY <1>2
<1>7. \A i \in L : new[to[i]] = moved(i)
  BY <1>2, <1>5, <1>6
<1>8. ASSUME NEW i \in L
      PROVE  /\ moved(i) \in CellType /\ moved(i).generation = e + 1 /\ moved(i).obj = slots[i].obj
             /\ Len(moved(i).kids) = Len(slots[i].kids)
             /\ \A k \in 1..Len(slots[i].kids) : moved(i).kids[k] = Ptr(to[slots[i].kids[k].index], e + 1)
  <2> DEFINE q == [k \in 1..Len(slots[i].kids) |-> Forward(to, slots[i].kids[k])]
             o == slots[i].obj
  <2>1. o \in Nat /\ slots[i].kids \in Seq(PtrType) /\ Len(slots[i].kids) \in Nat
    BY <1>1, <1>3
  <2>2. ASSUME NEW k \in 1..Len(slots[i].kids)
        PROVE  Forward(to, slots[i].kids[k]) = Ptr(to[slots[i].kids[k].index], e + 1) /\
               Forward(to, slots[i].kids[k]) \in PtrType
    <3> DEFINE d == to[slots[i].kids[k].index]
    <3>1. d \in 1..c
      BY <1>2, <1>4
    <3>2. d \in Nat
      BY <1>1, <3>1 DEF c
    <3>3. Forward(to, slots[i].kids[k]) = Ptr(d, e + 1)
      BY DEF Forward
    <3> HIDE DEF d
    <3>4. Ptr(d, e + 1) \in PtrType
      BY <1>3, <3>2 DEF Ptr, PtrType
    <3> QED
      BY <3>3, <3>4 DEF d
  <2>3. /\ q \in Seq(PtrType) /\ Len(q) = Len(slots[i].kids)
        /\ \A k \in 1..Len(slots[i].kids) : q[k] = Ptr(to[slots[i].kids[k].index], e + 1)
    BY <2>1, <2>2
  <2> HIDE DEF q, o
  <2>4. [generation |-> e + 1, obj |-> o, kids |-> q] \in CellType
    BY <1>3, <2>1, <2>3 DEF CellType
  <2>5. moved(i) = [generation |-> e + 1, obj |-> o, kids |-> q]
    BY Zenon DEF q, o
  <2> HIDE DEF moved
  <2> QED
    BY <2>3, <2>4, <2>5 DEF o
<1> HIDE DEF moved
<1>9. new \in Seq(CellType) /\ Len(new) = c
  <2>1. \A place \in 1..c : inv(place) \in L
    BY <1>2
  <2>2. \A place \in 1..c : moved(inv(place)) \in CellType
    BY <1>8, <2>1
  <2> HIDE DEF inv
  <2> QED
    BY <1>1, <1>5, <2>2 DEF c
<1>10. c \in Nat
  BY <1>1 DEF c
<1>11. L \subseteq 1..Len(slots)
  BY <1>1
<1>12. ASSUME NEW i \in L
       PROVE  /\ new[to[i]].generation = e + 1 /\ new[to[i]].obj = slots[i].obj
              /\ Len(new[to[i]].kids) = Len(slots[i].kids)
              /\ \A k \in 1..Len(slots[i].kids) :
                    new[to[i]].kids[k] = Ptr(to[slots[i].kids[k].index], e + 1)
  BY <1>7, <1>8
<1>13. Moves(slots, L, to, c, e, new)
  BY <1>2, <1>4, <1>9, <1>10, <1>11, <1>12 DEF Moves
<1> QED
  BY <1>13 DEF L, c, new

\* The object graph is the same after the cells moved.
LEMMA GraphMoved ==
  ASSUME NEW cells, NEW objs, NEW e \in Nat, Graph(cells, objs, e), NEW L, NEW to, NEW c, NEW new,
         Moves(cells, L, to, c, e, new)
  PROVE  Graph(new, objs, e + 1)
<1>1. /\ c \in Nat /\ L \subseteq 1..Len(cells) /\ Len(new) = c /\ new \in Seq(CellType)
      /\ \A i \in L : to[i] \in 1..c
      /\ \A place \in 1..c : \E i \in L : to[i] = place
      /\ \A i \in L : \A k \in 1..Len(cells[i].kids) : cells[i].kids[k].index \in L
      /\ \A i \in L :
           /\ new[to[i]].generation = e + 1 /\ new[to[i]].obj = cells[i].obj
           /\ Len(new[to[i]].kids) = Len(cells[i].kids)
           /\ \A k \in 1..Len(cells[i].kids) :
                  new[to[i]].kids[k] = Ptr(to[cells[i].kids[k].index], e + 1)
  BY DEF Moves
<1>2. \A d \in 1..c : Valid(Ptr(d, e + 1), c, e + 1) /\ Ptr(d, e + 1).index = d
  BY <1>1 DEF Valid, Ptr, PtrType
<1>3. ASSUME NEW place \in 1..c
      PROVE  /\ new[place].generation = e + 1 /\ new[place].obj \in 1..Len(objs)
             /\ Len(new[place].kids) = Len(objs[new[place].obj])
             /\ \A k \in 1..Len(new[place].kids) :
                    /\ Valid(new[place].kids[k], c, e + 1)
                    /\ new[new[place].kids[k].index].obj = objs[new[place].obj][k]
  <2>1. PICK i \in L : to[i] = place
    BY <1>1
  <2>2. /\ new[place].generation = e + 1 /\ new[place].obj = cells[i].obj
        /\ Len(new[place].kids) = Len(cells[i].kids)
        /\ \A k \in 1..Len(cells[i].kids) :
              new[place].kids[k] = Ptr(to[cells[i].kids[k].index], e + 1)
    BY <1>1, <2>1
  <2>3. i \in 1..Len(cells)
    BY <1>1
  <2>4. /\ cells[i].obj \in 1..Len(objs) /\ Len(cells[i].kids) = Len(objs[cells[i].obj])
        /\ \A k \in 1..Len(cells[i].kids) :
              cells[cells[i].kids[k].index].obj = objs[cells[i].obj][k]
    BY <2>3 DEF Graph
  <2>5. ASSUME NEW k \in 1..Len(new[place].kids)
        PROVE  /\ Valid(new[place].kids[k], c, e + 1)
               /\ new[new[place].kids[k].index].obj = objs[new[place].obj][k]
    <3> DEFINE j == cells[i].kids[k].index
    <3>1. k \in 1..Len(cells[i].kids) /\ new[place].kids[k] = Ptr(to[j], e + 1)
      BY <2>2
    <3>2. j \in L /\ to[j] \in 1..c /\ new[to[j]].obj = cells[j].obj
      BY <1>1, <3>1
    <3>3. cells[j].obj = objs[cells[i].obj][k]
      BY <2>4, <3>1
    <3> HIDE DEF j
    <3>4. Valid(Ptr(to[j], e + 1), c, e + 1) /\ Ptr(to[j], e + 1).index = to[j]
      BY <1>2, <3>2
    <3> QED
      BY <2>2, <3>1, <3>2, <3>3, <3>4
  <2> QED
    BY <2>2, <2>4, <2>5
<1>4. ASSUME NEW p \in 1..c, NEW q \in 1..c, new[p].obj = new[q].obj PROVE p = q
  <2>1. PICK i \in L, j \in L : to[i] = p /\ to[j] = q
    BY <1>1
  <2>2. cells[i].obj = cells[j].obj
    BY <1>1, <1>4, <2>1
  <2>3. i = j
    BY <1>1, <2>2 DEF Graph
  <2> QED
    BY <2>1, <2>3
<1>5. objs \in Seq(Seq(Nat))
  BY DEF Graph
<1> QED
  BY <1>1, <1>3, <1>4, <1>5 DEF Graph

\* The cells of L have their places, and the roots are among them.
Traced(t, n, L, to, c) ==
    /\ TableOK(t, n, collection_epoch) /\ collection_epoch \in Nat /\ c \in Nat
    /\ \A i \in L : to[i] \in 1..c
    /\ \A s \in 1..Len(t.roots) : t.roots[s].pointer # NoPtr => t.roots[s].pointer.index \in L

\* The roots r are those of t with the pointers to the new places.
Followed(t, r, to, c, e) ==
    /\ TableOK([roots |-> r, free |-> t.free, tokens |-> <<>>], c, e)
    /\ Len(r) = Len(t.roots)
    /\ \A s \in 1..Len(r) : /\ r[s].generation = t.roots[s].generation
                            /\ r[s].pointer = NoPtr <=> t.roots[s].pointer = NoPtr
                            /\ t.roots[s].pointer # NoPtr =>
                                   r[s].pointer.index = to[t.roots[s].pointer.index]

LEMMA TableMoved ==
  ASSUME NEW t, NEW n, NEW L, NEW to, NEW c, Traced(t, n, L, to, c)
  PROVE  Followed(t, MovedRoots(to, t.roots), to, c, collection_epoch + 1)
<1> DEFINE e == collection_epoch
           N == Len(t.roots)
           r == MovedRoots(to, t.roots)
           tab == [roots |-> r, free |-> t.free, tokens |-> <<>>]
<1>0. /\ TableOK(t, n, e) /\ e \in Nat /\ c \in Nat /\ \A i \in L : to[i] \in 1..c
      /\ \A s \in 1..Len(t.roots) : t.roots[s].pointer # NoPtr => t.roots[s].pointer.index \in L
  BY DEF Traced
<1>1. /\ t.free \in Seq(Nat) /\ N \in Nat
      /\ \A s \in 1..N : t.roots[s] \in RootType
  BY <1>0, TableTypes
<1>2. \A s \in 1..N : t.roots[s].generation \in Nat
  BY <1>1 DEF RootType
<1>3. \A s \in 1..N : r[s] = IF t.roots[s].pointer = NoPtr THEN t.roots[s]
                             ELSE Entry(t.roots[s].generation, Ptr(to[t.roots[s].pointer.index], e + 1))
  BY DEF MovedRoots, Forward
<1>4. \A d \in 1..c : /\ Valid(Ptr(d, e + 1), c, e + 1) /\ Ptr(d, e + 1).index = d
                      /\ Ptr(d, e + 1) # NoPtr /\ Ptr(d, e + 1) \in PtrType
  BY <1>0 DEF Valid, Ptr, PtrType, NoPtr
<1>5. ASSUME NEW s \in 1..N
      PROVE  /\ r[s] \in RootType /\ r[s].generation = t.roots[s].generation
             /\ r[s].pointer = NoPtr <=> t.roots[s].pointer = NoPtr
             /\ t.roots[s].pointer # NoPtr => /\ r[s].pointer.index = to[t.roots[s].pointer.index]
                                              /\ Valid(r[s].pointer, c, e + 1)
  <2>1. CASE t.roots[s].pointer = NoPtr
    <3>1. r[s] = t.roots[s]
      BY <1>3, <2>1
    <3> QED
      BY <1>1, <2>1, <3>1
  <2>2. CASE t.roots[s].pointer # NoPtr
    <3> DEFINE d == to[t.roots[s].pointer.index]
               gen == t.roots[s].generation
    <3>1. d \in 1..c /\ gen \in Nat
      <4>1. t.roots[s].pointer.index \in L
        BY <1>0, <2>2
      <4> QED
        BY <1>0, <1>2, <4>1
    <3>2. r[s] = Entry(gen, Ptr(d, e + 1))
      BY <1>3, <2>2
    <3> HIDE DEF d, gen
    <3>3. /\ Valid(Ptr(d, e + 1), c, e + 1) /\ Ptr(d, e + 1).index = d
          /\ Ptr(d, e + 1) # NoPtr /\ Ptr(d, e + 1) \in PtrType
      BY <1>4, <3>1
    <3>4. r[s] \in RootType /\ r[s].generation = gen /\ r[s].pointer = Ptr(d, e + 1)
      <4> DEFINE q == Ptr(d, e + 1)
      <4>1. q \in PtrType /\ gen \in Nat /\ r[s] = Entry(gen, q)
        BY <3>1, <3>2, <3>3
      <4> HIDE DEF q, r
      <4>2. r[s] \in RootType /\ r[s].generation = gen /\ r[s].pointer = q
        BY <4>1, EntryIs
      <4> QED
        BY <4>2 DEF q
    <3> QED
      BY <2>2, <3>3, <3>4 DEF d, gen
  <2> QED
    BY <2>1, <2>2
<1>6. r \in Seq(RootType) /\ Len(r) = N
  <2>1. DOMAIN r = 1..N /\ r = [s \in 1..N |-> r[s]]
    BY DEF MovedRoots
  <2>2. \A s \in 1..N : r[s] \in RootType
    BY <1>5
  <2>3. N \in Nat
    BY <1>1
  <2> HIDE DEF r, N
  <2> QED
    BY <2>1, <2>2, <2>3
<1> HIDE DEF r
<1>7. tab \in TableType /\ tab.roots = r /\ tab.free = t.free
  BY <1>1, <1>6 DEF TableType
<1> HIDE DEF tab
<1>8. \A s \in 1..Len(r) : r[s].pointer # NoPtr => Valid(r[s].pointer, c, e + 1)
  BY <1>5, <1>6
<1>9. \A k \in 1..Len(t.free) : t.free[k] \in 1..Len(r) /\ r[t.free[k]].pointer = NoPtr
  BY <1>0, <1>5, <1>6 DEF TableOK
<1>10. \A k, m \in 1..Len(t.free) : t.free[k] = t.free[m] => k = m
  BY <1>0 DEF TableOK
<1>11. TableOK(tab, c, e + 1)
  BY <1>7, <1>8, <1>9, <1>10, Zenon DEF TableOK
<1> QED
  BY <1>5, <1>6, <1>11 DEF r, tab, Followed

\* What the program can still get at is what the trace finds.
LEMMA LiveIsClosure ==
  ASSUME IInv
  PROVE  LET L == Live(Swept(Table, DOMAIN held).roots)
         IN  {slots[i].obj : i \in L} = Closure(Range(held))
<1> DEFINE t == Swept(Table, DOMAIN held)
           r == t.roots
           L == Live(r)
           e == collection_epoch
           n == Len(slots)
<1>1. TableOK(Table, n, e) /\ IssuedOK(issued, Table.roots) /\ Table.roots = runtime_roots
  BY DEF IInv, Table
<1>2. /\ TableOK(t, n, e)
      /\ \A s \in 1..Len(r) : r[s].pointer # NoPtr =>
             r[s] = runtime_roots[s] /\ Token(s, runtime_roots[s].generation) \in DOMAIN held
      /\ \A h \in DOMAIN held : Registered(runtime_roots, h) =>
             Registered(r, h) /\ r[h.slot] = runtime_roots[h.slot]
  BY <1>1, SweptKeeps, ZenonT(60)
<1> HIDE DEF t
<1>3. L \subseteq 1..n /\ Reaches(L, r)
  BY <1>2, LiveReaches
<1>4. Graph(slots, objects, e)
  BY DEF IInv
<1>5. ASSUME NEW i \in L PROVE slots[i].obj \in Closure(Range(held))
  <2>1. ASSUME NEW T \in SUBSET (1..Len(objects)), Range(held) \subseteq T,
               \A p \in T : Range(objects[p]) \subseteq T
        PROVE  slots[i].obj \in T
    <3> DEFINE S == {j \in 1..n : slots[j].obj \in T}
    <3>1. ASSUME NEW s \in 1..Len(r), r[s].pointer # NoPtr PROVE r[s].pointer.index \in S
      <4> DEFINE h == Token(s, runtime_roots[s].generation)
      <4>1. h \in DOMAIN held /\ r[s] = runtime_roots[s]
        BY <1>2, <3>1
      <4>2. h.slot = s
        BY DEF Token
      <4> HIDE DEF h
      <4>3. Pointer(h) = r[s].pointer
        BY <4>1, <4>2 DEF Pointer
      <4>4. Pointer(h).index \in 1..n /\ slots[Pointer(h).index].obj = held[h]
        BY <4>1, HeldCell
      <4>5. held[h] \in T
        BY <2>1, <4>1 DEF Range
      <4> QED
        BY <4>3, <4>4, <4>5
    <3>2. ASSUME NEW j \in S, NEW k \in 1..Len(slots[j].kids) PROVE slots[j].kids[k].index \in S
      <4> DEFINE o == slots[j].obj
                 d == slots[j].kids[k].index
      <4>1. /\ o \in 1..Len(objects) /\ Len(slots[j].kids) = Len(objects[o]) /\ d \in 1..n
            /\ slots[d].obj = objects[o][k] /\ o \in T
        BY <1>4 DEF Graph, Valid
      <4>2. objects[o] \in Seq(Nat)
        BY <1>4, <4>1, GraphTypes
      <4> HIDE DEF o, d
      <4>3. k \in DOMAIN objects[o]
        BY <4>1, <4>2
      <4>4. objects[o][k] \in T
        BY <2>1, <4>1, <4>3 DEF Range
      <4> QED
        BY <4>1, <4>4 DEF d
    <3>3. Reaches(S, r) /\ S \in SUBSET (1..Len(slots))
      BY <3>1, <3>2 DEF Reaches
    <3>4. i \in S
      <4> HIDE DEF S
      <4> QED
        BY <3>3 DEF Live
    <3> QED
      BY <3>4
  <2>2. slots[i].obj \in 1..Len(objects)
    BY <1>3, <1>4 DEF Graph
  <2> QED
    BY <2>1, <2>2 DEF Closure
<1>6. ASSUME NEW o \in Closure(Range(held)) PROVE \E i \in L : o = slots[i].obj
  <2> DEFINE T == {slots[i].obj : i \in L}
  <2>1. T \in SUBSET (1..Len(objects))
    BY <1>3, <1>4 DEF Graph
  <2>2. Range(held) \subseteq T
    <3>1. ASSUME NEW h \in DOMAIN held PROVE held[h] \in T
      <4>1. /\ Registered(runtime_roots, h) /\ slots[Pointer(h).index].obj = held[h]
        BY DEF IInv, HeldOK
      <4>2. Registered(r, h) /\ r[h.slot] = runtime_roots[h.slot]
        BY <1>2, <4>1
      <4>3. Pointer(h).index \in L
        BY <1>3, <4>2 DEF Reaches, Registered, Pointer
      <4> QED
        BY <4>1, <4>3
    <3> QED
      BY <3>1 DEF Range
  <2>3. ASSUME NEW p \in T PROVE Range(objects[p]) \subseteq T
    <3>1. PICK i \in L : p = slots[i].obj
      BY <2>3
    <3>2. /\ i \in 1..n /\ p \in 1..Len(objects) /\ Len(slots[i].kids) = Len(objects[p])
          /\ \A k \in 1..Len(slots[i].kids) : slots[slots[i].kids[k].index].obj = objects[p][k]
      BY <1>3, <1>4, <3>1 DEF Graph
    <3>3. objects[p] \in Seq(Nat)
      BY <1>4, <3>2, GraphTypes
    <3>4. DOMAIN objects[p] = 1..Len(slots[i].kids)
      BY <3>2, <3>3
    <3>5. ASSUME NEW k \in 1..Len(slots[i].kids) PROVE objects[p][k] \in T
      <4>1. slots[i].kids[k].index \in L
        BY <1>3 DEF Reaches
      <4> QED
        BY <3>2, <4>1
    <3> HIDE DEF T
    <3> QED
      BY <3>4, <3>5 DEF Range
  <2>4. o \in T
    <3> HIDE DEF T
    <3> QED
      BY <2>1, <2>2, <2>3 DEF Closure
  <2> QED
    BY <2>4
<1> HIDE DEF L
<1>7. {slots[i].obj : i \in L} = Closure(Range(held))
  BY <1>5, <1>6
<1> QED
  BY <1>7 DEF L, t

LEMMA CollectKeeps ==
  ASSUME IInv, CollectIfNeeded
  PROVE  /\ IInv' /\ {slots'[i].obj : i \in 1..Len(slots')} = Closure(Range(held))
         /\ issued' = issued
<1> DEFINE t == Swept(Table, DOMAIN held)
           L == Live(t.roots)
           c == Cardinality(L)
           e == collection_epoch
           n == Len(slots)
<1>1. /\ \E to \in Destinations(L) :
             slots' = MovedSlots(to) /\ runtime_roots' = MovedRoots(to, t.roots)
      /\ free_roots' = t.free /\ collection_epoch' = e + 1
      /\ next_gc_slot_count' = NextThreshold(c)
      /\ UNCHANGED <<extreme_stress, held, issued, objects>>
  BY Zenon DEF CollectIfNeeded
<1>2. /\ TableOK(Table, n, e) /\ IssuedOK(issued, Table.roots) /\ Table.roots = runtime_roots
      /\ e \in Nat /\ Graph(slots, objects, e)
  BY DEF IInv, Table
<1>3. /\ TableOK(t, n, e) /\ Len(t.roots) = Len(runtime_roots) /\ IssuedOK(issued, t.roots)
      /\ \A h \in DOMAIN held : Registered(runtime_roots, h) =>
             Registered(t.roots, h) /\ t.roots[h.slot] = runtime_roots[h.slot]
  BY <1>2, SweptKeeps
<1>4. {slots[i].obj : i \in L} = Closure(Range(held))
  BY LiveIsClosure
<1> HIDE DEF t
<1>5. L \subseteq 1..n /\ c \in Nat /\ Reaches(L, t.roots)
  BY <1>3, LiveReaches
<1>6. PICK to \in Destinations(L) : slots' = MovedSlots(to) /\ runtime_roots' = MovedRoots(to, t.roots)
  BY <1>1
<1>7. Moves(slots, L, to, c, e, slots')
  BY <1>3, <1>6, MovedSlotsIs
<1> HIDE DEF L, c
<1>8. Graph(slots', objects', e + 1) /\ Len(slots') = c
  <2>1. Graph(slots', objects, e + 1)
    BY <1>2, <1>7, GraphMoved
  <2> QED
    BY <1>1, <1>7, <2>1 DEF Moves
<1>9. /\ \A i \in L : to[i] \in 1..c /\ slots'[to[i]].obj = slots[i].obj
      /\ \A place \in 1..c : \E i \in L : to[i] = place
  BY <1>7 DEF Moves
<1>10. {slots'[i].obj : i \in 1..Len(slots')} = Closure(Range(held))
  BY <1>4, <1>8, <1>9
<1>11. \A s \in 1..Len(t.roots) : t.roots[s].pointer # NoPtr => t.roots[s].pointer.index \in L
  BY <1>5 DEF Reaches
<1> DEFINE r == MovedRoots(to, t.roots)
<1>12. Followed(t, r, to, c, e + 1)
  <2>1. c \in Nat
    BY <1>5 DEF c
  <2>2. Traced(t, n, L, to, c)
    BY <1>2, <1>3, <1>9, <1>11, <2>1 DEF Traced
  <2> QED
    BY <2>2, TableMoved
<1> HIDE DEF r
<1>13. runtime_roots' = r
  BY <1>6 DEF r
<1>14. TableOK(Table', Len(slots'), collection_epoch')
  BY <1>1, <1>8, <1>12, <1>13 DEF Table, Followed
<1>15. IssuedOK(issued', runtime_roots')
  <2>1. IssuedOK(issued, r)
    BY <1>3, <1>12 DEF IssuedOK, Followed
  <2> QED
    BY <1>1, <1>13, <2>1
<1>16. HeldOK'
  <2>1. ASSUME NEW h \in DOMAIN held
        PROVE  h \in issued /\ Registered(r, h) /\ slots'[r[h.slot].pointer.index].obj = held[h]
    <3>1. /\ h \in issued /\ Registered(runtime_roots, h)
          /\ slots[runtime_roots[h.slot].pointer.index].obj = held[h]
      BY DEF IInv, HeldOK, Pointer
    <3>2. Registered(t.roots, h) /\ t.roots[h.slot] = runtime_roots[h.slot]
      BY <1>3, <3>1
    <3>3. Registered(r, h) /\ r[h.slot].pointer.index = to[t.roots[h.slot].pointer.index]
      BY <1>12, <3>2 DEF Registered, Followed
    <3>4. t.roots[h.slot].pointer.index \in L
      BY <1>11, <3>2 DEF Registered
    <3> QED
      BY <1>9, <3>1, <3>2, <3>3, <3>4
  <2> QED
    BY <1>1, <1>13, <2>1 DEF HeldOK, Pointer
<1>17. next_gc_slot_count' \in Nat /\ extreme_stress' \in BOOLEAN /\ collection_epoch' \in Nat
  <2>1. NextThreshold(c) \in Nat
    <3>1. c \in Nat /\ c \div 2 \in Nat /\ DefaultThreshold \in Nat
      BY <1>5, HeapAssumption DEF c
    <3> QED
      BY <3>1 DEF NextThreshold
  <2> QED
    BY <1>1, <1>2, <2>1 DEF IInv
<1>18. IInv'
  BY <1>1, <1>8, <1>14, <1>15, <1>16, <1>17, Zenon DEF IInv
<1> QED
  BY <1>1, <1>10, <1>18

-----------------------------------------------------------------------------
(* The specification.                                                       *)

LEMMA InitOK == Init => IInv
<1> SUFFICES ASSUME Init PROVE IInv
  OBVIOUS
<1>1. /\ slots = <<>> /\ runtime_roots = <<>> /\ free_roots = <<>> /\ objects = <<>>
      /\ DOMAIN held = {} /\ issued = {} /\ extreme_stress \in BOOLEAN
      /\ next_gc_slot_count = DefaultThreshold /\ collection_epoch = 0
  BY DEF Init
<1>2. Graph(slots, objects, collection_epoch)
  <2>1. slots \in Seq(CellType) /\ objects \in Seq(Seq(Nat)) /\ 1..Len(slots) = {}
    BY <1>1
  <2> QED
    BY <2>1 DEF Graph
<1>3. TableOK(Table, Len(slots), collection_epoch)
  <2>1. /\ runtime_roots \in Seq(RootType) /\ free_roots \in Seq(Nat)
        /\ 1..Len(runtime_roots) = {} /\ 1..Len(free_roots) = {} /\ <<>> \in Seq(TokenType)
    BY <1>1
  <2>2. Table \in TableType /\ Table.roots = runtime_roots /\ Table.free = free_roots
    BY <2>1 DEF Table, TableType
  <2> QED
    BY <2>1, <2>2 DEF TableOK
<1>4. IssuedOK(issued, runtime_roots) /\ HeldOK
  BY <1>1 DEF IssuedOK, HeldOK
<1>5. next_gc_slot_count \in Nat /\ collection_epoch \in Nat
  BY <1>1, HeapAssumption
<1> QED
  BY <1>1, <1>2, <1>3, <1>4, <1>5, Zenon DEF IInv

\* No token that is new in the evaluator's hands was handed out before.
FreshStep == \A token \in DOMAIN held' \ DOMAIN held : token \notin issued

\* The cells after a collection are what the program can still get at.
ExactStep == {slots'[i].obj : i \in 1..Len(slots')} = Closure(Range(held))

LEMMA HoldFresh ==
  ASSUME NEW g, NEW m, NEW pointers, NEW n, NEW objs,
         Registers(Table, g, m, pointers, issued, n, collection_epoch), Hold(g, objs)
  PROVE  FreshStep
<1>1. DOMAIN held' = DOMAIN held \cup Range(g.tokens)
  BY DEF Hold
<1>2. TableOK(g, n, collection_epoch) /\ Len(g.tokens) = m /\ \A i \in 1..m : g.tokens[i] \notin issued
  BY DEF Registers
<1>3. g.tokens \in Seq(TokenType)
  BY <1>2, TableTypes
<1>4. DOMAIN g.tokens = 1..m
  BY <1>2, <1>3
<1> QED
  BY <1>1, <1>2, <1>4 DEF FreshStep, Range

LEMMA NextKeeps ==
  ASSUME IInv, [Next]_vars
  PROVE  /\ IInv' /\ (issued' # issued => FreshStep)
         /\ (collection_epoch' # collection_epoch => ExactStep)
<1>1. ASSUME NEW tokens \in Arguments, Fits /\ Alloc(tokens)
      PROVE  IInv' /\ FreshStep /\ collection_epoch' = collection_epoch
  <2>1. IInv'
    BY <1>1, AllocKeeps
  <2> DEFINE p == Ptr(Len(slots) + 1, collection_epoch)
             g == Register(Table, p)
             q == <<p>>
             n == Len(slots')
             one == 1
             objs == <<NewObject>>
  <2>2. Registers(Table, g, one, q, issued, n, collection_epoch)
    BY <1>1, AllocKeeps
  <2>3. Hold(g, objs) /\ collection_epoch' = collection_epoch
    BY <1>1 DEF Alloc
  <2> HIDE DEF g, q, n, one, objs
  <2>4. FreshStep
    BY <2>2, <2>3, HoldFresh
  <2> QED
    BY <2>1, <2>3, <2>4
<1>2. ASSUME NEW token \in DOMAIN held, Open(token)
      PROVE  IInv' /\ FreshStep /\ collection_epoch' = collection_epoch
  <2>1. IInv'
    BY <1>2, OpenKeeps
  <2> DEFINE kids == slots[Pointer(token).index].kids
             g == RegisterAll(Table, kids)
             m == Len(kids)
             n == Len(slots)
             objs == objects[slots[Pointer(token).index].obj]
  <2>2. Registers(Table, g, m, kids, issued, n, collection_epoch)
    BY <1>2, OpenKeeps, Zenon
  <2>3. Hold(g, objs) /\ collection_epoch' = collection_epoch
    BY <1>2, Zenon DEF Open
  <2> HIDE DEF kids, g, m, n, objs
  <2>4. FreshStep
    BY <2>2, <2>3, HoldFresh
  <2> QED
    BY <2>1, <2>3, <2>4
<1>3. ASSUME NEW target \in DOMAIN held, NEW value \in DOMAIN held, OverwriteRoot(target, value)
      PROVE  IInv' /\ issued' = issued /\ collection_epoch' = collection_epoch
  <2>1. issued' = issued /\ collection_epoch' = collection_epoch
    BY <1>3 DEF OverwriteRoot
  <2> QED
    BY <1>3, <2>1, OverwriteRootKeeps
<1>4. ASSUME NEW token \in DOMAIN held, Forget(token)
      PROVE  IInv' /\ issued' = issued /\ collection_epoch' = collection_epoch
  <2>1. issued' = issued /\ collection_epoch' = collection_epoch
    BY <1>4 DEF Forget
  <2> QED
    BY <1>4, <2>1, ForgetKeeps
<1>5. ASSUME CollectIfNeeded PROVE IInv' /\ issued' = issued /\ ExactStep
  BY <1>5, CollectKeeps DEF ExactStep
<1>6. CASE UNCHANGED vars
  BY <1>6 DEF vars, IInv, HeldOK, Pointer, Table
<1> QED
  BY <1>1, <1>2, <1>3, <1>4, <1>5, <1>6, Zenon DEF Next

LEMMA Inductive == Spec => []IInv
<1>1. IInv /\ [Next]_vars => IInv'
  BY NextKeeps
<1> QED
  BY InitOK, <1>1, PTL DEF Spec

(***************************************************************************)
(* Type correctness of the heap and the root table of heap.rs, for any     *)
(* bounds.                                                                 *)
(***************************************************************************)
THEOREM HeapTypeCorrect == Spec => []TypeOK
<1>1. IInv => TypeOK
  <2> SUFFICES ASSUME IInv PROVE TypeOK
    OBVIOUS
  <2>1. slots \in Seq(CellType) /\ objects \in Seq(Seq(Nat))
    BY DEF IInv, Graph
  <2>2. TableOK(Table, Len(slots), collection_epoch) /\ Table.roots = runtime_roots /\ Table.free = free_roots
    BY DEF IInv, Table
  <2>3. runtime_roots \in Seq(RootType) /\ free_roots \in Seq(Nat)
    BY <2>2, TableTypes
  <2>4. issued \subseteq TokenType /\ DOMAIN held \subseteq issued
    BY DEF IInv, IssuedOK, HeldOK
  <2> QED
    BY <2>1, <2>3, <2>4 DEF IInv, TypeOK
<1> QED
  BY Inductive, <1>1, PTL

(***************************************************************************)
(* A RootedPtr the evaluator holds resolves to the object it was made for, *)
(* whatever was allocated, opened, overwritten and collected since         *)
(* (register_runtime_root, unregister_runtime_root, resolve_runtime_root   *)
(* and the collection of heap.rs).                                         *)
(***************************************************************************)
THEOREM HeapTokensResolve == Spec => []TokensResolve
<1>1. IInv => TokensResolve
  <2> SUFFICES ASSUME IInv, NEW token \in DOMAIN held
               PROVE  /\ runtime_roots[token.slot].generation = token.generation
                      /\ Checked(Pointer(token))
                      /\ slots[Pointer(token).index].obj = held[token]
    BY DEF TokensResolve
  <2>1. runtime_roots[token.slot].generation = token.generation
    BY DEF IInv, HeldOK, Registered
  <2>2. /\ Valid(Pointer(token), Len(slots), collection_epoch)
        /\ slots[Pointer(token).index].obj = held[token]
    BY HeldCell
  <2>3. Checked(Pointer(token))
    BY <2>2 DEF Checked, Valid, IInv, Graph
  <2> QED
    BY <2>1, <2>2, <2>3
<1> QED
  BY Inductive, <1>1, PTL

(***************************************************************************)
(* The heap is the program's object graph: no pointer inside a cell fails  *)
(* get_slot_checked or leads to another object, after any moves of the     *)
(* collector (forward_for_gc) and any overwrite_root.                      *)
(***************************************************************************)
THEOREM HeapGraphKept == Spec => []HeapIsObjectGraph
<1>1. IInv => HeapIsObjectGraph
  <2> SUFFICES ASSUME IInv, NEW i \in 1..Len(slots)
               PROVE  /\ slots[i].generation = collection_epoch
                      /\ Len(slots[i].kids) = Len(objects[slots[i].obj])
                      /\ \A k \in 1..Len(slots[i].kids) :
                             /\ Checked(slots[i].kids[k])
                             /\ slots[slots[i].kids[k].index].obj = objects[slots[i].obj][k]
    BY DEF HeapIsObjectGraph
  <2>1. Graph(slots, objects, collection_epoch)
    BY DEF IInv
  <2>2. /\ slots[i].generation = collection_epoch
        /\ Len(slots[i].kids) = Len(objects[slots[i].obj])
        /\ \A k \in 1..Len(slots[i].kids) :
               /\ Valid(slots[i].kids[k], Len(slots), collection_epoch)
               /\ slots[slots[i].kids[k].index].obj = objects[slots[i].obj][k]
    BY <2>1 DEF Graph
  <2>3. \A p : Valid(p, Len(slots), collection_epoch) => Checked(p)
    BY <2>1 DEF Valid, Checked, Graph
  <2> QED
    BY <2>2, <2>3
<1> QED
  BY Inductive, <1>1, PTL

(***************************************************************************)
(* register_runtime_root never hands out a token a second time, whatever   *)
(* was released in between: the generations of a slot only grow.           *)
(***************************************************************************)
THEOREM HeapTokensFresh == Spec => TokensFresh
<1>1. IInv /\ [Next]_vars =>
          [issued' # issued => \A token \in DOMAIN held' \ DOMAIN held : token \notin issued]_vars
  BY NextKeeps DEF FreshStep
<1> QED
  BY Inductive, <1>1, PTL DEF Spec, TokensFresh

(***************************************************************************)
(* collect_machine_if_needed keeps exactly the objects that can be reached *)
(* from the tokens in the evaluator's state: the stale roots are swept     *)
(* before the trace, so no garbage is copied, and nothing reachable is     *)
(* lost.                                                                   *)
(***************************************************************************)
THEOREM HeapCollectionExact == Spec => CollectionExact
<1>1. IInv /\ [Next]_vars =>
          [collection_epoch' # collection_epoch =>
               {slots'[i].obj : i \in 1..Len(slots')} = Closure(Range(held))]_vars
  BY NextKeeps DEF ExactStep
<1> QED
  BY Inductive, <1>1, PTL DEF Spec, CollectionExact

=============================================================================
