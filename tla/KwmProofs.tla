----------------------------- MODULE KwmProofs -----------------------------
(***************************************************************************)
(* Proofs about Kwm for any number of windows, any screen and any pixel.   *)
(*                                                                         *)
(* All of it rests on one fact about the table, Ordered: the z-indexes     *)
(* tell the windows apart, the desktop is at the bottom and the others lie *)
(* below next_z_index.  kwm_create_window at the limit breaks it, which is *)
(* why the theorems assume ~CreateAtLimit; no other operation does.        *)
(***************************************************************************)
EXTENDS Kwm, FiniteSetTheorems, WellFoundedInduction, TLAPS

-----------------------------------------------------------------------------
(* The inductive invariant *)

Window == [active : BOOLEAN, x : Int, y : Int, w : Int, h : Int, z : Nat,
           owner : Apps \cup Shells \cup {NoTask}, desktop : BOOLEAN]
Tables == [Slots -> Window]

\* Every slot is told apart by its z-index, up to n.
Ordered(ws, n) ==
  /\ \A i \in Slots : ws[i].active /\ ~ws[i].desktop => 1 <= ws[i].z /\ ws[i].z < n
  /\ \A i \in Slots : ws[i].active /\ ws[i].desktop => ws[i].z = 0
  /\ \A i \in Slots : ~ws[i].active => ws[i].z = 0
  /\ \A i, j \in Slots : ws[i].active /\ ws[j].active /\ ws[i].z = ws[j].z => i = j
Owned(ws) == \A i \in Slots : ws[i].active => ws[i].owner \in Apps \cup Shells

\* Slot i holds a window that is not the desktop.
IsRegular(ws, i) == i \in Slots /\ ws[i].active /\ ~ws[i].desktop
FocusOnTop(ws, f) ==
  f # None => IsRegular(ws, f) /\ \A j \in Slots : IsRegular(ws, j) => ws[j].z <= ws[f].z

Shape ==
  /\ win \in Tables /\ next_z_index \in 1 .. MaxZ
  /\ focused \in Slots \cup {None} /\ dragged \in Slots \cup {None}
  /\ drag_offset \in Int \X Int /\ pixel \in Pixels /\ pending \subseteq Slots \cup {None}
  /\ alt_tab_active \in BOOLEAN /\ dirty \in BOOLEAN /\ taken \in BOOLEAN /\ stale \in BOOLEAN

KInv ==
  /\ Shape
  /\ Ordered(win, next_z_index) /\ Owned(win)
  /\ FocusOnTop(win, focused)
  /\ dragged # None => IsRegular(win, dragged)
  /\ RepaintComplete

-----------------------------------------------------------------------------
(* What is on top *)

\* Whatever is not empty and bounded has a window with the greatest z-index.
LEMMA HighestExists ==
  ASSUME NEW ws \in Tables, NEW S \in SUBSET Slots, S # {}, NEW n \in Nat,
         \A i \in S : ws[i].z <= n
  PROVE  \E i \in S : \A j \in S : ws[j].z <= ws[i].z
<1>. DEFINE T == {m \in Nat : \E i \in S : ws[i].z + m = n}
<1>0. \A i \in S : ws[i].z \in Nat  BY Zenon DEF Tables, Window
<1>1. T # {}
  <2>1. PICK i \in S : TRUE  BY Zenon
  <2>2. n - ws[i].z \in T  BY <1>0, <2>1
  <2>. QED  BY <2>2, Zenon
<1>2. PICK m \in T : \A k \in T : ~(<<k, m>> \in OpToRel(<, Nat))
  <2>1. T \subseteq Nat  BY Zenon
  <2>. HIDE DEF T
  <2>. QED  BY <1>1, <2>1, NatLessThanWellFounded, WFMin, Zenon
<1>3. PICK i \in S : ws[i].z + m = n  BY Zenon
<1>4. \A j \in S : ws[j].z <= ws[i].z
  <2>. SUFFICES ASSUME NEW j \in S, ws[i].z < ws[j].z PROVE FALSE  BY <1>0
  <2>1. n - ws[j].z \in T  BY <1>0
  <2>2. n - ws[j].z < m  BY <1>0, <1>3
  <2>3. <<n - ws[j].z, m>> \in OpToRel(<, Nat)  BY <2>1, <2>2, <1>2, Zenon DEF OpToRel
  <2>. QED  BY <1>2, <2>1, <2>3, Zenon
<1>. QED  BY <1>4, Zenon

LEMMA LowestExists ==
  ASSUME NEW ws \in Tables, NEW S \in SUBSET Slots, S # {}
  PROVE  \E i \in S : \A j \in S : ws[i].z <= ws[j].z
<1>. DEFINE T == {m \in Nat : \E i \in S : ws[i].z = m}
<1>0. \A i \in S : ws[i].z \in Nat  BY Zenon DEF Tables, Window
<1>1. T # {}  BY <1>0, Zenon
<1>2. PICK m \in T : \A k \in T : ~(<<k, m>> \in OpToRel(<, Nat))
  <2>1. T \subseteq Nat  BY Zenon
  <2>. HIDE DEF T
  <2>. QED  BY <1>1, <2>1, NatLessThanWellFounded, WFMin, Zenon
<1>3. PICK i \in S : ws[i].z = m  BY Zenon
<1>4. \A j \in S : ws[i].z <= ws[j].z
  <2>. SUFFICES ASSUME NEW j \in S, ws[j].z < ws[i].z PROVE FALSE  BY <1>0
  <2>1. ws[j].z \in T  BY <1>0, Zenon
  <2>3. <<ws[j].z, m>> \in OpToRel(<, Nat)  BY <1>3, <2>1, Zenon DEF OpToRel
  <2>. QED  BY <1>2, <2>1, <2>3, Zenon
<1>. QED  BY <1>4, Zenon

\* TopAt of a table, and what it is: the highest of the windows at p, or none.
Top(ws, n, p) ==
  LET at == {i \in {k \in Active(ws) : ws[k].z <= n} : p \in Frame(ws[i])}
  IN  IF at = {} THEN None ELSE CHOOSE i \in at : \A j \in at \ {i} : Below(ws, j, i)
Shows(ws, p, i) == ws[i].active /\ p \in Frame(ws[i])
Seen(ws, p, k) ==
  \/ k = None /\ \A i \in Slots : ~Shows(ws, p, i)
  \/ /\ k \in Slots /\ Shows(ws, p, k)
     /\ \A j \in Slots : Shows(ws, p, j) => ws[j].z <= ws[k].z

LEMMA SlotsAreNotNone == None \notin Slots /\ Slots \subseteq Nat /\ IsFiniteSet(Slots)
<1>1. MAX_WINDOWS \in Nat \ {0}  BY KwmAssumption, Zenon
<1>2. IsFiniteSet(0 .. MAX_WINDOWS - 1)  BY <1>1, FS_Interval
<1>3. None \notin Slots /\ Slots \subseteq Nat  BY <1>1 DEF Slots, None
<1>. QED  BY <1>2, <1>3, Zenon DEF Slots

\* Of the windows at a point one at most is seen.
LEMMA SeenOnce ==
  ASSUME NEW ws \in Tables, NEW n \in Nat, Ordered(ws, n), NEW p,
         NEW a, NEW b, Seen(ws, p, a), Seen(ws, p, b)
  PROVE  a = b
<1>1. \A i \in Slots : ws[i].z \in Nat  BY Zenon DEF Tables, Window
<1>2. CASE a \in Slots /\ b \in Slots
  <2>1. Shows(ws, p, a) /\ Shows(ws, p, b) /\ ws[a].z <= ws[b].z /\ ws[b].z <= ws[a].z
    BY <1>2, SlotsAreNotNone, Zenon DEF Seen
  <2>. QED  BY <1>1, <1>2, <2>1 DEF Ordered, Shows
<1>. QED  BY <1>2, SlotsAreNotNone, Zenon DEF Seen

\* What the compositor paints last is what is seen.
LEMMA TopSeen ==
  ASSUME NEW ws \in Tables, NEW n \in Nat, Ordered(ws, n), NEW p
  PROVE  Seen(ws, p, Top(ws, n, p))
<1>. DEFINE at == {i \in {k \in Active(ws) : ws[k].z <= n} : p \in Frame(ws[i])}
<1>0. \A i \in Slots : ws[i].z \in Nat /\ ws[i].desktop \in BOOLEAN /\ ws[i].active \in BOOLEAN
  BY Zenon DEF Tables, Window
<1>1. \A i \in Slots : ws[i].active => ws[i].z <= n
  BY <1>0 DEF Ordered
<1>2. at = {i \in Slots : Shows(ws, p, i)}  BY <1>1, Zenon DEF Active, Shows
<1>3. Top(ws, n, p) = IF at = {} THEN None ELSE CHOOSE i \in at : \A j \in at \ {i} : Below(ws, j, i)
  BY Zenon DEF Top
<1>. HIDE DEF at
<1>4. CASE at = {}  BY <1>2, <1>3, <1>4, Zenon DEF Seen
<1>5. CASE at # {}
  <2>1. PICK i \in at : \A j \in at : ws[j].z <= ws[i].z
    <3>1. at \in SUBSET Slots /\ \A k \in at : ws[k].z <= n  BY <1>1, <1>2, Zenon DEF Shows
    <3>. QED  BY <1>5, <3>1, HighestExists, Zenon
  <2>2. \A j \in at \ {i} : Below(ws, j, i)
    BY <1>0, <1>2, <2>1 DEF Below, Ordered, Shows
  <2>3. PICK t \in at : t = Top(ws, n, p) /\ \A j \in at \ {t} : Below(ws, j, t)
    BY <1>3, <1>5, <2>2, Zenon
  <2>4. \A j \in at : ws[j].z <= ws[t].z  BY <1>0, <1>2, <2>3 DEF Below
  <2>. QED  BY <1>2, <2>3, <2>4, Zenon DEF Seen
<1>. QED  BY <1>4, <1>5, Zenon

\* So is what kwm_hit_test_locked finds.
LEMMA HitSeen ==
  ASSUME NEW ws \in Tables, NEW n \in Nat, Ordered(ws, n), NEW p
  PROVE  Seen(ws, p, HitTest(ws, p))
<1>. DEFINE at == {i \in Active(ws) : p \in Frame(ws[i])}
<1>0. \A i \in Slots : ws[i].z \in Nat /\ ws[i].desktop \in BOOLEAN /\ ws[i].active \in BOOLEAN
  BY Zenon DEF Tables, Window
<1>1. \A i \in Slots : ws[i].active => ws[i].z <= n
  BY <1>0 DEF Ordered
<1>2. at = {i \in Slots : Shows(ws, p, i)}  BY Zenon DEF Active, Shows
<1>3. HitTest(ws, p) = IF at = {} THEN None
                       ELSE CHOOSE i \in at : \A j \in at \ {i} :
                              ws[j].z < ws[i].z \/ (ws[j].z = ws[i].z /\ i < j)
  BY Zenon DEF HitTest
<1>. HIDE DEF at
<1>4. CASE at = {}  BY <1>2, <1>3, <1>4, Zenon DEF Seen
<1>5. CASE at # {}
  <2>1. PICK i \in at : \A j \in at : ws[j].z <= ws[i].z
    <3>1. at \in SUBSET Slots /\ \A k \in at : ws[k].z <= n  BY <1>1, <1>2, Zenon DEF Shows
    <3>. QED  BY <1>5, <3>1, HighestExists, Zenon
  <2>2. \A j \in at \ {i} : ws[j].z < ws[i].z \/ (ws[j].z = ws[i].z /\ i < j)
    BY <1>0, <1>2, <2>1 DEF Ordered, Shows
  <2>3. PICK t \in at : /\ t = HitTest(ws, p)
                        /\ \A j \in at \ {t} : ws[j].z < ws[t].z \/ (ws[j].z = ws[t].z /\ t < j)
    BY <1>3, <1>5, <2>2, Zenon
  <2>4. \A j \in at : ws[j].z <= ws[t].z  BY <1>0, <1>2, <2>3
  <2>. QED  BY <1>2, <2>3, <2>4, Zenon DEF Seen
<1>. QED  BY <1>4, <1>5, Zenon

-----------------------------------------------------------------------------
(* What does not change what is on top *)

SameWindow(w, v) ==
  /\ w.active = v.active /\ w.desktop = v.desktop
  /\ w.x = v.x /\ w.y = v.y /\ w.w = v.w /\ w.h = v.h

\* Outside C two tables have the same windows in the same order.
Alike(ws, vs, C) ==
  /\ \A i \in Slots \ C : SameWindow(ws[i], vs[i])
  /\ \A i, j \in Slots \ C : ws[i].active /\ ws[j].active => (ws[i].z <= ws[j].z <=> vs[i].z <= vs[j].z)
Hidden(ws, vs, C, p) == \A i \in C : ~Shows(ws, p, i) /\ ~Shows(vs, p, i)

LEMMA SameFrame ==
  ASSUME NEW w, NEW v, SameWindow(w, v)
  PROVE  Frame(w) = Frame(v) /\ Content(w) = Content(v)
BY Zenon DEF SameWindow, Frame, Content, Titlebar

LEMMA SameShows ==
  ASSUME NEW ws, NEW vs, NEW C, Alike(ws, vs, C), NEW p, NEW i \in Slots \ C
  PROVE  Shows(ws, p, i) <=> Shows(vs, p, i)
<1>1. SameWindow(ws[i], vs[i])  BY Zenon DEF Alike
<1>2. Frame(ws[i]) = Frame(vs[i])  BY <1>1, SameFrame, Zenon
<1>. QED  BY <1>1, <1>2, Zenon DEF Shows, SameWindow

LEMMA SameSeen ==
  ASSUME NEW ws, NEW vs, NEW C, Alike(ws, vs, C), NEW p, Hidden(ws, vs, C, p),
         NEW k, Seen(ws, p, k)
  PROVE  Seen(vs, p, k) /\ k \notin C \cap Slots
<1>1. \A i \in Slots : Shows(ws, p, i) <=> Shows(vs, p, i)
  BY SameShows, Zenon DEF Hidden
<1>2. CASE k = None /\ \A i \in Slots : ~Shows(ws, p, i)
  BY <1>1, <1>2, SlotsAreNotNone, Zenon DEF Seen
<1>3. CASE k \in Slots /\ Shows(ws, p, k) /\ \A j \in Slots : Shows(ws, p, j) => ws[j].z <= ws[k].z
  <2>1. k \notin C  BY <1>3, Zenon DEF Hidden
  <2>2. ASSUME NEW j \in Slots, Shows(vs, p, j) PROVE vs[j].z <= vs[k].z
    <3>1. Shows(ws, p, j) /\ j \notin C  BY <1>1, <2>2, Zenon DEF Hidden
    <3>. QED  BY <1>3, <2>1, <3>1, Zenon DEF Alike, Shows
  <2>. QED  BY <1>1, <1>3, <2>1, <2>2, Zenon DEF Seen
<1>. QED  BY <1>2, <1>3, Zenon DEF Seen

\* The look of a pixel only changes where a window in C shows it, or where the
\* tint of the focus moves.
LookOf(ws, n, f, p) ==
  LET i == Top(ws, n, p) IN <<i, i # None /\ i = f /\ p \notin Content(ws[i])>>

LEMMA LookCovered ==
  ASSUME NEW ws \in Tables, NEW n \in Nat, Ordered(ws, n), NEW f,
         NEW vs \in Tables, NEW m \in Nat, Ordered(vs, m), NEW g,
         NEW C, Alike(ws, vs, C), NEW p, Hidden(ws, vs, C, p),
         LookOf(ws, n, f, p) # LookOf(vs, m, g, p)
  PROVE  f # g /\ \E k \in Slots : k \in {f, g} /\ Shows(vs, p, k)
<1>. DEFINE k == Top(ws, n, p)
<1>1. Seen(ws, p, k) /\ Seen(vs, p, Top(vs, m, p))  BY TopSeen, Zenon
<1>2. Seen(vs, p, k) /\ k \notin C \cap Slots  BY <1>1, SameSeen, Zenon
<1>3. Top(vs, m, p) = k  BY <1>1, <1>2, SeenOnce, Zenon
<1>4. LookOf(ws, n, f, p) = <<k, k # None /\ k = f /\ p \notin Content(ws[k])>>
  BY Zenon DEF LookOf
<1>5. LookOf(vs, m, g, p) = <<k, k # None /\ k = g /\ p \notin Content(vs[k])>>
  BY <1>3, Zenon DEF LookOf
<1>6. k # None
  BY <1>4, <1>5, Zenon
<1>7. k \in Slots /\ Shows(vs, p, k)  BY <1>2, <1>6, Zenon DEF Seen
<1>8. Content(ws[k]) = Content(vs[k])
  BY <1>2, <1>7, SameFrame, Zenon DEF Alike
<1>9. (k = f) # (k = g)
  BY <1>4, <1>5, <1>8, Zenon
<1>. QED  BY <1>7, <1>9, Zenon

-----------------------------------------------------------------------------
(* kwm_normalize_zindex_locked keeps the order *)

\* What the renumbering needs of a table: its z-indexes tell the windows apart.
Apart(ws) ==
  /\ \A i \in Slots : ws[i].active /\ ~ws[i].desktop => 1 <= ws[i].z
  /\ \A i \in Slots : ws[i].active /\ ws[i].desktop => ws[i].z = 0
  /\ \A i \in Slots : ~ws[i].active => ws[i].z = 0
  /\ \A i, j \in Slots : ws[i].active /\ ws[j].active /\ ws[i].z = ws[j].z => i = j

LEMMA RegularFinite ==
  ASSUME NEW ws
  PROVE  /\ IsFiniteSet(Regular(ws)) /\ Regular(ws) \subseteq Slots
         /\ Cardinality(Regular(ws)) \in 0 .. MAX_WINDOWS
<1>1. Regular(ws) \in SUBSET Slots  BY Zenon DEF Regular, Active
<1>2. MAX_WINDOWS \in Nat \ {0}  BY KwmAssumption, Zenon
<1>3. Cardinality(0 .. MAX_WINDOWS - 1) = MAX_WINDOWS  BY <1>2, FS_Interval
<1>4. IsFiniteSet(Regular(ws)) /\ Cardinality(Regular(ws)) <= Cardinality(Slots)
  BY <1>1, SlotsAreNotNone, FS_Subset, Zenon
<1>5. Cardinality(Regular(ws)) \in Nat  BY <1>4, FS_CardinalityType, Zenon
<1>. QED  BY <1>1, <1>2, <1>3, <1>4, <1>5 DEF Slots

LEMMA NormalizedOrder ==
  ASSUME NEW ws \in Tables, Apart(ws)
  PROVE  /\ Normalized(ws) \in Tables
         /\ Ordered(Normalized(ws), Cardinality(Regular(ws)) + 1)
         /\ Alike(ws, Normalized(ws), {})
         /\ \A i \in Slots : Normalized(ws)[i].owner = ws[i].owner
<1>. DEFINE R == Regular(ws)
            B(i) == {j \in R : Below(ws, j, i)}
            N == Normalized(ws)
<1>0. \A i \in Slots : ws[i].z \in Nat /\ ws[i].active \in BOOLEAN /\ ws[i].desktop \in BOOLEAN
  BY Zenon DEF Tables, Window
<1>1. IsFiniteSet(R) /\ R \subseteq Slots /\ Cardinality(R) \in Nat  BY RegularFinite
<1>2. \A i \in R : IsFiniteSet(B(i)) /\ Cardinality(B(i)) \in Nat /\ Cardinality(B(i)) < Cardinality(R)
  <2>. SUFFICES ASSUME NEW i \in R
       PROVE IsFiniteSet(B(i)) /\ Cardinality(B(i)) \in Nat /\ Cardinality(B(i)) < Cardinality(R)
    BY Zenon
  <2>0. i \in Nat /\ ws[i].z \in Nat  BY <1>0, <1>1, SlotsAreNotNone, Zenon
  <2>00. ~Below(ws, i, i)  BY <2>0 DEF Below
  <2>1. i \notin B(i)  BY <2>00, Zenon
  <2>2. B(i) \in SUBSET R /\ B(i) # R  BY <2>1, Zenon
  <2>. HIDE DEF B, R
  <2>3. IsFiniteSet(B(i)) /\ Cardinality(B(i)) <= Cardinality(R) /\ Cardinality(R) # Cardinality(B(i))
    BY <1>1, <2>2, FS_Subset, Zenon
  <2>4. Cardinality(B(i)) \in Nat  BY <2>3, FS_CardinalityType, Zenon
  <2>. QED  BY <1>1, <2>3, <2>4
<1>3. \A i, j \in R : ws[i].z < ws[j].z => Cardinality(B(i)) < Cardinality(B(j))
  <2>. SUFFICES ASSUME NEW i \in R, NEW j \in R, ws[i].z < ws[j].z
       PROVE Cardinality(B(i)) < Cardinality(B(j))
    BY Zenon
  <2>0. i \in Nat /\ ws[i].z \in Nat /\ ws[j].z \in Nat  BY <1>0, <1>1, SlotsAreNotNone, Zenon
  <2>00. ~Below(ws, i, i) /\ Below(ws, i, j)  BY <2>0 DEF Below
  <2>1. i \in B(j) /\ i \notin B(i)  BY <2>00, Zenon
  <2>2. B(i) \in SUBSET B(j)  BY <1>0, <1>1 DEF Below
  <2>3. IsFiniteSet(B(j)) /\ Cardinality(B(i)) \in Nat /\ Cardinality(B(j)) \in Nat  BY <1>2, Zenon
  <2>. HIDE DEF B, R
  <2>4. Cardinality(B(i)) <= Cardinality(B(j)) /\ Cardinality(B(j)) # Cardinality(B(i))
    BY <2>1, <2>2, <2>3, FS_Subset, Zenon
  <2>. QED  BY <2>3, <2>4
<1>4. \A i \in Slots : N[i] = IF i \in R THEN [ws[i] EXCEPT !.z = 1 + Cardinality(B(i))] ELSE ws[i]
  BY Zenon DEF Normalized
<1>40. \A i \in Slots : i \in R <=> ws[i].active /\ ~ws[i].desktop  BY Zenon DEF Regular, Active
<1>41. N = [i \in Slots |-> N[i]]  BY Zenon DEF Normalized
<1>. HIDE DEF B, R, N
<1>5. \A i \in R : /\ N[i].z = 1 + Cardinality(B(i)) /\ N[i].z \in Nat
                   /\ N[i].z >= 1 /\ N[i].z < Cardinality(R) + 1
  <2>. SUFFICES ASSUME NEW i \in R
       PROVE  N[i].z = 1 + Cardinality(B(i)) /\ N[i].z \in Nat /\ N[i].z >= 1 /\ N[i].z < Cardinality(R) + 1
    BY Zenon
  <2>1. N[i] = [ws[i] EXCEPT !.z = 1 + Cardinality(B(i))] /\ ws[i] \in Window
    BY <1>1, <1>4, Zenon DEF Tables
  <2>2. N[i].z = 1 + Cardinality(B(i))  BY <2>1, Zenon DEF Window
  <2>. QED  BY <1>1, <1>2, <2>2
<1>6. \A i \in Slots : SameWindow(ws[i], N[i]) /\ N[i].owner = ws[i].owner /\ N[i] \in Window
  <2>. SUFFICES ASSUME NEW i \in Slots
       PROVE SameWindow(ws[i], N[i]) /\ N[i].owner = ws[i].owner /\ N[i] \in Window
    BY Zenon
  <2>1. ws[i] \in Window  BY Zenon DEF Tables
  <2>2. CASE i \in R
    <3>1. N[i] = [ws[i] EXCEPT !.z = 1 + Cardinality(B(i))]  BY <1>4, <2>2, Zenon
    <3>2. 1 + Cardinality(B(i)) \in Nat  BY <1>5, <2>2, Zenon
    <3>. QED  BY <2>1, <3>1, <3>2, Zenon DEF Window, SameWindow
  <2>3. CASE i \notin R  BY <1>4, <2>1, <2>3, Zenon DEF SameWindow
  <2>. QED  BY <2>2, <2>3, Zenon
<1>7. N \in Tables  BY <1>41, <1>6, Zenon DEF Tables
<1>8. \A i, j \in Slots : ws[i].active /\ ws[j].active => (ws[i].z <= ws[j].z <=> N[i].z <= N[j].z)
  <2>. SUFFICES ASSUME NEW i \in Slots, NEW j \in Slots, ws[i].active, ws[j].active
       PROVE ws[i].z <= ws[j].z <=> N[i].z <= N[j].z
    BY Zenon
  <2>1. CASE i \in R /\ j \in R
    <3>1. ws[i].z = ws[j].z => i = j  BY <1>0, Zenon DEF Apart
    <3>2. \/ ws[i].z < ws[j].z /\ N[i].z < N[j].z
          \/ ws[j].z < ws[i].z /\ N[j].z < N[i].z
          \/ i = j
      BY <1>0, <1>2, <1>3, <1>5, <2>1, <3>1
    <3>. QED  BY <1>0, <1>5, <2>1, <3>2
  <2>2. CASE i \in R /\ j \notin R
    <3>1. ws[j].z = 0 /\ N[j].z = 0  BY <1>4, <1>40, <2>2, Zenon DEF Apart
    <3>2. ws[i].z >= 1 /\ N[i].z >= 1 /\ N[i].z \in Nat  BY <1>5, <1>40, <2>2, Zenon DEF Apart
    <3>. QED  BY <1>0, <3>1, <3>2
  <2>3. CASE i \notin R /\ j \in R
    <3>1. ws[i].z = 0 /\ N[i].z = 0  BY <1>4, <1>40, <2>3, Zenon DEF Apart
    <3>2. ws[j].z >= 1 /\ N[j].z >= 1 /\ N[j].z \in Nat  BY <1>5, <1>40, <2>3, Zenon DEF Apart
    <3>. QED  BY <1>0, <3>1, <3>2
  <2>4. CASE i \notin R /\ j \notin R
    BY <1>4, <2>4, Zenon
  <2>. QED  BY <2>1, <2>2, <2>3, <2>4, Zenon
<1>9. Ordered(N, Cardinality(R) + 1)
  <2>1. \A i \in Slots : N[i].active = ws[i].active /\ N[i].desktop = ws[i].desktop
    BY <1>6, Zenon DEF SameWindow
  <2>2. \A i \in Slots : i \notin R => N[i].z = ws[i].z  BY <1>4, Zenon
  <2>3. \A i \in Slots : N[i].z \in Nat  BY <1>7, Zenon DEF Tables, Window
  <2>4. \A i, j \in Slots : N[i].active /\ N[j].active /\ N[i].z = N[j].z => i = j
    <3>. SUFFICES ASSUME NEW i \in Slots, NEW j \in Slots, N[i].active, N[j].active, N[i].z = N[j].z
         PROVE i = j
      BY Zenon
    <3>1. ws[i].z <= ws[j].z /\ ws[j].z <= ws[i].z  BY <1>8, <2>1, <2>3
    <3>2. ws[i].z = ws[j].z  BY <1>0, <3>1
    <3>. QED  BY <2>1, <3>2, Zenon DEF Apart
  <2>5. \A i \in Slots : N[i].active /\ ~N[i].desktop => 1 <= N[i].z /\ N[i].z < Cardinality(R) + 1
    BY <1>5, <1>40, <2>1, Zenon
  <2>6. \A i \in Slots : N[i].active /\ N[i].desktop => N[i].z = 0
    BY <1>40, <2>1, <2>2, Zenon DEF Apart
  <2>7. \A i \in Slots : ~N[i].active => N[i].z = 0
    BY <1>40, <2>1, <2>2, Zenon DEF Apart
  <2>. QED  BY <2>4, <2>5, <2>6, <2>7, Zenon DEF Ordered
<1>10. Alike(ws, N, {})  BY <1>6, <1>8, Zenon DEF Alike
<1>. QED  BY <1>6, <1>7, <1>9, <1>10, Zenon DEF N, R

-----------------------------------------------------------------------------
(* What the operations do to the table *)

\* A window on top of the others, which stay as they are.
OnTop(ws, vs, i) ==
  /\ vs \in Tables /\ Alike(ws, vs, {i}) /\ SameWindow(ws[i], vs[i])
  /\ \A j \in Slots : vs[j].owner = ws[j].owner
  /\ FocusOnTop(vs, i)

\* The order is one of places, whatever else the windows hold.
LEMMA SameOrder ==
  ASSUME NEW ws, NEW vs, NEW n, Ordered(ws, n),
         \A j \in Slots : /\ vs[j].z = ws[j].z /\ vs[j].active = ws[j].active
                          /\ vs[j].desktop = ws[j].desktop /\ vs[j].owner = ws[j].owner
  PROVE  Ordered(vs, n)
BY Zenon DEF Ordered

LEMMA Lifted ==
  ASSUME NEW ws \in Tables, NEW n \in Nat \ {0}, Ordered(ws, n), NEW i, IsRegular(ws, i),
         NEW vs, vs = [ws EXCEPT ![i].z = n]
  PROVE  OnTop(ws, vs, i) /\ Ordered(vs, n + 1) /\ Apart(vs) /\ IsRegular(vs, i)
<1>0. i \in Slots /\ ws[i].active /\ ~ws[i].desktop  BY Zenon DEF IsRegular
<1>1. \A j \in Slots : ws[j] \in Window  BY Zenon DEF Tables
<1>2. \A j \in Slots \ {i} : vs[j] = ws[j]  BY Zenon DEF Tables
<1>3. vs[i] = [ws[i] EXCEPT !.z = n]  BY <1>0, Zenon DEF Tables
<1>4. SameWindow(ws[i], vs[i]) /\ vs[i].z = n /\ vs[i].owner = ws[i].owner /\ vs[i] \in Window
  <2>1. ws[i] \in Window /\ n \in Nat  BY <1>0, <1>1, Zenon
  <2>. QED  BY <1>3, <2>1 DEF Window, SameWindow
<1>5. vs \in Tables  BY <1>1, <1>2, <1>4, Zenon DEF Tables
<1>6. Alike(ws, vs, {i})  BY <1>2, Zenon DEF Alike, SameWindow
<1>7. \A j \in Slots : ws[j].z \in Nat /\ ws[j].active \in BOOLEAN /\ ws[j].desktop \in BOOLEAN
  BY <1>1, Zenon DEF Window
<1>8. vs[i].active /\ ~vs[i].desktop  BY <1>0, <1>4, Zenon DEF SameWindow
<1>9. \A j \in Slots \ {i} : vs[j].active => vs[j].z < n
  BY <1>2, <1>7 DEF Ordered
<1>10. Ordered(vs, n + 1)
  <2>1. \A j \in Slots : vs[j].active /\ ~vs[j].desktop => 1 <= vs[j].z /\ vs[j].z < n + 1
    BY <1>2, <1>4, <1>7, <1>9 DEF Ordered
  <2>2. \A j \in Slots : vs[j].active /\ vs[j].desktop => vs[j].z = 0
    BY <1>2, <1>8, Zenon DEF Ordered
  <2>3. \A j \in Slots : ~vs[j].active => vs[j].z = 0
    BY <1>2, <1>8, Zenon DEF Ordered
  <2>4. \A j, k \in Slots : vs[j].active /\ vs[k].active /\ vs[j].z = vs[k].z => j = k
    <3>. SUFFICES ASSUME NEW j \in Slots, NEW k \in Slots, vs[j].active, vs[k].active, vs[j].z = vs[k].z
         PROVE j = k
      BY Zenon
    <3>1. CASE j # i /\ k # i  BY <1>2, <3>1, Zenon DEF Ordered
    <3>2. j = i <=> k = i  BY <1>2, <1>4, <1>7, <1>9
    <3>. QED  BY <3>1, <3>2, Zenon
  <2>. QED  BY <2>1, <2>2, <2>3, <2>4, Zenon DEF Ordered
<1>11. Apart(vs)  BY <1>10, Zenon DEF Apart, Ordered
<1>12. FocusOnTop(vs, i)
  <2>1. \A j \in Slots : vs[j].active => vs[j].z <= vs[i].z  BY <1>2, <1>4, <1>7, <1>9
  <2>. QED  BY <1>0, <1>8, <2>1, Zenon DEF FocusOnTop, IsRegular
<1>13. \A j \in Slots : vs[j].owner = ws[j].owner  BY <1>2, <1>4, Zenon
<1>. QED  BY <1>0, <1>4, <1>5, <1>6, <1>8, <1>10, <1>11, <1>12, <1>13, Zenon DEF OnTop, IsRegular

\* Raise: the same with the renumbering.
LEMMA Raised ==
  ASSUME NEW ws \in Tables, NEW n \in Nat \ {0}, Ordered(ws, n), NEW i, IsRegular(ws, i),
         NEW up, up = [ws EXCEPT ![i].z = n],
         NEW vs, vs = Settled(up, n + 1), NEW m, m = NextAfter(up, n + 1)
  PROVE  OnTop(ws, vs, i) /\ Ordered(vs, m) /\ m \in 1 .. n + 1
<1>1. OnTop(ws, up, i) /\ Ordered(up, n + 1) /\ Apart(up)  BY Lifted, Zenon
<1>2. MAX_WINDOWS \in Nat  BY KwmAssumption, Zenon
<1>3. CASE ~(n + 1 > MAX_WINDOWS)
  BY <1>1, <1>3 DEF Settled, NextAfter
<1>4. CASE n + 1 > MAX_WINDOWS
  <2>1. vs = Normalized(up) /\ m = Cardinality(Regular(up)) + 1  BY <1>4, Zenon DEF Settled, NextAfter
  <2>2. up \in Tables  BY <1>1, Zenon DEF OnTop
  <2>3. /\ vs \in Tables /\ Ordered(vs, m) /\ Alike(up, vs, {})
        /\ \A j \in Slots : vs[j].owner = up[j].owner
    BY <1>1, <2>1, <2>2, NormalizedOrder, Zenon
  <2>4. m \in 1 .. n + 1
    <3>1. Cardinality(Regular(up)) \in 0 .. MAX_WINDOWS  BY RegularFinite, Zenon
    <3>. QED  BY <1>2, <1>4, <2>1, <3>1
  <2>5. \A j \in Slots : SameWindow(up[j], vs[j])  BY <2>3, Zenon DEF Alike
  <2>6. Alike(ws, vs, {i}) /\ SameWindow(ws[i], vs[i])
    <3>1. i \in Slots  BY Zenon DEF IsRegular
    <3>2. SameWindow(ws[i], vs[i])  BY <1>1, <2>5, <3>1, Zenon DEF OnTop, SameWindow
    <3>3. \A j \in Slots \ {i} : SameWindow(ws[j], vs[j])
      <4>. SUFFICES ASSUME NEW j \in Slots \ {i} PROVE SameWindow(ws[j], vs[j])
        BY Zenon
      <4>1. SameWindow(ws[j], up[j])  BY <1>1, Zenon DEF OnTop, Alike
      <4>2. SameWindow(up[j], vs[j])  BY <2>5, Zenon
      <4>. QED  BY <4>1, <4>2, Zenon DEF SameWindow
    <3>4. \A j, k \in Slots \ {i} : ws[j].active /\ ws[k].active =>
            (ws[j].z <= ws[k].z <=> vs[j].z <= vs[k].z)
      <4>. SUFFICES ASSUME NEW j \in Slots \ {i}, NEW k \in Slots \ {i}, ws[j].active, ws[k].active
           PROVE ws[j].z <= ws[k].z <=> vs[j].z <= vs[k].z
        BY Zenon
      <4>1. ws[j].z <= ws[k].z <=> up[j].z <= up[k].z  BY <1>1, Zenon DEF OnTop, Alike
      <4>2. up[j].active /\ up[k].active  BY <1>1, Zenon DEF OnTop, Alike, SameWindow
      <4>3. up[j].z <= up[k].z <=> vs[j].z <= vs[k].z  BY <2>3, <4>2, Zenon DEF Alike
      <4>. QED  BY <4>1, <4>3, Zenon
    <3>. QED  BY <3>2, <3>3, <3>4, Zenon DEF Alike
  <2>7. FocusOnTop(vs, i)
    <3>1. \A j \in Slots : IsRegular(vs, j) <=> IsRegular(up, j)
      <4>. SUFFICES ASSUME NEW j \in Slots PROVE IsRegular(vs, j) <=> IsRegular(up, j)
        BY Zenon
      <4>1. up[j].active = vs[j].active /\ up[j].desktop = vs[j].desktop  BY <2>5, Zenon DEF SameWindow
      <4>. QED  BY <4>1, Zenon DEF IsRegular
    <3>2. i \in Slots /\ i # None  BY SlotsAreNotNone, Zenon DEF IsRegular
    <3>3. \A j \in Slots : IsRegular(up, j) => up[j].z <= up[i].z /\ IsRegular(up, i)
      BY <1>1, <3>2, Zenon DEF OnTop, FocusOnTop
    <3>4. \A j \in Slots : IsRegular(up, j) => vs[j].z <= vs[i].z
      BY <2>3, <3>2, <3>3, Zenon DEF Alike, IsRegular
    <3>5. IsRegular(up, i)  BY <1>1, <3>2, Zenon DEF OnTop, FocusOnTop
    <3>. QED  BY <3>1, <3>2, <3>4, <3>5, Zenon DEF FocusOnTop
  <2>8. \A j \in Slots : vs[j].owner = ws[j].owner  BY <1>1, <2>3, Zenon DEF OnTop
  <2>. QED  BY <2>3, <2>4, <2>6, <2>7, <2>8, Zenon DEF OnTop
<1>. QED  BY <1>3, <1>4, Zenon

\* kwm_refocus_locked finds the top one.
LEMMA RefocusOnTop ==
  ASSUME NEW ws \in Tables, NEW n \in Nat, Ordered(ws, n)
  PROVE  FocusOnTop(ws, Refocus(ws)) /\ Refocus(ws) \in Slots \cup {None}
<1>. DEFINE R == Regular(ws)
<1>0. \A i \in Slots : ws[i].z \in Nat /\ (i \in R <=> IsRegular(ws, i))
  BY Zenon DEF Tables, Window, Regular, Active, IsRegular
<1>1. R \in SUBSET Slots  BY Zenon DEF Regular, Active
<1>2. Refocus(ws) = IF R = {} THEN None
                    ELSE CHOOSE i \in R : \A j \in R \ {i} :
                           ws[j].z < ws[i].z \/ (ws[j].z = ws[i].z /\ i < j)
  BY Zenon DEF Refocus
<1>. HIDE DEF R
<1>3. CASE R = {}  BY <1>2, <1>3, Zenon DEF FocusOnTop
<1>4. CASE R # {}
  <2>0. \A i \in R : ws[i].z <= n  BY <1>0, <1>1 DEF Ordered, IsRegular
  <2>1. PICK i \in R : \A j \in R : ws[j].z <= ws[i].z
    BY <1>1, <1>4, <2>0, HighestExists, Zenon
  <2>2. \A j \in R \ {i} : ws[j].z < ws[i].z \/ (ws[j].z = ws[i].z /\ i < j)
    BY <1>0, <1>1, <2>1 DEF Ordered, IsRegular
  <2>3. PICK t \in R : /\ t = Refocus(ws)
                       /\ \A j \in R \ {t} : ws[j].z < ws[t].z \/ (ws[j].z = ws[t].z /\ t < j)
    BY <1>2, <1>4, <2>2, Zenon
  <2>4. \A j \in R : ws[j].z <= ws[t].z  BY <1>0, <1>1, <2>3
  <2>. QED  BY <1>0, <1>1, <2>3, <2>4, Zenon DEF FocusOnTop
<1>. QED  BY <1>3, <1>4, Zenon

\* kwm_free_slot for the slots in S.
LEMMA FreedTable ==
  ASSUME NEW ws \in Tables, NEW n \in Nat, Ordered(ws, n), Owned(ws), NEW S,
         NEW vs, vs = [i \in Slots |-> IF i \in S THEN Free ELSE ws[i]]
  PROVE  /\ vs \in Tables /\ Ordered(vs, n) /\ Owned(vs) /\ Alike(ws, vs, S)
         /\ \A i \in Slots : vs[i].active => i \notin S /\ vs[i] = ws[i]
         /\ \A i \in Slots \ S : vs[i] = ws[i]
<1>0. Free \in Window /\ ~Free.active /\ Free.z = 0  BY DEF Free, Window
<1>1. \A i \in Slots : vs[i] = IF i \in S THEN Free ELSE ws[i]  BY Zenon
<1>2. vs \in Tables  BY <1>0, Zenon DEF Tables
<1>3. \A i \in Slots : vs[i].active => i \notin S /\ vs[i] = ws[i]  BY <1>0, <1>1, Zenon
<1>4. \A i \in Slots \ S : vs[i] = ws[i]  BY <1>1, Zenon
<1>5. Ordered(vs, n)
  <2>1. \A i \in Slots : ~vs[i].active => vs[i].z = 0  BY <1>0, <1>1, Zenon DEF Ordered
  <2>. QED  BY <1>3, <2>1, Zenon DEF Ordered
<1>6. Owned(vs)  BY <1>3, Zenon DEF Owned
<1>7. Alike(ws, vs, S)  BY <1>4, Zenon DEF Alike, SameWindow
<1>. QED  BY <1>2, <1>3, <1>4, <1>5, <1>6, <1>7, Zenon

-----------------------------------------------------------------------------
(* No visible change without a mark *)

\* One of the marks in P covers pixel p of the table ws.
Marked(P, ws, p) == \E m \in P : m = None \/ Shows(ws, p, m)

LEMMA RepaintIsMarked ==
  /\ RepaintComplete <=> (stale => dirty \/ taken \/ Marked(pending, win, pixel))
  /\ RepaintComplete' <=> (stale' => dirty' \/ taken' \/ Marked(pending', win', pixel'))
BY Zenon DEF RepaintComplete, Covers, Marked, Shows

\* A call that changes the windows in C and the focus, and marks both.
LEMMA Repainted ==
  ASSUME KInv, win' \in Tables, next_z_index' \in Nat, Ordered(win', next_z_index'),
         NEW C \in SUBSET Slots, Alike(win, win', C),
         pixel' = pixel, dirty' = dirty, taken' = taken,
         stale' = (stale \/ Look' # Look), pending \subseteq pending',
         Hidden(win, win', C, pixel) \/ Marked(pending', win', pixel),
         focused # focused' =>
           \A k \in Slots : k \in {focused, focused'} /\ Shows(win', pixel, k) => Marked(pending', win', pixel)
  PROVE  RepaintComplete'
<1>. SUFFICES ASSUME stale', ~dirty, ~taken, Hidden(win, win', C, pixel)
     PROVE Marked(pending', win', pixel)
  BY RepaintIsMarked, Zenon
<1>0. win \in Tables /\ next_z_index \in Nat /\ Ordered(win, next_z_index) /\ pending \subseteq Slots \cup {None}
  <2>1. MaxZ \in Nat  BY KwmAssumption, Zenon
  <2>. QED  BY <2>1 DEF KInv, Shape
<1>1. CASE stale
  <2>1. PICK m \in pending : m = None \/ Shows(win, pixel, m)
    BY <1>1, RepaintIsMarked, Zenon DEF KInv, Marked
  <2>2. CASE m = None  BY <2>2, Zenon DEF Marked
  <2>3. CASE m # None
    <3>1. m \in Slots \ C  BY <1>0, <2>1, <2>3, Zenon DEF Hidden
    <3>2. Shows(win', pixel, m)  BY <2>1, <2>3, <3>1, SameShows, Zenon
    <3>. QED  BY <3>2, Zenon DEF Marked
  <2>. QED  BY <2>2, <2>3, Zenon
<1>2. CASE Look' # Look
  <2>1. Look = LookOf(win, next_z_index, focused, pixel)
    BY Zenon DEF Look, TopAt, Drawn, LookOf, Top
  <2>2. Look' = LookOf(win', next_z_index', focused', pixel)
    <3>1. Look' = LookOf(win', next_z_index', focused', pixel')
      BY Zenon DEF Look, TopAt, Drawn, LookOf, Top
    <3>. QED  BY <3>1, SMTT(30)
  <2>. QED  BY <1>0, <1>2, <2>1, <2>2, LookCovered, SMTT(30)
<1>. QED  BY <1>1, <1>2, Zenon

\* What a call needs to do to keep the invariant.
LEMMA CallKeeps ==
  ASSUME KInv, Shape', Ordered(win', next_z_index'), Owned(win'), FocusOnTop(win', focused'),
         dragged' # None => IsRegular(win', dragged'), RepaintComplete'
  PROVE  KInv'
BY Zenon DEF KInv

\* A window comes to the top, with or without a renumbering.
LEMMA OnTopKeeps ==
  ASSUME KInv, NEW i, IsRegular(win, i), OnTop(win, win', i), Ordered(win', next_z_index')
  PROVE  /\ Owned(win') /\ FocusOnTop(win', i) /\ Alike(win, win', {i})
         /\ \A k \in Slots : IsRegular(win, k) => IsRegular(win', k)
         /\ \A k \in Slots, p \in Pixels : Shows(win, p, k) <=> Shows(win', p, k)
<1>1. i \in Slots  BY Zenon DEF IsRegular
<1>2. \A k \in Slots : SameWindow(win[k], win'[k])  BY Zenon DEF OnTop, Alike
<1>3. \A k \in Slots : win[k].active = win'[k].active /\ win[k].desktop = win'[k].desktop
  BY <1>2, Zenon DEF SameWindow
<1>4. \A k \in Slots : Frame(win[k]) = Frame(win'[k])  BY <1>2, SameFrame, Zenon
<1>5. \A k \in Slots, p \in Pixels : Shows(win, p, k) <=> Shows(win', p, k)
  BY <1>3, <1>4, Zenon DEF Shows
<1>6. Owned(win')  BY <1>3, Zenon DEF KInv, Owned, OnTop
<1>7. \A k \in Slots : IsRegular(win, k) => IsRegular(win', k)  BY <1>3, Zenon DEF IsRegular
<1>. QED  BY <1>5, <1>6, <1>7, Zenon DEF OnTop

\* Raise and BringToFront, with the marks of the two frames.
LEMMA RaiseRepaints ==
  ASSUME KInv, NEW i, IsRegular(win, i), OnTop(win, win', i),
         next_z_index' \in 1 .. MaxZ, Ordered(win', next_z_index'), focused' = i,
         UNCHANGED display, Issue(FrameMarks({i, focused}))
  PROVE  RepaintComplete' /\ pending' \subseteq Slots \cup {None} /\ stale' \in BOOLEAN
<1>1. i \in Slots /\ focused \in Slots \cup {None} /\ pixel \in Pixels /\ pending \subseteq Slots \cup {None}
  BY Zenon DEF IsRegular, KInv, Shape
<1>2. pending' = pending \cup ({i, focused} \ {None}) /\ stale' = (stale \/ Look' # Look)
  BY Zenon DEF Issue, FrameMarks
<1>3. pixel' = pixel /\ dirty' = dirty /\ taken' = taken  BY Zenon DEF display
<1>4. next_z_index' \in Nat  BY KwmAssumption
<1>5. Hidden(win, win', {i}, pixel) \/ Marked(pending', win', pixel)
  <2>1. i \in pending'  BY <1>1, <1>2, SlotsAreNotNone, Zenon
  <2>. QED  BY <1>1, <2>1, OnTopKeeps, Zenon DEF Hidden, Marked
<1>6. \A k \in Slots : k \in {focused, focused'} /\ Shows(win', pixel, k) => Marked(pending', win', pixel)
  BY <1>1, <1>2, SlotsAreNotNone, Zenon DEF Marked
<1>7. win' \in Tables /\ Alike(win, win', {i})  BY Zenon DEF OnTop
<1>8. RepaintComplete'
  BY <1>1, <1>2, <1>3, <1>4, <1>5, <1>6, <1>7, Repainted, Zenon
<1>. QED  BY <1>1, <1>2, <1>8, Zenon DEF KInv, Shape

-----------------------------------------------------------------------------
(* The system calls *)

\* The first free slot.
LEMMA FirstFree ==
  ASSUME NEW ws, Slots \ Active(ws) # {}
  PROVE  Min(Slots \ Active(ws)) \in Slots /\ ~ws[Min(Slots \ Active(ws))].active
<1>. DEFINE T == Slots \ Active(ws)
<1>1. T # {} /\ T \subseteq Nat  BY SlotsAreNotNone, Zenon
<1>2. PICK m \in T : \A k \in T : ~(<<k, m>> \in OpToRel(<, Nat))
  <2>. HIDE DEF T
  <2>. QED  BY <1>1, NatLessThanWellFounded, WFMin, Zenon
<1>3. \A k \in T : m <= k
  <2>. SUFFICES ASSUME NEW k \in T, k < m PROVE FALSE  BY <1>1
  <2>. QED  BY <1>1, <1>2, Zenon DEF OpToRel
<1>4. Min(T) \in T
  <2>. HIDE DEF T
  <2>. QED  BY <1>3, Zenon DEF Min
<1>. QED  BY <1>4, Zenon DEF Active

\* A new window in a slot that was free.
PlacedAt(ws, vs, i, w) ==
  /\ vs \in Tables /\ Alike(ws, vs, {i}) /\ Owned(vs) /\ vs[i] = w
  /\ \A j \in Slots \ {i} : vs[j] = ws[j]
  /\ \A p \in Pixels : ~Shows(ws, p, i)
LEMMA Placed ==
  ASSUME NEW ws \in Tables, NEW i \in Slots, ~ws[i].active, NEW w \in Window,
         NEW vs, vs = [ws EXCEPT ![i] = w], Owned(ws), w.owner \in Apps \cup Shells
  PROVE  PlacedAt(ws, vs, i, w)
<1>1. \A j \in Slots \ {i} : vs[j] = ws[j]  BY Zenon DEF Tables
<1>2. vs[i] = w /\ vs \in Tables  BY Zenon DEF Tables
<1>3. Alike(ws, vs, {i})  BY <1>1, Zenon DEF Alike, SameWindow
<1>4. Owned(vs)  BY <1>1, <1>2, SMTT(30) DEF Owned
<1>. QED  BY <1>1, <1>2, <1>3, <1>4, Zenon DEF Shows, PlacedAt

LEMMA CreateWindowKeeps ==
  ASSUME KInv, ~CreateAtLimit, NEW t \in Apps, NEW g \in Geometries, CreateWindow(t, g)
  PROVE  KInv'
<1>. DEFINE i == Min(Slots \ Active(win))
            w == [active |-> TRUE, x |-> g.x, y |-> g.y, w |-> g.w, h |-> g.h,
                  z |-> next_z_index, owner |-> t, desktop |-> FALSE]
<1>0. /\ win \in Tables /\ next_z_index \in 1 .. MaxZ /\ MaxZ \in Nat /\ MAX_WINDOWS \in Nat
      /\ Ordered(win, next_z_index) /\ Owned(win) /\ pixel \in Pixels
      /\ pending \subseteq Slots \cup {None} /\ focused \in Slots \cup {None}
  BY KwmAssumption, Zenon DEF KInv, Shape
<1>1. i \in Slots /\ ~win[i].active  BY FirstFree, Zenon DEF CreateWindow
<1>2. ~(next_z_index + 1 > MAX_WINDOWS) /\ next_z_index < MaxZ  BY <1>0 DEF CreateWindow
<1>3. /\ win' = [win EXCEPT ![i] = w] /\ next_z_index' = next_z_index + 1 /\ focused' = i
      /\ UNCHANGED <<dragged, drag_offset, alt_tab_active, display>>
      /\ Issue(FrameMarks({i, focused}))
  BY <1>2, Zenon DEF CreateWindow, Settled, NextAfter
<1>4. w \in Window /\ w.owner = t /\ w.active /\ ~w.desktop /\ w.z = next_z_index
  <2>1. g \in [x : Int, y : Int, w : Nat \ {0}, h : Nat \ {0}]  BY KwmAssumption, Zenon
  <2>. QED  BY <1>0, <2>1 DEF Window
<1>. HIDE DEF i, w
<1>5. /\ win' \in Tables /\ Alike(win, win', {i}) /\ Owned(win') /\ win'[i] = w
      /\ \A j \in Slots \ {i} : win'[j] = win[j]
      /\ ~Shows(win, pixel, i)
  <2>1. w.owner \in Apps \cup Shells  BY <1>4, Zenon
  <2>2. win' = [win EXCEPT ![i] = w]  BY <1>3, Zenon
  <2>3. PlacedAt(win, win', i, w)  BY <1>0, <1>1, <1>4, <2>1, <2>2, Placed, Zenon
  <2>. QED  BY <1>0, <2>3, Zenon DEF PlacedAt
<1>6. \A j \in Slots : win[j].z \in Nat /\ win[j].active \in BOOLEAN /\ win[j].desktop \in BOOLEAN
  BY <1>0, Zenon DEF Tables, Window
<1>7. \A j \in Slots \ {i} : win[j].active => win[j].z < next_z_index  BY <1>0, <1>6 DEF Ordered
<1>8. Ordered(win', next_z_index')
  <2>1. \A j \in Slots : win'[j].active /\ ~win'[j].desktop => 1 <= win'[j].z /\ win'[j].z < next_z_index'
    BY <1>0, <1>3, <1>4, <1>5, <1>6, <1>7, SMTT(30) DEF Ordered
  <2>2. \A j \in Slots : win'[j].active /\ win'[j].desktop => win'[j].z = 0
    BY <1>0, <1>4, <1>5, SMTT(30) DEF Ordered
  <2>3. \A j \in Slots : ~win'[j].active => win'[j].z = 0  BY <1>0, <1>4, <1>5, Zenon DEF Ordered
  <2>4. \A j, k \in Slots : win'[j].active /\ win'[k].active /\ win'[j].z = win'[k].z => j = k
    <3>. SUFFICES ASSUME NEW j \in Slots, NEW k \in Slots,
                         win'[j].active, win'[k].active, win'[j].z = win'[k].z
         PROVE j = k
      BY Zenon
    <3>1. CASE j # i /\ k # i  BY <1>0, <1>5, <3>1, SMTT(30) DEF Ordered
    <3>2. j = i <=> k = i  BY <1>0, <1>4, <1>5, <1>6, <1>7
    <3>. QED  BY <3>1, <3>2, Zenon
  <2>. QED  BY <2>1, <2>2, <2>3, <2>4, Zenon DEF Ordered
<1>9. FocusOnTop(win', focused')
  <2>1. \A j \in Slots : win'[j].active => win'[j].z <= win'[i].z
    BY <1>0, <1>4, <1>5, <1>6, <1>7
  <2>. QED  BY <1>1, <1>3, <1>4, <1>5, <2>1, SMTT(30) DEF FocusOnTop, IsRegular
<1>10. /\ pending' = pending \cup ({i, focused} \ {None}) /\ stale' = (stale \/ Look' # Look)
       /\ pixel' = pixel /\ dirty' = dirty /\ taken' = taken
  BY <1>3, Zenon DEF Issue, FrameMarks, display
<1>11. i \in pending'  BY <1>1, <1>10, SlotsAreNotNone, Zenon
<1>12. RepaintComplete'
  <2>1. Hidden(win, win', {i}, pixel) \/ Marked(pending', win', pixel)
    BY <1>5, <1>11, Zenon DEF Hidden, Marked
  <2>2. \A k \in Slots : k \in {focused, focused'} /\ Shows(win', pixel, k) => Marked(pending', win', pixel)
    BY <1>3, <1>10, <1>11, SlotsAreNotNone, Zenon DEF Marked
  <2>3. next_z_index' \in Nat  BY <1>0, <1>3
  <2>4. {i} \in SUBSET Slots /\ pending \subseteq pending'  BY <1>1, <1>10, Zenon
  <2>. QED  BY <1>5, <1>8, <1>10, <2>1, <2>2, <2>3, <2>4, Repainted, Zenon
<1>13. Shape'
  BY <1>0, <1>1, <1>2, <1>3, <1>5, <1>10 DEF KInv, Shape, display
<1>14. dragged' # None => IsRegular(win', dragged')
  BY <1>1, <1>3, <1>5, Zenon DEF KInv, IsRegular
<1>. QED  BY <1>5, <1>8, <1>9, <1>12, <1>13, <1>14, CallKeeps, SMTT(30)

LEMMA CreateDesktopKeeps ==
  ASSUME KInv, NEW t \in Shells, CreateDesktop(t)
  PROVE  KInv'
<1>. DEFINE i == Min(Slots \ Active(win))
            w == [active |-> TRUE, x |-> 0, y |-> 0, w |-> FbWidth, h |-> FbHeight,
                  z |-> 0, owner |-> t, desktop |-> TRUE]
<1>0. /\ win \in Tables /\ next_z_index \in 1 .. MaxZ /\ MaxZ \in Nat
      /\ Ordered(win, next_z_index) /\ Owned(win) /\ pixel \in Pixels
      /\ pending \subseteq Slots \cup {None} /\ focused \in Slots \cup {None}
  BY KwmAssumption, Zenon DEF KInv, Shape
<1>1. i \in Slots /\ ~win[i].active  BY FirstFree, Zenon DEF CreateDesktop
<1>3. /\ win' = [win EXCEPT ![i] = w]
      /\ UNCHANGED <<next_z_index, focused, dragged, drag_offset, alt_tab_active, display>>
      /\ Issue(AreaMark(Screen))
  BY Zenon DEF CreateDesktop
<1>4. w \in Window /\ w.owner = t /\ w.active /\ w.desktop /\ w.z = 0
  BY KwmAssumption DEF Window
<1>40. \A j \in Slots : win[j].active => ~win[j].desktop  BY Zenon DEF CreateDesktop, NoDesktop, Active
<1>. HIDE DEF i, w
<1>5. /\ win' \in Tables /\ Alike(win, win', {i}) /\ Owned(win') /\ win'[i] = w
      /\ \A j \in Slots \ {i} : win'[j] = win[j]
  <2>1. w.owner \in Apps \cup Shells  BY <1>4, Zenon
  <2>2. win' = [win EXCEPT ![i] = w]  BY <1>3, Zenon
  <2>3. PlacedAt(win, win', i, w)  BY <1>0, <1>1, <1>4, <2>1, <2>2, Placed, Zenon
  <2>. QED  BY <1>0, <2>3, Zenon DEF PlacedAt
<1>6. \A j \in Slots : win[j].z \in Nat /\ win[j].active \in BOOLEAN /\ win[j].desktop \in BOOLEAN
  BY <1>0, Zenon DEF Tables, Window
<1>8. Ordered(win', next_z_index')
  <2>1. \A j \in Slots : win'[j].active /\ ~win'[j].desktop => 1 <= win'[j].z /\ win'[j].z < next_z_index'
    BY <1>0, <1>3, <1>4, <1>5, Zenon DEF Ordered
  <2>2. \A j \in Slots : win'[j].active /\ win'[j].desktop => win'[j].z = 0
    BY <1>0, <1>4, <1>5, Zenon DEF Ordered
  <2>3. \A j \in Slots : ~win'[j].active => win'[j].z = 0  BY <1>0, <1>4, <1>5, Zenon DEF Ordered
  <2>4. \A j, k \in Slots : win'[j].active /\ win'[k].active /\ win'[j].z = win'[k].z => j = k
    <3>. SUFFICES ASSUME NEW j \in Slots, NEW k \in Slots,
                         win'[j].active, win'[k].active, win'[j].z = win'[k].z
         PROVE j = k
      BY Zenon
    <3>0. \A l \in Slots \ {i} : win'[l].active => win'[l].z >= 1
      BY <1>0, <1>5, <1>6, <1>40, Zenon DEF Ordered
    <3>1. CASE j # i /\ k # i  BY <1>0, <1>5, <3>1, SMTT(30) DEF Ordered
    <3>2. j = i <=> k = i  BY <1>4, <1>5, <3>0
    <3>. QED  BY <3>1, <3>2, Zenon
  <2>. QED  BY <2>1, <2>2, <2>3, <2>4, Zenon DEF Ordered
<1>81. \A j \in Slots : IsRegular(win', j) <=> IsRegular(win, j)
  BY <1>1, <1>4, <1>5, Zenon DEF IsRegular
<1>82. \A j \in Slots : IsRegular(win, j) => win'[j].z = win[j].z
  BY <1>1, <1>5, Zenon DEF IsRegular
<1>9. FocusOnTop(win', focused')
  BY <1>3, <1>81, <1>82, SMTT(30) DEF FocusOnTop, KInv, IsRegular
<1>10. /\ pending' = pending \cup {None} /\ stale' = (stale \/ Look' # Look)
       /\ pixel' = pixel /\ dirty' = dirty /\ taken' = taken
  BY <1>0, <1>3, KwmAssumption, Zenon DEF Issue, AreaMark, Screen, display
<1>12. RepaintComplete'  BY <1>10, RepaintIsMarked, Zenon DEF Marked
<1>13. Shape'
  BY <1>0, <1>3, <1>5, <1>10, Zenon DEF KInv, Shape, display
<1>14. dragged' # None => IsRegular(win', dragged')
  BY <1>3, <1>81, Zenon DEF KInv, IsRegular
<1>. QED  BY <1>5, <1>8, <1>9, <1>12, <1>13, <1>14, CallKeeps, Zenon

\* What the steps below need of the invariant.
LEMMA WindowInts ==
  ASSUME NEW w \in Window PROVE w.x \in Int /\ w.y \in Int /\ w.w \in Int /\ w.h \in Int
BY Zenon DEF Window

LEMMA Basics ==
  ASSUME KInv
  PROVE  /\ win \in Tables /\ next_z_index \in 1 .. MaxZ /\ next_z_index \in Nat \ {0} /\ MaxZ \in Nat
         /\ Ordered(win, next_z_index) /\ Owned(win) /\ pixel \in Pixels
         /\ pending \subseteq Slots \cup {None} /\ focused \in Slots \cup {None}
         /\ dragged \in Slots \cup {None}
         /\ FocusOnTop(win, focused) /\ (dragged # None => IsRegular(win, dragged))
BY KwmAssumption DEF KInv, Shape

LEMMA TopAtSeen ==
  ASSUME KInv, NEW p
  PROVE  Seen(win, p, TopAt(p))
<1>1. TopAt(p) = Top(win, next_z_index, p)  BY Zenon DEF TopAt, Drawn, Top
<1>. QED  BY <1>1, Basics, TopSeen, Zenon

LEMMA UpdateKeeps ==
  ASSUME KInv, NEW i \in Slots, UpdateWindow(i) \/ SetTitle(i)
  PROVE  KInv'
<1>1. UNCHANGED <<table, alt_tab_active, display>> /\ pending \subseteq pending' /\ pending' \subseteq Slots \cup {None}
  BY Basics, Zenon DEF UpdateWindow, SetTitle, AreaMark, FrameMarks
<1>2. stale' \in BOOLEAN /\ (stale' => stale \/ Marked(pending', win, pixel))
  <2>1. CASE UpdateWindow(i)
    BY <2>1, Zenon DEF UpdateWindow, AreaMark, Marked, KInv, Shape
  <2>2. CASE SetTitle(i)
    <3>1. stale' = (stale \/ (TopAt(pixel) = i /\ pixel \notin Content(win[i]))) /\ pending' = pending \cup ({i} \ {None})
      BY <2>2, Zenon DEF SetTitle, FrameMarks
    <3>2. TopAt(pixel) = i => Shows(win, pixel, i)  BY TopAtSeen, SlotsAreNotNone, Zenon DEF Seen
    <3>3. i \in pending'  BY <3>1, SlotsAreNotNone, Zenon
    <3>. QED  BY <3>1, <3>2, <3>3, Zenon DEF Marked, KInv, Shape
  <2>. QED  BY <2>1, <2>2, SMTT(30)
<1>3. RepaintComplete'
  BY <1>1, <1>2, RepaintIsMarked, Zenon DEF Marked, KInv, display, table
<1>. QED  BY <1>1, <1>2, <1>3, SMTT(30) DEF KInv, Shape, table, display

LEMMA ActivateKeeps ==
  ASSUME KInv, NEW i \in Slots, ActivateWindow(i)
  PROVE  KInv'
<1>. DEFINE up == [win EXCEPT ![i].z = next_z_index]
<1>1. /\ i \in Regular(win) /\ next_z_index < MaxZ
      /\ win' = Settled(up, next_z_index + 1) /\ next_z_index' = NextAfter(up, next_z_index + 1)
      /\ focused' = i /\ UNCHANGED <<dragged, drag_offset, alt_tab_active, display>>
      /\ Issue(FrameMarks({i, focused}))
  BY Zenon DEF ActivateWindow, Raise
<1>2. IsRegular(win, i)  BY <1>1, Zenon DEF Regular, Active, IsRegular
<1>. HIDE DEF up
<1>3. OnTop(win, win', i) /\ Ordered(win', next_z_index') /\ next_z_index' \in 1 .. next_z_index + 1
  BY <1>1, <1>2, Basics, Raised, Zenon DEF up
<1>4. next_z_index' \in 1 .. MaxZ  BY <1>1, <1>3, Basics
<1>5. RepaintComplete' /\ pending' \subseteq Slots \cup {None} /\ stale' \in BOOLEAN
  BY <1>1, <1>2, <1>3, <1>4, RaiseRepaints, Zenon
<1>6. Owned(win') /\ FocusOnTop(win', i) /\ \A k \in Slots : IsRegular(win, k) => IsRegular(win', k)
  BY <1>2, <1>3, OnTopKeeps, Zenon
<1>7. Shape'  BY <1>1, <1>3, <1>4, <1>5, Zenon DEF KInv, Shape, OnTop, display
<1>8. dragged' # None => IsRegular(win', dragged')  BY <1>1, <1>6, Basics, Zenon
<1>. QED  BY <1>1, <1>3, <1>5, <1>6, <1>7, <1>8, CallKeeps, Zenon

\* What the destruction of the windows in S leaves; f is the window that has the focus then.
LEMMA FreedKeeps ==
  ASSUME KInv, NEW S \in SUBSET Slots, win' = Freed(S), EndDrag(S),
         UNCHANGED <<next_z_index, drag_offset, alt_tab_active, display>>,
         \/ focused' = focused /\ focused \notin S
         \/ focused' = Refocus(Freed(S))
         \/ focused' = None
  PROVE  /\ win' \in Tables /\ Ordered(win', next_z_index') /\ Owned(win')
         /\ FocusOnTop(win', focused') /\ focused' \in Slots \cup {None}
         /\ dragged' \in Slots \cup {None} /\ (dragged' # None => IsRegular(win', dragged'))
         /\ Alike(win, win', S) /\ (\A i \in S : ~win'[i].active)
<1>0. win' = [i \in Slots |-> IF i \in S THEN Free ELSE win[i]]  BY SMTT(30) DEF Freed
<1>1. /\ win' \in Tables /\ Ordered(win', next_z_index) /\ Owned(win') /\ Alike(win, win', S)
      /\ \A i \in Slots : win'[i].active => i \notin S /\ win'[i] = win[i]
      /\ \A i \in Slots \ S : win'[i] = win[i]
  BY <1>0, Basics, FreedTable
<1>2. FocusOnTop(win', focused') /\ focused' \in Slots \cup {None}
  <2>1. CASE focused' = focused /\ focused \notin S
    <3>1. \A j \in Slots : IsRegular(win', j) => IsRegular(win, j) /\ win'[j] = win[j]
      BY <1>1, Zenon DEF IsRegular
    <3>2. focused # None => win'[focused] = win[focused]  BY <1>1, <2>1, Basics, SMTT(30)
    <3>. QED  BY <2>1, <3>1, <3>2, Basics, SMTT(30) DEF FocusOnTop, IsRegular
  <2>2. CASE focused' = Refocus(Freed(S))
    BY <1>1, <2>2, RefocusOnTop, Basics, SMTT(30)
  <2>3. CASE focused' = None  BY <2>3, SMTT(30) DEF FocusOnTop
  <2>. QED  BY <2>1, <2>2, <2>3, SMTT(30)
<1>3. dragged' \in Slots \cup {None} /\ (dragged' # None => IsRegular(win', dragged'))
  BY <1>1, Basics, Zenon DEF EndDrag, IsRegular
<1>. QED  BY <1>1, <1>2, <1>3, Zenon

LEMMA DestroyWindowKeeps ==
  ASSUME KInv, NEW i \in Slots, DestroyWindow(i)
  PROVE  KInv'
<1>. DEFINE area == Area(win[i].x, win[i].y, win[i].w, win[i].h + TITLEBAR_H)
<1>0. /\ win' = Freed({i}) /\ EndDrag({i}) /\ focused' = (IF focused = i THEN Refocus(Freed({i})) ELSE focused)
      /\ UNCHANGED <<next_z_index, drag_offset, alt_tab_active, display>>
      /\ Issue(AreaMark(area) \cup IF focused = i THEN FrameMarks({focused'}) ELSE {})
  BY Zenon DEF DestroyWindow
<1>1. Frame(win[i]) \subseteq area
  <2>1. win[i] \in Window /\ TITLEBAR_H \in Nat  BY Basics, KwmAssumption, Zenon DEF Tables
  <2>2. win[i].x \in Int /\ win[i].y \in Int /\ win[i].w \in Int /\ win[i].h \in Int
    BY <2>1, WindowInts, Zenon
  <2>. QED  BY <2>1, <2>2 DEF Frame, Titlebar, Area
<1>2. /\ win' \in Tables /\ Ordered(win', next_z_index') /\ Owned(win')
      /\ FocusOnTop(win', focused') /\ focused' \in Slots \cup {None}
      /\ dragged' \in Slots \cup {None} /\ (dragged' # None => IsRegular(win', dragged'))
      /\ Alike(win, win', {i}) /\ ~win'[i].active
  <2>1. \/ focused' = focused /\ focused \notin {i}
        \/ focused' = Refocus(Freed({i}))
    BY <1>0, Zenon
  <2>2. {i} \in SUBSET Slots  BY Zenon
  <2>. QED  BY <1>0, <2>1, <2>2, FreedKeeps, Zenon
<1>. HIDE DEF area
<1>3. /\ stale' = (stale \/ Look' # Look) /\ pixel' = pixel /\ dirty' = dirty /\ taken' = taken
      /\ pending' = pending \cup ((IF pixel \in area THEN {None} ELSE {})
                                    \cup (IF focused = i THEN {focused'} \ {None} ELSE {}))
  BY <1>0, Zenon DEF Issue, AreaMark, FrameMarks, display
<1>4. Hidden(win, win', {i}, pixel) \/ Marked(pending', win', pixel)
  <2>1. CASE pixel \in area  BY <1>3, <2>1, SMTT(30) DEF Marked
  <2>2. CASE pixel \notin area  BY <1>1, <1>2, <2>2, Zenon DEF Hidden, Shows
  <2>. QED  BY <2>1, <2>2, Zenon
<1>5. focused # focused' => \A k \in Slots :
        k \in {focused, focused'} /\ Shows(win', pixel, k) => Marked(pending', win', pixel)
  <2>. SUFFICES ASSUME focused # focused', NEW k \in Slots, k \in {focused, focused'}, Shows(win', pixel, k)
       PROVE Marked(pending', win', pixel)
    BY Zenon
  <2>1. focused = i /\ ~Shows(win', pixel, i)  BY <1>0, <1>2, Zenon DEF Shows
  <2>2. k = focused' /\ k # None  BY <2>1, SlotsAreNotNone, Zenon
  <2>3. k \in pending'  BY <1>3, <2>1, <2>2, SMTT(30)
  <2>. QED  BY <2>3, Zenon DEF Marked
<1>6. RepaintComplete'
  <2>1. next_z_index' \in Nat /\ {i} \in SUBSET Slots /\ pending \subseteq pending'  BY <1>0, <1>3, Basics, Zenon
  <2>. QED  BY <1>2, <1>3, <1>4, <1>5, <2>1, Repainted, SMTT(30)
<1>7. pending' \subseteq Slots \cup {None}  BY <1>2, <1>3, Basics, SMTT(30)
<1>8. Shape'  BY <1>0, <1>2, <1>3, <1>7, Zenon DEF KInv, Shape, display
<1>. QED  BY <1>2, <1>6, <1>8, CallKeeps, SMTT(30)

\* The two that mark the whole screen.
LEMMA DestroyManyKeeps ==
  ASSUME KInv, DestroyAllWindows \/ \E t \in Apps \cup Shells : DestroyWindowsOf(t)
  PROVE  KInv'
<1>1. PICK S \in SUBSET Slots :
        /\ win' = Freed(S) /\ EndDrag(S)
        /\ UNCHANGED <<next_z_index, drag_offset, alt_tab_active, display>>
        /\ \/ focused' = focused /\ focused \notin S
           \/ focused' = Refocus(Freed(S))
           \/ focused' = None
        /\ Issue(AreaMark(Screen))
  <2>1. CASE DestroyAllWindows  BY <2>1, Zenon DEF DestroyAllWindows
  <2>2. ASSUME NEW t \in Apps \cup Shells, DestroyWindowsOf(t)
        PROVE \E S \in SUBSET Slots :
                /\ win' = Freed(S) /\ EndDrag(S)
                /\ UNCHANGED <<next_z_index, drag_offset, alt_tab_active, display>>
                /\ \/ focused' = focused /\ focused \notin S
                   \/ focused' = Refocus(Freed(S))
                   \/ focused' = None
                /\ Issue(AreaMark(Screen))
    <3>. DEFINE mine == {i \in Active(win) : win[i].owner = t}
    <3>1. mine \in SUBSET Slots  BY Zenon DEF Active
    <3>2. /\ win' = Freed(mine) /\ EndDrag(mine)
          /\ UNCHANGED <<next_z_index, drag_offset, alt_tab_active, display>>
          /\ focused' = (IF focused \in mine THEN Refocus(Freed(mine)) ELSE focused)
          /\ Issue(AreaMark(Screen))
      BY <2>2, SMTT(30) DEF DestroyWindowsOf
    <3>. HIDE DEF mine
    <3>. QED  BY <3>1, <3>2, Zenon
  <2>. QED  BY <2>1, <2>2, Zenon
<1>2. /\ win' \in Tables /\ Ordered(win', next_z_index') /\ Owned(win')
      /\ FocusOnTop(win', focused') /\ focused' \in Slots \cup {None}
      /\ dragged' \in Slots \cup {None} /\ (dragged' # None => IsRegular(win', dragged'))
  BY <1>1, FreedKeeps, Zenon
<1>3. pending' = pending \cup {None} /\ stale' = (stale \/ Look' # Look) /\ pixel' = pixel
  BY <1>1, Basics, KwmAssumption, Zenon DEF Issue, AreaMark, Screen, display
<1>4. RepaintComplete'  BY <1>3, RepaintIsMarked, Zenon DEF Marked
<1>5. Shape'  BY <1>1, <1>2, <1>3, Zenon DEF KInv, Shape, display
<1>. QED  BY <1>2, <1>4, <1>5, CallKeeps, Zenon

-----------------------------------------------------------------------------
(* The mouse and the keyboard *)

LEMMA ClampInt ==
  ASSUME NEW at \in Int, NEW size \in Int, NEW limit \in Int
  PROVE  Clamp(at, size, limit) \in Int
BY DEF Clamp

LEMMA DragKeeps ==
  ASSUME KInv, NEW p \in Screen, DragMove(p)
  PROVE  KInv'
<1>. DEFINE w == win[dragged]
            moved == [w EXCEPT !.x = Clamp(p[1] - drag_offset[1], w.w, FbWidth),
                               !.y = Clamp(p[2] - drag_offset[2], w.h + TITLEBAR_H, FbHeight)]
<1>0. /\ dragged # None /\ win' = [win EXCEPT ![dragged] = moved]
      /\ UNCHANGED <<next_z_index, focused, dragged, drag_offset, alt_tab_active, display>>
      /\ Issue(AreaMark(Frame(w) \cup Frame(moved)))
  BY Zenon DEF DragMove
<1>1. PICK d \in Slots : d = dragged /\ IsRegular(win, d)  BY <1>0, Basics, Zenon
<1>2. w \in Window  BY <1>1, Basics, Zenon DEF Tables
<1>3. /\ moved \in Window /\ moved.z = w.z /\ moved.active = w.active
      /\ moved.desktop = w.desktop /\ moved.owner = w.owner
  <2>1. FbWidth \in Int /\ FbHeight \in Int /\ TITLEBAR_H \in Int  BY KwmAssumption
  <2>2. p[1] - drag_offset[1] \in Int /\ p[2] - drag_offset[2] \in Int
    <3>1. p[1] \in Int /\ p[2] \in Int  BY <2>1 DEF Screen
    <3>2. drag_offset[1] \in Int /\ drag_offset[2] \in Int  BY Zenon DEF KInv, Shape
    <3>. QED  BY <3>1, <3>2
  <2>3. w.w \in Int /\ w.h + TITLEBAR_H \in Int  BY <1>2, <2>1 DEF Window
  <2>4. /\ Clamp(p[1] - drag_offset[1], w.w, FbWidth) \in Int
        /\ Clamp(p[2] - drag_offset[2], w.h + TITLEBAR_H, FbHeight) \in Int
    BY <2>1, <2>2, <2>3, ClampInt, Zenon
  <2>. QED  BY <1>2, <2>4, Zenon DEF Window
<1>. HIDE DEF moved
<1>4. win'[d] = moved /\ \A j \in Slots \ {d} : win'[j] = win[j]
  BY <1>0, <1>1, Basics, Zenon DEF Tables
<1>5. win' \in Tables  BY <1>0, <1>1, <1>3, Basics, Zenon DEF Tables
<1>6. Alike(win, win', {d})  BY <1>4, Zenon DEF Alike, SameWindow
<1>7. \A j \in Slots : /\ win'[j].z = win[j].z /\ win'[j].active = win[j].active
                       /\ win'[j].desktop = win[j].desktop /\ win'[j].owner = win[j].owner
  BY <1>1, <1>3, <1>4, SMTT(30)
<1>8. Ordered(win', next_z_index')
  <2>1. Ordered(win, next_z_index)  BY Basics, Zenon
  <2>2. next_z_index' = next_z_index  BY <1>0, Zenon
  <2>3. Ordered(win', next_z_index)  BY <1>7, <2>1, SameOrder
  <2>. QED  BY <2>2, <2>3, Zenon
<1>9. Owned(win') /\ \A j \in Slots : IsRegular(win', j) <=> IsRegular(win, j)
  BY <1>7, Basics, Zenon DEF Owned, IsRegular
<1>10. FocusOnTop(win', focused')  BY <1>0, <1>7, <1>9, Basics, Zenon DEF FocusOnTop
<1>11. /\ stale' = (stale \/ Look' # Look) /\ pixel' = pixel /\ dirty' = dirty /\ taken' = taken
       /\ pending' = pending \cup (IF pixel \in Frame(w) \cup Frame(moved) THEN {None} ELSE {})
  BY <1>0, SMTT(30) DEF Issue, AreaMark, display
<1>12. Hidden(win, win', {d}, pixel) \/ Marked(pending', win', pixel)
  <2>1. CASE pixel \in Frame(w) \cup Frame(moved)  BY <1>11, <2>1, Zenon DEF Marked
  <2>2. CASE pixel \notin Frame(w) \cup Frame(moved)  BY <1>1, <1>4, <2>2, Zenon DEF Hidden, Shows
  <2>. QED  BY <2>1, <2>2, SMTT(30)
<1>13. RepaintComplete'
  <2>1. next_z_index' \in Nat /\ {d} \in SUBSET Slots /\ pending \subseteq pending' /\ focused' = focused
    BY <1>0, <1>11, Basics, Zenon
  <2>. QED  BY <1>5, <1>6, <1>8, <1>11, <1>12, <2>1, Repainted, SMTT(30)
<1>14. Shape'  BY <1>0, <1>5, <1>11, Zenon DEF KInv, Shape, display
<1>15. dragged' # None => IsRegular(win', dragged')  BY <1>0, <1>1, <1>9, Zenon
<1>. QED  BY <1>8, <1>9, <1>10, <1>13, <1>14, <1>15, CallKeeps, Zenon

LEMMA NobodyElse == \A C : Alike(win, win, C)
BY Zenon DEF Alike, SameWindow

\* Clicks that move no window: on the desktop, or on nothing.
LEMMA ClickAsideKeeps ==
  ASSUME KInv, NEW p \in Screen, ClickEmpty(p) \/ \E i \in Slots : ClickDesktop(p, i)
  PROVE  KInv'
<1>1. /\ UNCHANGED <<win, next_z_index, dragged, drag_offset, alt_tab_active, display>>
      /\ focused' \in {focused, None}
      /\ stale' = (stale \/ Look' # Look)
      /\ pending \subseteq pending' /\ pending' \subseteq Slots \cup {None}
      /\ focused # None => focused \in pending'
  BY Basics, SMTT(30) DEF ClickEmpty, ClickDesktop, Issue, FrameMarks, table
<1>2. RepaintComplete'
  <2>1. win' = win /\ next_z_index' = next_z_index /\ pixel' = pixel /\ dirty' = dirty /\ taken' = taken
    BY <1>1, Zenon DEF display
  <2>2. {} \in SUBSET Slots /\ Alike(win, win', {}) /\ Hidden(win, win', {}, pixel)
    BY <2>1, NobodyElse, Zenon DEF Hidden
  <2>3. \A k \in Slots : k \in {focused, focused'} /\ Shows(win', pixel, k) => Marked(pending', win', pixel)
    BY <1>1, SlotsAreNotNone, Zenon DEF Marked
  <2>4. win' \in Tables /\ next_z_index' \in Nat /\ Ordered(win', next_z_index')  BY <2>1, Basics, SMTT(30)
  <2>. QED  BY <1>1, <2>1, <2>2, <2>3, <2>4, Repainted, Zenon
<1>3. FocusOnTop(win', focused')  BY <1>1, Basics, Zenon DEF FocusOnTop
<1>4. Shape'
  BY <1>1, Zenon DEF KInv, Shape, display
<1>. QED  BY <1>1, <1>2, <1>3, <1>4, Basics, CallKeeps, Zenon

\* A click on a window that is not the desktop hits a regular window.
LEMMA ClickedIsRegular ==
  ASSUME KInv, NEW p, NEW i \in Slots, Click(p, i), ~win[i].desktop
  PROVE  IsRegular(win, i)
<1>1. Seen(win, p, i)  BY Basics, HitSeen, Zenon DEF Click
<1>. QED  BY <1>1, SlotsAreNotNone, Zenon DEF Seen, Shows, IsRegular

LEMMA ClickWindowKeeps ==
  ASSUME KInv, NEW p \in Screen, NEW i \in Slots, ClickWindow(p, i) \/ ClickClose(p, i)
  PROVE  KInv'
<1>0. IsRegular(win, i)  BY ClickedIsRegular, Zenon DEF ClickWindow, ClickClose
<1>1. /\ next_z_index < MaxZ /\ win' = [win EXCEPT ![i].z = next_z_index]
      /\ next_z_index' = next_z_index + 1 /\ focused' = i
      /\ UNCHANGED <<alt_tab_active, display>>
  BY Zenon DEF ClickWindow, ClickClose, BringToFront
<1>2. OnTop(win, win', i) /\ Ordered(win', next_z_index')
  BY <1>0, <1>1, Basics, Lifted, Zenon
<1>3. next_z_index' \in 1 .. MaxZ  BY <1>1, Basics
<1>4. /\ Owned(win') /\ FocusOnTop(win', i) /\ \A k \in Slots : IsRegular(win, k) => IsRegular(win', k)
      /\ \A k \in Slots, q \in Pixels : Shows(win, q, k) <=> Shows(win', q, k)
  BY <1>0, <1>2, OnTopKeeps, Zenon
<1>5. RepaintComplete' /\ pending' \subseteq Slots \cup {None} /\ stale' \in BOOLEAN
  <2>1. CASE ClickWindow(p, i)
    <3>1. Issue(FrameMarks({i, focused}))  BY <2>1, Zenon DEF ClickWindow
    <3>. QED  BY <1>0, <1>1, <1>2, <1>3, <3>1, RaiseRepaints, Zenon
  <2>2. CASE ClickClose(p, i)
    <3>1. UNCHANGED <<pending, stale, dirty, taken, pixel>>  BY <2>2, Zenon DEF ClickClose, display
    <3>2. Marked(pending, win, pixel) => Marked(pending', win', pixel')
      BY <1>4, <3>1, Basics, SMTT(30) DEF Marked
    <3>. QED  BY <3>1, <3>2, RepaintIsMarked, Zenon DEF KInv, Shape
  <2>. QED  BY <2>1, <2>2, Zenon
<1>6. dragged' \in {dragged, i} /\ drag_offset' \in Int \X Int
  <2>1. p[1] \in Int /\ p[2] \in Int  BY KwmAssumption DEF Screen
  <2>2. win[i].x \in Int /\ win[i].y \in Int  BY Basics, Zenon DEF Tables, Window
  <2>3. <<p[1] - win[i].x, p[2] - win[i].y>> \in Int \X Int /\ drag_offset \in Int \X Int
    BY <2>1, <2>2 DEF KInv, Shape
  <2>4. \/ dragged' = i /\ drag_offset' = <<p[1] - win[i].x, p[2] - win[i].y>>
        \/ dragged' = dragged /\ drag_offset' = drag_offset
    BY Zenon DEF ClickWindow, ClickClose
  <2>. QED  BY <2>3, <2>4, Zenon
<1>7. Shape'  BY <1>1, <1>2, <1>3, <1>5, <1>6, Zenon DEF KInv, Shape, OnTop, display
<1>8. dragged' # None => IsRegular(win', dragged')  BY <1>0, <1>4, <1>6, Basics, Zenon
<1>. QED  BY <1>1, <1>2, <1>4, <1>5, <1>7, <1>8, CallKeeps, SMTT(30)

\* kwm_cycle_focus_locked finds a regular window, or none.
LEMMA CycleFinds ==
  ASSUME KInv
  PROVE  CycleTarget = None \/ IsRegular(win, CycleTarget)
<1>1. ASSUME NEW S, S \subseteq Regular(win), S # {} PROVE IsRegular(win, Lowest(S))
  <2>0. S \in SUBSET Slots /\ \A j \in S : IsRegular(win, j) /\ win[j].z \in Nat
    BY <1>1, Basics, Zenon DEF Regular, Active, IsRegular, Tables, Window
  <2>1. PICK i \in S : \A j \in S : win[i].z <= win[j].z
    BY <1>1, <2>0, Basics, LowestExists, Zenon
  <2>2. \A j \in S \ {i} : Below(win, i, j)
    <3>. SUFFICES ASSUME NEW j \in S \ {i} PROVE Below(win, i, j)  BY Zenon
    <3>1. win[i].z # win[j].z  BY <2>0, Basics, Zenon DEF Ordered, IsRegular
    <3>2. win[i].z \in Nat /\ win[j].z \in Nat /\ win[i].z <= win[j].z  BY <2>0, <2>1, Zenon
    <3>. QED  BY <3>1, <3>2 DEF Below
  <2>3. Lowest(S) \in S  BY <2>1, <2>2, SMTT(30) DEF Lowest
  <2>. QED  BY <2>0, <2>3, Zenon
<1>2. CASE focused = None
  BY <1>2, Basics, RefocusOnTop, Zenon DEF CycleTarget, FocusOnTop
<1>3. CASE focused # None
  <2>. DEFINE seen == {i \in Regular(win) : win[i].z < next_z_index}
              above == {i \in seen : win[i].z > win[focused].z}
  <2>1. CycleTarget = IF above # {} THEN Lowest(above) ELSE IF seen # {} THEN Lowest(seen) ELSE None
    BY <1>3, Zenon DEF CycleTarget
  <2>2. above \subseteq Regular(win) /\ seen \subseteq Regular(win)  BY Zenon
  <2>. HIDE DEF above, seen
  <2>. QED  BY <1>1, <2>1, <2>2, Zenon
<1>. QED  BY <1>2, <1>3, Zenon

LEMMA AltTabKeeps ==
  ASSUME KInv, AltTab
  PROVE  KInv'
<1>0. /\ next_z_index < MaxZ /\ alt_tab_active' = TRUE
      /\ UNCHANGED <<dragged, drag_offset, display>> /\ Issue(FrameMarks({focused, focused'}))
  BY Zenon DEF AltTab
<1>1. CASE CycleTarget = None
  <2>1. /\ focused' = None /\ win' = win /\ next_z_index' = next_z_index
        /\ stale' = (stale \/ Look' # Look) /\ pixel' = pixel /\ dirty' = dirty /\ taken' = taken
        /\ pending' = pending \cup ({focused, None} \ {None})
    BY <1>0, <1>1, Zenon DEF AltTab, Issue, FrameMarks, display
  <2>2. RepaintComplete'
    <3>1. {} \in SUBSET Slots /\ Alike(win, win', {}) /\ Hidden(win, win', {}, pixel)
      BY <2>1, NobodyElse, Zenon DEF Hidden
    <3>2. \A k \in Slots : k \in {focused, focused'} /\ Shows(win', pixel, k) => Marked(pending', win', pixel)
      BY <2>1, SlotsAreNotNone, Zenon DEF Marked
    <3>3. win' \in Tables /\ next_z_index' \in Nat /\ Ordered(win', next_z_index') /\ pending \subseteq pending'
      BY <2>1, Basics, Zenon
    <3>. QED  BY <2>1, <3>1, <3>2, <3>3, Repainted, Zenon
  <2>3. FocusOnTop(win', focused')  BY <2>1, Zenon DEF FocusOnTop
  <2>4. Shape'  BY <1>0, <2>1, Zenon DEF KInv, Shape, display
  <2>. QED  BY <1>0, <2>1, <2>2, <2>3, <2>4, Basics, CallKeeps, Zenon
<1>2. CASE CycleTarget # None
  <2>. DEFINE i == CycleTarget
              up == [win EXCEPT ![i].z = next_z_index]
  <2>1. /\ win' = Settled(up, next_z_index + 1) /\ next_z_index' = NextAfter(up, next_z_index + 1)
        /\ focused' = i
    BY <1>2, Zenon DEF AltTab, Raise
  <2>2. IsRegular(win, i)  BY <1>2, CycleFinds, Zenon
  <2>. HIDE DEF i, up
  <2>3. OnTop(win, win', i) /\ Ordered(win', next_z_index') /\ next_z_index' \in 1 .. next_z_index + 1
    BY <2>1, <2>2, Basics, Raised, Zenon DEF up
  <2>4. next_z_index' \in 1 .. MaxZ  BY <1>0, <2>3, Basics
  <2>5. RepaintComplete' /\ pending' \subseteq Slots \cup {None} /\ stale' \in BOOLEAN
    <3>1. {focused, focused'} = {i, focused}  BY <2>1, Zenon
    <3>2. Issue(FrameMarks({i, focused}))  BY <1>0, <3>1, Zenon
    <3>. QED  BY <1>0, <2>1, <2>2, <2>3, <2>4, <3>2, RaiseRepaints, Zenon
  <2>6. Owned(win') /\ FocusOnTop(win', i) /\ \A k \in Slots : IsRegular(win, k) => IsRegular(win', k)
    BY <2>2, <2>3, OnTopKeeps, Zenon
  <2>7. Shape'  BY <1>0, <2>1, <2>2, <2>3, <2>4, <2>5, Zenon DEF KInv, Shape, OnTop, display, IsRegular
  <2>8. dragged' # None => IsRegular(win', dragged')  BY <1>0, <2>6, Basics, Zenon
  <2>. QED  BY <2>1, <2>3, <2>5, <2>6, <2>7, <2>8, CallKeeps, Zenon
<1>. QED  BY <1>1, <1>2, Zenon

-----------------------------------------------------------------------------
(* The compositor *)

LEMMA PaintKeeps ==
  ASSUME KInv, FlushTake \/ FlushPaint \/ MouseUp \/ AltRelease \/ \E m \in pending : MarkDirty(m)
  PROVE  KInv'
<1>1. CASE FlushTake  BY <1>1, Zenon DEF FlushTake, KInv, Shape, RepaintComplete, table, Covers
<1>2. CASE FlushPaint  BY <1>2, Zenon DEF FlushPaint, KInv, Shape, RepaintComplete, table
<1>3. CASE MouseUp
  BY <1>3, Zenon DEF MouseUp, KInv, Shape, RepaintComplete, display, Covers
<1>4. CASE AltRelease
  BY <1>4, Zenon DEF AltRelease, KInv, Shape, RepaintComplete, table, display, Covers
<1>5. ASSUME NEW m \in pending, MarkDirty(m) PROVE KInv'
  <2>1. /\ pending' = pending \ {m} /\ dirty' = (dirty \/ Covers(m))
        /\ UNCHANGED <<win, next_z_index, focused, dragged, drag_offset, alt_tab_active, pixel, taken, stale>>
    BY <1>5, Zenon DEF MarkDirty, table
  <2>2. Covers(m) <=> (m = None \/ Shows(win, pixel, m))  BY Zenon DEF Covers, Shows
  <2>3. RepaintComplete'
    BY <2>1, <2>2, RepaintIsMarked, Zenon DEF Marked, KInv
  <2>4. dirty' \in BOOLEAN  BY <2>1, <2>2, Zenon DEF Covers, KInv, Shape
  <2>. QED  BY <2>1, <2>3, <2>4, Zenon DEF KInv, Shape
<1>. QED  BY <1>1, <1>2, <1>3, <1>4, <1>5, SMTT(30)

-----------------------------------------------------------------------------
(* The theorems *)

LEMMA KInit == Init => KInv
<1>. SUFFICES ASSUME Init PROVE KInv  BY Zenon
<1>1. win = [i \in Slots |-> Free] /\ \A i \in Slots : win[i] = Free  BY Zenon DEF Init
<1>2. Free \in Window /\ ~Free.active /\ Free.z = 0  BY DEF Free, Window
<1>3. win \in Tables  BY <1>1, <1>2, Zenon DEF Tables
<1>4. Ordered(win, next_z_index) /\ Owned(win)  BY <1>1, <1>2, Zenon DEF Ordered, Owned
<1>5. Shape
  <2>1. MaxZ \in Nat \ {0}  BY KwmAssumption, Zenon
  <2>2. next_z_index \in 1 .. MaxZ  BY <2>1 DEF Init
  <2>3. drag_offset \in Int \X Int  BY DEF Init
  <2>. QED  BY <1>3, <2>2, <2>3, Zenon DEF Init, Shape
<1>. QED  BY <1>4, <1>5, Zenon DEF Init, KInv, FocusOnTop, RepaintComplete

LEMMA KNext ==
  ASSUME ~CreateAtLimit
  PROVE  KInv /\ [Next]_vars => KInv'
<1>. SUFFICES ASSUME KInv, [Next]_vars PROVE KInv'  BY Zenon
<1>1. CASE UNCHANGED vars
  BY <1>1, Zenon DEF vars, table, display, KInv, Shape, RepaintComplete, Covers
<1>2. CASE Next
  BY <1>2, CreateWindowKeeps, CreateDesktopKeeps, UpdateKeeps, ActivateKeeps, DestroyWindowKeeps,
     DestroyManyKeeps, DragKeeps, ClickAsideKeeps, ClickWindowKeeps, AltTabKeeps, PaintKeeps
  DEF Next
<1>. QED  BY <1>1, <1>2, Zenon

\* The invariant says what the properties of Kwm say.
LEMMA KInvSays == KInv => KwmSound /\ ClickHitsWhatIsSeen /\ RepaintComplete
<1>. SUFFICES ASSUME KInv PROVE KwmSound /\ ClickHitsWhatIsSeen /\ RepaintComplete  BY Zenon
<1>0. \A i \in Slots : win[i].z \in Nat /\ win[i].x \in Int /\ win[i].y \in Int
  BY Basics, SMTT(30) DEF Tables, Window
<1>1. TypeOK
  <2>1. \A i \in Slots : win[i].z \in 0 .. MaxZ
    <3>. SUFFICES ASSUME NEW i \in Slots PROVE win[i].z \in 0 .. MaxZ  BY Zenon
    <3>1. win[i].z = 0 \/ win[i].z < next_z_index  BY <1>0, Basics, SMTT(30) DEF Ordered
    <3>2. win[i].z \in Nat /\ next_z_index \in 1 .. MaxZ /\ MaxZ \in Nat  BY <1>0, Basics, KwmAssumption, Zenon DEF KInv, Shape
    <3>3. \A z \in Nat, n \in 1 .. MaxZ : (z = 0 \/ z < n) => z \in 0 .. MaxZ  BY ONLY KwmAssumption
    <3>. QED  BY <3>1, <3>2, <3>3, Zenon
  <2>. QED  BY <1>0, <2>1, Zenon DEF TypeOK, KInv, Shape, Owned
<1>2. NoDanglingSession
  BY Basics DEF NoDanglingSession, Regular, Active, FocusOnTop, IsRegular
<1>3. FocusIsTop
  <2>. SUFFICES ASSUME focused # None, NEW j \in Regular(win) \ {focused}
       PROVE Below(win, j, focused)
    BY SMTT(30) DEF FocusIsTop
  <2>1. IsRegular(win, j) /\ IsRegular(win, focused)
    BY Basics, SMTT(30) DEF Regular, Active, FocusOnTop, IsRegular
  <2>2. win[j].z <= win[focused].z  BY <2>1, Basics, SMTT(30) DEF FocusOnTop, IsRegular
  <2>3. win[j].z # win[focused].z  BY <2>1, Basics, Zenon DEF Ordered, IsRegular
  <2>. QED  BY <1>0, <2>1, <2>2, <2>3 DEF Below, IsRegular
<1>4. ClickHitsWhatIsSeen
  <2>. SUFFICES ASSUME NEW p \in Screen PROVE HitTest(win, p) = TopAt(p)
    BY Zenon DEF ClickHitsWhatIsSeen
  <2>1. Seen(win, p, TopAt(p))  BY TopAtSeen, Zenon
  <2>2. Seen(win, p, HitTest(win, p))  BY Basics, HitSeen, Zenon
  <2>. QED  BY <2>1, <2>2, Basics, SeenOnce, Zenon
<1>. QED  BY <1>1, <1>2, <1>3, <1>4, Zenon DEF KInv, KwmSound

\* kwm.c: whatever tasks create, destroy, raise, drag and click, the table stays
\* well formed, no session dangles and the focus is on the top window, for any number
\* of windows and tasks, as long as no window is created when z-indexes are renumbered.
THEOREM WindowsSound ==
  ASSUME ~CreateAtLimit
  PROVE  Spec => []KwmSound
BY KInit, KNext, KInvSays, PTL DEF Spec

\* kwm_hit_test_locked and composite_windows_in_rect agree at every pixel of any screen.
THEOREM ClicksHit ==
  ASSUME ~CreateAtLimit
  PROVE  Spec => []ClickHitsWhatIsSeen
BY KInit, KNext, KInvSays, PTL DEF Spec

\* kwm.c, compositor.c: no visible change is without a mark, for any pixel, however the
\* marks, made without the lock, interleave with other calls and with the compositor.
THEOREM NothingUnpainted ==
  ASSUME ~CreateAtLimit
  PROVE  Spec => []RepaintComplete
BY KInit, KNext, KInvSays, PTL DEF Spec

=============================================================================
