---------------------------- MODULE WindowsProofs ----------------------------
(***************************************************************************)
(* Proofs about Windows, for any number of windows, canvases and slots of  *)
(* an event queue.                                                         *)
(*                                                                         *)
(* Most steps apply several operations to the surface table one after      *)
(* another, so the properties are stated of a table and every operation    *)
(* is shown to keep them; between two operations the active window may be  *)
(* missing or minimized, which compose() repairs.                          *)
(***************************************************************************)
EXTENDS Windows, FiniteSetTheorems, WellFoundedInduction, TLAPS

\* The types, and room in every queue.
Table(d) == d \in Surfaces /\ \A w \in Window : Len(d.queue[w]) < QueueSlots

\* Each window in use has a canvas of its own, and the others are free.
Canvassed(d) ==
    /\ \A w \in Window : d.canvas[w] # NoCanvas <=> w \in d.used
    /\ \A v, w \in d.used : d.canvas[v] = d.canvas[w] => v = w
    /\ d.free = Canvas \ {d.canvas[w] : w \in d.used}

\* The windows in use are stacked in one order.
Stacked(d) ==
    /\ d.behind \subseteq d.used \X d.used
    /\ \A v, w \in d.used : v # w => (<<v, w>> \in d.behind <=> <<w, v>> \notin d.behind)
    /\ \A u, v, w \in d.used :
        <<u, v>> \in d.behind /\ <<v, w>> \in d.behind => <<u, w>> \in d.behind

\* The active window, if there is one, is in front and alone has the focus.
Fronted(d) ==
    d.active # NoWindow =>
        /\ d.active \in d.used
        /\ d.focused \cap d.used = {d.active}
        /\ \A v \in d.used \ {d.active} : <<v, d.active>> \in d.behind

\* What every operation keeps, also while the active window is missing.
Ordered(d) == Table(d) /\ Canvassed(d) /\ Stacked(d)
Sound(d) == Ordered(d) /\ Fronted(d)

\* The windows that follow the mouse.
Follows(d) == d.used \cap (d.dragging \cup d.resizing)

\* The sequence t continues s.
Begins(s, t) == Len(s) <= Len(t) /\ \A i \in 1 .. Len(s) : s[i] = t[i]

\* From d to e windows close, the others keep their canvas and get events.
Grown(d, e) ==
    /\ e.used \subseteq d.used
    /\ \A w \in e.used : e.canvas[w] = d.canvas[w] /\ Begins(d.queue[w], e.queue[w])

\* What an operation does to windows there are: nothing new follows the mouse.
Keeps(d, e) == Sound(e) /\ Grown(d, e) /\ Follows(e) \subseteq Follows(d)

\* Tables that differ in queues and in flags that do not concern the stack.
Same(d, e) ==
    /\ e.used = d.used /\ e.focused = d.focused /\ e.behind = d.behind
    /\ e.active = d.active /\ e.canvas = d.canvas /\ e.free = d.free

-----------------------------------------------------------------------------
(* Windows. *)

\* Windows are slots of a finite table, and no window is none of them.
LEMMA WindowsAreNumbers == Window \subseteq Nat /\ NoWindow \notin Window /\ IsFiniteSet(Window)
<1>1. IsFiniteSet(Window)
    BY MaxWindowsAssumption, FS_Interval DEF Window
<1> QED
    BY <1>1, MaxWindowsAssumption DEF Window, NoWindow

Below == {ss \in Nat \X Nat : ss[1] < ss[2]}

LEMMA LeastOne ==
    ASSUME NEW S \in SUBSET Nat, S # {}
    PROVE  \E m \in S : \A n \in S : m <= n
<1>1. IsWellFoundedOn(Below, Nat)
    BY NatLessThanWellFounded DEF OpToRel, Below
<1>2. PICK m \in S : \A n \in S : ~(<<n, m>> \in Below)
    BY <1>1, WFMin
<1>3. \A n \in S : n < m => <<n, m>> \in Below
    BY DEF Below
<1>4. \A n \in S : ~(n < m)
    BY <1>2, <1>3, Zenon
<1> QED
    BY <1>4

LEMMA LowestIn ==
    ASSUME NEW S \in SUBSET Window, S # {}
    PROVE  Lowest(S) \in S
<1>1. \E w \in S : \A v \in S : w <= v
    BY WindowsAreNumbers, LeastOne
<1> QED
    BY <1>1 DEF Lowest

\* Of windows that are stacked one is in front: the one with the fewest before it.
LEMMA FrontOne ==
    ASSUME NEW d, Stacked(d), NEW S \in SUBSET Window, S \subseteq d.used, S # {}
    PROVE  \E w \in S : \A v \in S \ {w} : <<v, w>> \in d.behind
<1> DEFINE before(w) == {v \in S \ {w} : <<w, v>> \in d.behind}
           Counts == {Cardinality(before(w)) : w \in S}
<1>1. ASSUME NEW w \in S PROVE IsFiniteSet(before(w)) /\ Cardinality(before(w)) \in Nat
  <2>1. before(w) \in SUBSET Window
    OBVIOUS
  <2> HIDE DEF before
  <2> QED
    BY <2>1, WindowsAreNumbers, FS_Subset, FS_CardinalityType
<1> HIDE DEF before
<1>2. Counts \in SUBSET Nat /\ Counts # {}
    BY <1>1
<1>3. PICK m \in Counts : \A n \in Counts : m <= n
    BY <1>2, LeastOne
<1>4. PICK w \in S : m = Cardinality(before(w))
    BY <1>3
<1>5. ASSUME NEW v \in S \ {w} PROVE <<v, w>> \in d.behind
  <2> SUFFICES ASSUME <<v, w>> \notin d.behind PROVE FALSE
    OBVIOUS
  <2>1. <<w, v>> \in d.behind
    BY DEF Stacked
  <2>2. before(v) \subseteq before(w) \ {v}
    BY <2>1 DEF Stacked, before
  <2>3. v \in before(w)
    BY <2>1 DEF before
  <2>4. before(v) \in SUBSET before(w) /\ before(v) # before(w)
    BY <2>2, <2>3
  <2>5. Cardinality(before(v)) <= Cardinality(before(w)) /\ Cardinality(before(w)) # Cardinality(before(v))
    BY <1>1, <2>4, FS_Subset
  <2>6. Cardinality(before(w)) <= Cardinality(before(v))
    BY <1>3, <1>4
  <2> QED
    BY <1>1, <2>5, <2>6
<1> QED
    BY <1>5

-----------------------------------------------------------------------------
(* Operations on a surface table. *)

LEMMA BeginsItself == \A s : Len(s) \in Int => Begins(s, s)
BY DEF Begins

LEMMA SameStack ==
    ASSUME NEW d, Sound(d), NEW e, Table(e), Same(d, e)
    PROVE  Sound(e)
<1>1. Canvassed(e)
    BY DEF Sound, Ordered, Same, Canvassed
<1>2. Stacked(e) /\ Fronted(e)
    BY DEF Sound, Ordered, Same, Stacked, Fronted
<1> QED
    BY <1>1, <1>2 DEF Sound, Ordered

LEMMA SameSound ==
    ASSUME NEW d, Sound(d), NEW e, Table(e), Same(d, e),
           \A w \in Window : Begins(d.queue[w], e.queue[w])
    PROVE  Sound(e) /\ Grown(d, e)
<1>1. e.used \subseteq Window
    BY DEF Table, Surfaces
<1> QED
    BY <1>1, SameStack DEF Grown, Same

LEMMA GrownOn ==
    ASSUME NEW d, NEW e, NEW f, Table(d), Table(e), Table(f), Grown(d, e), Grown(e, f)
    PROVE  Grown(d, f)
<1> SUFFICES ASSUME NEW w \in f.used PROVE f.canvas[w] = d.canvas[w] /\ Begins(d.queue[w], f.queue[w])
    BY DEF Grown
<1>1. w \in e.used /\ w \in d.used /\ w \in Window
    BY DEF Grown, Table, Surfaces
<1>2. Len(d.queue[w]) \in Nat /\ Len(e.queue[w]) \in Nat /\ Len(f.queue[w]) \in Nat
    BY <1>1 DEF Table, Surfaces
<1>3. Begins(d.queue[w], e.queue[w]) /\ Begins(e.queue[w], f.queue[w])
    BY <1>1 DEF Grown
<1>4. Begins(d.queue[w], f.queue[w])
    BY <1>2, <1>3 DEF Begins
<1> QED
    BY <1>1, <1>4 DEF Grown

LEMMA KeepsOn ==
    ASSUME NEW d, NEW e, NEW f, Table(d), Keeps(d, e), Keeps(e, f)
    PROVE  Keeps(d, f)
BY GrownOn DEF Keeps, Sound, Ordered

LEMMA KeepsItself == ASSUME NEW d, Sound(d) PROVE Keeps(d, d)
<1>1. \A w \in d.used : w \in Window /\ Begins(d.queue[w], d.queue[w])
    BY DEF Sound, Ordered, Table, Surfaces, Begins
<1> QED
    BY <1>1 DEF Keeps, Grown

\* Only flags change.
LEMMA FlagsSound ==
    ASSUME NEW d, Sound(d), NEW e, e \in Surfaces, Same(d, e), e.queue = d.queue
    PROVE  Sound(e) /\ Grown(d, e)
<1>1. \A w \in Window : Begins(d.queue[w], e.queue[w])
    BY DEF Surfaces, Begins
<1>2. Table(e)
    BY DEF Sound, Ordered, Table
<1> QED
    BY <1>1, <1>2, SameSound

\* Nothing but one queue changes, and that is not full before.
LEMMA Pushed ==
    ASSUME NEW d, Table(d), NEW w, NEW ev \in Event
    PROVE  LET e == surf_push_event(d, w, ev)
           IN  /\ Table(e) /\ Same(d, e) /\ e.minimized = d.minimized
               /\ e.dragging = d.dragging /\ e.resizing = d.resizing
               /\ \A v \in Window : Begins(d.queue[v], e.queue[v])
<1> DEFINE e == surf_push_event(d, w, ev)
<1>0. \A v \in Window : d.queue[v] \in Seq(Event) /\ Begins(d.queue[v], d.queue[v])
    BY DEF Table, Surfaces, Begins
<1>1. CASE w \notin d.used \/ Len(d.queue[w]) = QueueSlots - 1
  <2>1. e = d
    BY <1>1 DEF surf_push_event
  <2> QED
    BY <1>0, <2>1 DEF Same
<1>2. CASE ~(w \notin d.used \/ Len(d.queue[w]) = QueueSlots - 1)
  <2>1. w \in Window
    BY <1>2 DEF Table, Surfaces
  <2>2. e = [d EXCEPT !.queue = [d.queue EXCEPT ![w] = Append(d.queue[w], ev)]]
    BY <1>2 DEF surf_push_event
  <2> DEFINE q == [d.queue EXCEPT ![w] = Append(d.queue[w], ev)]
  <2>3. q \in [Window -> Seq(Event)]
    <3>1. d.queue \in [Window -> Seq(Event)] /\ Append(d.queue[w], ev) \in Seq(Event)
        BY <1>0, <2>1 DEF Table, Surfaces
    <3> QED
        BY <3>1
  <2>4. \A v \in Window : Begins(d.queue[v], q[v]) /\ Len(q[v]) < QueueSlots
    <3>1. q[w] = Append(d.queue[w], ev) /\ \A v \in Window \ {w} : q[v] = d.queue[v]
        BY <2>1 DEF Table, Surfaces
    <3>2. Len(d.queue[w]) < QueueSlots - 1 /\ Len(q[w]) = Len(d.queue[w]) + 1
        BY <1>0, <1>2, <2>1, <3>1, QueueSlotsAssumption DEF Table
    <3>3. Begins(d.queue[w], q[w]) /\ Len(q[w]) < QueueSlots
        BY <1>0, <2>1, <3>1, <3>2, QueueSlotsAssumption DEF Begins
    <3> QED
        BY <1>0, <3>1, <3>3 DEF Table
  <2> HIDE DEF q
  <2>5. e \in Surfaces /\ e.queue = q
    BY <2>2, <2>3 DEF Table, Surfaces, q
  <2>6. /\ Same(d, e) /\ e.minimized = d.minimized
        /\ e.dragging = d.dragging /\ e.resizing = d.resizing
    BY <2>2 DEF Same, Table, Surfaces
  <2> QED
    BY <2>4, <2>5, <2>6 DEF Table
<1> QED
    BY <1>1, <1>2

LEMMA PushSound ==
    ASSUME NEW d, Sound(d), NEW w, NEW ev \in Event
    PROVE  LET e == surf_push_event(d, w, ev)
           IN  Keeps(d, e) /\ e.minimized = d.minimized /\ Same(d, e)
BY Pushed, SameSound DEF Sound, Ordered, Keeps, Follows, Same

\* The window that gets the focus comes to the front of the others, which keep
\* their order.
LEMMA FocusSound ==
    ASSUME NEW d, Ordered(d), NEW w \in d.used
    PROVE  LET e == surf_focus(d, w)
           IN  /\ Keeps(d, e)
               /\ e.used = d.used /\ e.minimized = d.minimized /\ e.active = w
<1> DEFINE e == surf_focus(d, w)
           order == {p \in d.behind : p[1] # w} \cup ((d.used \ {w}) \X {w})
<1>0. d \in Surfaces /\ w \in Window /\ d.used \subseteq Window /\ d.behind \subseteq d.used \X d.used
    BY DEF Ordered, Table, Surfaces, Stacked
<1>1. order \subseteq d.used \X d.used /\ order \in SUBSET (Window \X Window)
    BY <1>0
<1>2. \A u, v \in d.used : <<u, v>> \in order <=> u # w /\ (v = w \/ <<u, v>> \in d.behind)
    BY <1>0
<1> HIDE DEF order
<1>3. e = [d EXCEPT !.focused = {w}, !.active = w, !.behind = order]
    BY DEF surf_focus, order
<1>4. /\ e \in Surfaces /\ e.used = d.used /\ e.minimized = d.minimized /\ e.active = w
      /\ e.focused = {w} /\ e.behind = order /\ e.canvas = d.canvas /\ e.queue = d.queue
      /\ e.free = d.free /\ e.dragging = d.dragging /\ e.resizing = d.resizing
  <2>1. {w} \in SUBSET Window
    BY <1>0
  <2> QED
    BY <1>0, <1>1, <1>3, <2>1 DEF Surfaces
<1> HIDE DEF e
<1>5. Table(e) /\ Canvassed(e)
    BY <1>4 DEF Ordered, Table, Canvassed
<1>6. Stacked(e)
  <2>1. \A u, v \in d.used : u # v => (<<u, v>> \in order <=> <<v, u>> \notin order)
    BY <1>2 DEF Ordered, Stacked
  <2>2. \A t, u, v \in d.used : <<t, u>> \in order /\ <<u, v>> \in order => <<t, v>> \in order
    BY <1>2 DEF Ordered, Stacked
  <2> QED
    BY <1>1, <1>4, <2>1, <2>2 DEF Stacked
<1>7. Fronted(e)
    BY <1>2, <1>4 DEF Fronted
<1>8. Grown(d, e)
  <2>1. \A v \in Window : Begins(d.queue[v], d.queue[v])
    BY <1>0 DEF Begins, Surfaces
  <2> QED
    BY <1>0, <1>4, <2>1 DEF Grown
<1>9. Follows(e) = Follows(d)
    BY <1>4 DEF Follows
<1> QED
    BY <1>4, <1>5, <1>6, <1>7, <1>8, <1>9 DEF Sound, Ordered, Keeps, e

\* A window that goes gives back its canvas; who is behind whom among the others
\* stays.
LEMMA ReleaseOrdered ==
    ASSUME NEW d, Ordered(d), NEW w \in d.used
    PROVE  LET e == Release(d, w)
           IN  /\ Ordered(e) /\ Grown(d, e) /\ Follows(e) \subseteq Follows(d)
               /\ e.used = d.used \ {w} /\ e.active = d.active /\ e.focused = d.focused
               /\ e.minimized = d.minimized
<1> DEFINE e == Release(d, w)
           order == {p \in d.behind : p[1] # w /\ p[2] # w}
           cs == [d.canvas EXCEPT ![w] = NoCanvas]
<1>0. /\ d \in Surfaces /\ w \in Window /\ d.used \subseteq Window
      /\ d.behind \subseteq d.used \X d.used /\ d.canvas \in [Window -> Canvas \cup {NoCanvas}]
    BY DEF Ordered, Table, Surfaces, Stacked
<1>1. order \subseteq (d.used \ {w}) \X (d.used \ {w}) /\ order \in SUBSET (Window \X Window)
    BY <1>0
<1>2. \A u, v \in d.used \ {w} : <<u, v>> \in order <=> <<u, v>> \in d.behind
    OBVIOUS
<1>3. /\ cs \in [Window -> Canvas \cup {NoCanvas}] /\ cs[w] = NoCanvas
      /\ \A v \in Window \ {w} : cs[v] = d.canvas[v]
    BY <1>0
<1>4. d.canvas[w] \in Canvas
    BY <1>0 DEF Ordered, Canvassed
<1> HIDE DEF order, cs
<1>5. e = [d EXCEPT !.used = d.used \ {w}, !.free = d.free \cup {d.canvas[w]},
                    !.canvas = cs, !.behind = order]
    BY DEF Release, order, cs
<1>6. /\ e \in Surfaces /\ e.used = d.used \ {w} /\ e.free = d.free \cup {d.canvas[w]}
      /\ e.canvas = cs /\ e.behind = order /\ e.queue = d.queue /\ e.active = d.active
      /\ e.focused = d.focused /\ e.minimized = d.minimized
      /\ e.dragging = d.dragging /\ e.resizing = d.resizing
  <2>1. d.used \ {w} \in SUBSET Window /\ d.free \cup {d.canvas[w]} \in SUBSET Canvas
    BY <1>0, <1>4 DEF Surfaces
  <2> QED
    BY <1>0, <1>1, <1>3, <1>5, <2>1 DEF Surfaces
<1> HIDE DEF e
<1>7. Table(e)
    BY <1>6 DEF Ordered, Table
<1>8. Canvassed(e)
  <2>1. \A v \in Window : e.canvas[v] # NoCanvas <=> v \in e.used
    BY <1>0, <1>3, <1>6 DEF Ordered, Canvassed
  <2>2. \A u, v \in e.used : e.canvas[u] = e.canvas[v] => u = v
    BY <1>0, <1>3, <1>6 DEF Ordered, Canvassed
  <2>3. e.free = Canvas \ {e.canvas[v] : v \in e.used}
    <3>1. d.free = Canvas \ {d.canvas[v] : v \in d.used}
        BY DEF Ordered, Canvassed
    <3>2. \A v \in e.used : e.canvas[v] = d.canvas[v] /\ d.canvas[v] # d.canvas[w]
        BY <1>0, <1>3, <1>6 DEF Ordered, Canvassed
    <3> QED
        BY <1>4, <1>6, <3>1, <3>2
  <2> QED
    BY <2>1, <2>2, <2>3 DEF Canvassed
<1>9. Stacked(e)
    BY <1>1, <1>2, <1>6 DEF Ordered, Stacked
<1>10. Grown(d, e)
  <2>1. \A v \in Window : Begins(d.queue[v], d.queue[v])
    BY <1>0 DEF Begins, Surfaces
  <2> QED
    BY <1>0, <1>3, <1>6, <2>1 DEF Grown
<1>11. Follows(e) \subseteq Follows(d)
    BY <1>6 DEF Follows
<1> QED
    BY <1>6, <1>7, <1>8, <1>9, <1>10, <1>11 DEF Ordered, e

\* With no window active there is none to be in front.
LEMMA NobodyActive ==
    ASSUME NEW d, Ordered(d)
    PROVE  LET e == [d EXCEPT !.active = NoWindow]
           IN  /\ Keeps(d, e)
               /\ e.used = d.used /\ e.minimized = d.minimized /\ e.active = NoWindow
<1> DEFINE e == [d EXCEPT !.active = NoWindow]
<1>0. d \in Surfaces
    BY DEF Ordered, Table
<1>1. /\ e \in Surfaces /\ e.used = d.used /\ e.minimized = d.minimized /\ e.active = NoWindow
      /\ e.behind = d.behind /\ e.canvas = d.canvas /\ e.queue = d.queue
      /\ e.free = d.free /\ e.dragging = d.dragging /\ e.resizing = d.resizing
    BY <1>0 DEF Surfaces
<1> HIDE DEF e
<1>2. Ordered(e)
    BY <1>1 DEF Ordered, Table, Canvassed, Stacked
<1>3. Grown(d, e)
  <2>1. \A v \in Window : Begins(d.queue[v], d.queue[v])
    BY <1>0 DEF Begins, Surfaces
  <2>2. d.used \subseteq Window
    BY <1>0 DEF Surfaces
  <2> QED
    BY <1>1, <2>1, <2>2 DEF Grown
<1> QED
    BY <1>1, <1>2, <1>3 DEF Sound, Fronted, Keeps, Follows, e

LEMMA MinimizeSound ==
    ASSUME NEW d, Sound(d), NEW w \in Window
    PROVE  Keeps(d, [d EXCEPT !.minimized = @ \cup {w}])
<1> DEFINE e == [d EXCEPT !.minimized = @ \cup {w}]
<1>1. d \in Surfaces
    BY DEF Sound, Ordered, Table
<1>2. d.minimized \cup {w} \in SUBSET Window
    BY <1>1 DEF Surfaces
<1>3. /\ e \in Surfaces /\ Same(d, e) /\ e.queue = d.queue
      /\ e.dragging = d.dragging /\ e.resizing = d.resizing
    BY <1>1, <1>2 DEF Surfaces, Same
<1> HIDE DEF e
<1> QED
    BY <1>3, FlagsSound DEF Keeps, Follows, Same, e

LEMMA DragSound ==
    ASSUME NEW d, Sound(d), NEW w \in Window
    PROVE  LET e == [d EXCEPT !.dragging = @ \cup {w}]
           IN  Sound(e) /\ Grown(d, e) /\ Follows(e) \subseteq Follows(d) \cup {w}
<1> DEFINE e == [d EXCEPT !.dragging = @ \cup {w}]
<1>1. d \in Surfaces
    BY DEF Sound, Ordered, Table
<1>2. d.dragging \cup {w} \in SUBSET Window
    BY <1>1 DEF Surfaces
<1>3. /\ e \in Surfaces /\ Same(d, e) /\ e.queue = d.queue
      /\ e.dragging = d.dragging \cup {w} /\ e.resizing = d.resizing
    BY <1>1, <1>2 DEF Surfaces, Same
<1> HIDE DEF e
<1> QED
    BY <1>3, FlagsSound DEF Follows, Same, e

LEMMA ResizeSound ==
    ASSUME NEW d, Sound(d), NEW w \in Window
    PROVE  LET e == [d EXCEPT !.resizing = @ \cup {w}]
           IN  Sound(e) /\ Grown(d, e) /\ Follows(e) \subseteq Follows(d) \cup {w}
<1> DEFINE e == [d EXCEPT !.resizing = @ \cup {w}]
<1>1. d \in Surfaces
    BY DEF Sound, Ordered, Table
<1>2. d.resizing \cup {w} \in SUBSET Window
    BY <1>1 DEF Surfaces
<1>3. /\ e \in Surfaces /\ Same(d, e) /\ e.queue = d.queue
      /\ e.resizing = d.resizing \cup {w} /\ e.dragging = d.dragging
    BY <1>1, <1>2 DEF Surfaces, Same
<1> HIDE DEF e
<1> QED
    BY <1>3, FlagsSound DEF Follows, Same, e

LEMMA DropSound ==
    ASSUME NEW d, Sound(d)
    PROVE  Keeps(d, Dropped(d)) /\ Follows(Dropped(d)) = {}
<1> DEFINE e == Dropped(d)
<1>1. d \in Surfaces
    BY DEF Sound, Ordered, Table
<1>2. e = [d EXCEPT !.dragging = {}, !.resizing = {}]
    BY DEF Dropped
<1>3. /\ e \in Surfaces /\ Same(d, e) /\ e.queue = d.queue
      /\ e.resizing = {} /\ e.dragging = {}
    BY <1>1, <1>2 DEF Surfaces, Same
<1> HIDE DEF e
<1> QED
    BY <1>3, FlagsSound DEF Keeps, Follows, e

LEMMA MaximizeSound ==
    ASSUME NEW d, Sound(d), NEW w \in Window
    PROVE  Keeps(d, toggle_maximize(d, w))
<1> DEFINE m == IF w \in d.maximized THEN d.maximized \ {w} ELSE d.maximized \cup {w}
           e == [d EXCEPT !.maximized = m]
<1>1. d \in Surfaces
    BY DEF Sound, Ordered, Table
<1>2. m \in SUBSET Window
    BY <1>1 DEF Surfaces
<1>3. toggle_maximize(d, w) = surf_push_event(e, w, "RESIZE")
    BY DEF toggle_maximize
<1> HIDE DEF m
<1>4. /\ e \in Surfaces /\ Same(d, e) /\ e.queue = d.queue
      /\ e.dragging = d.dragging /\ e.resizing = d.resizing
    BY <1>1, <1>2 DEF Surfaces, Same
<1> HIDE DEF e
<1>5. Keeps(d, e)
    BY <1>4, FlagsSound DEF Keeps, Follows, Same
<1>6. Keeps(e, surf_push_event(e, w, "RESIZE"))
    BY <1>5, PushSound DEF Keeps, Event
<1> QED
    BY <1>3, <1>5, <1>6, KeepsOn DEF Sound, Ordered

\* The three ways to close windows.
LEMMA CloseButtonSound ==
    ASSUME NEW d, Sound(d), NEW w \in d.used
    PROVE  Keeps(d, CloseButton(d, w))
<1> DEFINE e == surf_push_event(d, w, "CLOSE")
           c == Release(e, w)
<1>1. Keeps(d, e) /\ w \in e.used /\ Table(d)
    BY PushSound DEF Event, Same, Sound, Ordered
<1>2. Ordered(c) /\ Grown(e, c) /\ Follows(c) \subseteq Follows(e)
    BY <1>1, ReleaseOrdered DEF Keeps, Sound
<1>3. CloseButton(d, w) = IF c.used = {} THEN [c EXCEPT !.active = NoWindow]
                          ELSE surf_focus(c, Lowest(c.used))
    BY DEF CloseButton
<1> HIDE DEF e, c
<1>4. Keeps(c, CloseButton(d, w))
  <2>1. CASE c.used = {}
    BY <1>2, <1>3, <2>1, NobodyActive
  <2>2. CASE ~(c.used = {})
    <3>1. Lowest(c.used) \in c.used
        BY <1>2, <2>2, LowestIn DEF Ordered, Table, Surfaces
    <3> QED
        BY <1>2, <1>3, <2>2, <3>1, FocusSound
  <2> QED
    BY <2>1, <2>2
<1>5. Grown(d, c) /\ Follows(c) \subseteq Follows(d)
    BY <1>1, <1>2, GrownOn DEF Keeps, Sound, Ordered
<1>6. Grown(d, CloseButton(d, w))
    BY <1>1, <1>2, <1>4, <1>5, GrownOn DEF Keeps, Sound, Ordered
<1> QED
    BY <1>4, <1>5, <1>6 DEF Keeps

LEMMA CloseActiveSound ==
    ASSUME NEW d, Sound(d)
    PROVE  Keeps(d, CloseActive(d))
<1>1. CASE d.active \notin Shown(d)
    BY <1>1, KeepsItself DEF CloseActive
<1>2. CASE ~(d.active \notin Shown(d))
  <2> DEFINE w == d.active
             p == surf_push_event(d, w, "CLOSE")
             r == Release(p, w)
             c == [r EXCEPT !.focused = @ \ {w}]
             front == CHOOSE v \in Window : surf_at(c, Window, v)
  <2>1. Keeps(d, p) /\ w \in p.used /\ Table(d)
    BY <1>2, PushSound DEF Event, Same, Sound, Ordered, Shown
  <2>2. Ordered(r) /\ Grown(p, r) /\ Follows(r) \subseteq Follows(p)
    BY <2>1, ReleaseOrdered DEF Keeps, Sound
  <2>3. CloseActive(d) = IF Shown(c) = {} THEN [c EXCEPT !.active = NoWindow]
                         ELSE surf_focus(c, front)
    BY <1>2 DEF CloseActive
  <2> HIDE DEF p, r, w
  <2>4. r \in Surfaces /\ r.focused \ {w} \in SUBSET Window
    BY <2>2 DEF Ordered, Table, Surfaces
  <2>5. /\ c \in Surfaces /\ c.used = r.used /\ c.behind = r.behind /\ c.canvas = r.canvas
        /\ c.free = r.free /\ c.queue = r.queue
        /\ c.dragging = r.dragging /\ c.resizing = r.resizing
    BY <2>4 DEF Surfaces
  <2> HIDE DEF c, front
  <2>6. Ordered(c)
    BY <2>2, <2>5 DEF Ordered, Table, Canvassed, Stacked
  <2>7. Grown(p, c) /\ Follows(c) \subseteq Follows(p)
    BY <2>2, <2>5 DEF Grown, Follows
  <2>8. Keeps(c, CloseActive(d))
    <3>1. CASE Shown(c) = {}
        BY <2>3, <2>6, <3>1, NobodyActive
    <3>2. CASE ~(Shown(c) = {})
      <4>1. Shown(c) \in SUBSET Window /\ Shown(c) \subseteq c.used
        BY <2>5 DEF Shown, Surfaces
      <4>2. \E v \in Shown(c) : \A u \in Shown(c) \ {v} : <<u, v>> \in c.behind
        BY <2>6, <3>2, <4>1, FrontOne DEF Ordered
      <4>3. \E v \in Window : surf_at(c, Window, v)
        BY <4>1, <4>2 DEF surf_at
      <4>4. surf_at(c, Window, front)
        BY <4>3 DEF front
      <4>5. front \in c.used
        BY <4>1, <4>4 DEF surf_at
      <4> QED
        BY <2>3, <2>6, <3>2, <4>5, FocusSound
    <3> QED
        BY <3>1, <3>2
  <2>9. Grown(d, c) /\ Follows(c) \subseteq Follows(d)
    BY <2>1, <2>6, <2>7, GrownOn DEF Keeps, Sound, Ordered
  <2>10. Grown(d, CloseActive(d))
    BY <2>1, <2>6, <2>8, <2>9, GrownOn DEF Keeps, Sound, Ordered
  <2> QED
    BY <2>8, <2>9, <2>10 DEF Keeps
<1> QED
    BY <1>1, <1>2

LEMMA CloseAllSound ==
    ASSUME NEW d, Sound(d)
    PROVE  Keeps(d, CloseAll(d))
<1> DEFINE q == [w \in Window |-> surf_push_event(d, w, "CLOSE").queue[w]]
           cs == [w \in Window |-> IF w \in d.used THEN NoCanvas ELSE d.canvas[w]]
           back == d.free \cup {d.canvas[w] : w \in d.used}
           e == [d EXCEPT !.used = {}, !.free = back, !.canvas = cs, !.queue = q,
                          !.behind = {}, !.active = NoWindow]
<1>0. Table(d) /\ d \in Surfaces
    BY DEF Sound, Ordered, Table
<1>1. CloseAll(d) = e
    BY DEF CloseAll
<1>2. \A w \in Window : surf_push_event(d, w, "CLOSE").queue \in [Window -> Seq(Event)]
                        /\ Len(surf_push_event(d, w, "CLOSE").queue[w]) < QueueSlots
    BY <1>0, Pushed DEF Event, Table, Surfaces
<1>3. q \in [Window -> Seq(Event)] /\ \A w \in Window : Len(q[w]) < QueueSlots
    BY <1>2
<1>4. cs \in [Window -> Canvas \cup {NoCanvas}] /\ \A w \in Window : cs[w] = NoCanvas
    BY <1>0 DEF Surfaces, Sound, Ordered, Canvassed
<1>5. back = Canvas
    BY <1>0 DEF Surfaces, Sound, Ordered, Canvassed
<1> HIDE DEF q, cs, back
<1>6. /\ e \in Surfaces /\ e.used = {} /\ e.free = Canvas /\ e.canvas = cs /\ e.queue = q
      /\ e.behind = {} /\ e.active = NoWindow
    BY <1>0, <1>3, <1>4, <1>5 DEF Surfaces
<1> HIDE DEF e
<1>7. Sound(e)
    BY <1>3, <1>4, <1>6 DEF Sound, Ordered, Table, Canvassed, Stacked, Fronted
<1> QED
    BY <1>1, <1>6, <1>7 DEF Keeps, Grown, Follows

\* compose() leaves no active window when none is shown, and only then.
LEMMA RepairedSound ==
    ASSUME NEW d, Sound(d)
    PROVE  LET e == Repaired(d)
           IN  Keeps(d, e) /\ (e.active = NoWindow <=> Shown(e) = {})
<1>1. CASE Shown(d) = {}
  <2>1. Repaired(d) = [d EXCEPT !.active = NoWindow]
    BY <1>1 DEF Repaired
  <2> QED
    BY <1>1, <2>1, NobodyActive DEF Sound, Shown
<1>2. CASE Shown(d) # {} /\ d.active = NoWindow
  <2>1. Repaired(d) = surf_focus(d, Lowest(Shown(d)))
    BY <1>2 DEF Repaired
  <2>2. Shown(d) \in SUBSET Window /\ Shown(d) \subseteq d.used
    BY DEF Shown, Sound, Ordered, Table, Surfaces
  <2>3. Lowest(Shown(d)) \in Shown(d)
    BY <1>2, <2>2, LowestIn
  <2> DEFINE w == Lowest(Shown(d))
             e == surf_focus(d, w)
  <2>4. w \in d.used /\ w # NoWindow /\ Ordered(d)
    BY <2>2, <2>3, WindowsAreNumbers DEF Sound
  <2> HIDE DEF w
  <2>5. Keeps(d, e) /\ e.used = d.used /\ e.minimized = d.minimized /\ e.active = w
    BY <2>4, FocusSound
  <2> HIDE DEF e
  <2>6. Shown(e) # {} /\ e.active # NoWindow
    BY <1>2, <2>4, <2>5 DEF Shown
  <2>7. Repaired(d) = e
    BY <2>1 DEF e, w
  <2> QED
    BY <2>5, <2>6, <2>7
<1>3. CASE Shown(d) # {} /\ d.active # NoWindow
  <2>1. Repaired(d) = d
    BY <1>3 DEF Repaired
  <2> QED
    BY <1>3, <2>1, KeepsItself
<1> QED
    BY <1>1, <1>2, <1>3

LEMMA DraggedSound ==
    ASSUME NEW d, Sound(d)
    PROVE  Keeps(d, Dragged(d))
<1> DEFINE q == [w \in Window |-> IF w \in d.resizing
                                  THEN surf_push_event(d, w, "RESIZE").queue[w] ELSE d.queue[w]]
           e == [d EXCEPT !.queue = q]
<1>0. Table(d) /\ d \in Surfaces
    BY DEF Sound, Ordered, Table
<1>1. Dragged(d) = e
    BY DEF Dragged
<1>2. \A w \in Window :
        /\ surf_push_event(d, w, "RESIZE").queue \in [Window -> Seq(Event)]
        /\ Len(surf_push_event(d, w, "RESIZE").queue[w]) < QueueSlots
        /\ Begins(d.queue[w], surf_push_event(d, w, "RESIZE").queue[w])
    BY <1>0, Pushed DEF Event, Table, Surfaces
<1>3. q \in [Window -> Seq(Event)] /\ \A w \in Window : Len(q[w]) < QueueSlots
    BY <1>0, <1>2 DEF Table, Surfaces
<1>4. \A w \in Window : Begins(d.queue[w], q[w])
  <2>1. \A w \in Window : Begins(d.queue[w], d.queue[w])
    BY <1>0 DEF Begins, Surfaces
  <2> QED
    BY <1>2, <2>1
<1> HIDE DEF q
<1>5. /\ e \in Surfaces /\ Same(d, e) /\ e.queue = q
      /\ e.dragging = d.dragging /\ e.resizing = d.resizing
    BY <1>0, <1>3 DEF Surfaces, Same
<1> HIDE DEF e
<1>6. Table(e)
    BY <1>3, <1>5 DEF Table
<1> QED
    BY <1>1, <1>4, <1>5, <1>6, SameSound DEF Keeps, Follows, Same

LEMMA MouseSentSound ==
    ASSUME NEW d, Sound(d), NEW under
    PROVE  Keeps(d, MouseSent(d, under))
<1>1. CASE Shown(d) \cap under # {}
    BY <1>1, PushSound DEF MouseSent, Event
<1>2. CASE Shown(d) \cap under = {}
    BY <1>2, NobodyActive, KeepsItself DEF MouseSent, Sound
<1> QED
    BY <1>1, <1>2

\* What a frame does when no press has ended it; the release of the button
\* drops whatever followed the mouse.
LEMMA TrackedSound ==
    ASSUME NEW d, Sound(d), NEW l, NEW moved, NEW under
    PROVE  /\ Keeps(d, Tracked(d, l, moved, under))
           /\ Released(l) => Follows(Tracked(d, l, moved, under)) = {}
<1> DEFINE g == IF l THEN Dragged(d) ELSE d
           p == IF Released(l) THEN Dropped(g) ELSE g
           t == Tracked(d, l, moved, under)
<1>1. Keeps(d, g)
    BY DraggedSound, KeepsItself
<1>2. Keeps(g, p) /\ (Released(l) => Follows(p) = {})
  <2>1. Sound(g)
    BY <1>1 DEF Keeps
  <2> HIDE DEF g
  <2> QED
    BY <2>1, DropSound, KeepsItself
<1>3. t = IF moved \/ l # left THEN MouseSent(p, under) ELSE p
    BY DEF Tracked
<1> HIDE DEF g, p, t
<1>4. Keeps(p, t)
    BY <1>2, <1>3, MouseSentSound, KeepsItself DEF Keeps
<1>5. Keeps(d, p)
    BY <1>1, <1>2, KeepsOn DEF Sound, Ordered
<1>6. Keeps(d, t)
    BY <1>4, <1>5, KeepsOn DEF Sound, Ordered
<1>7. Released(l) => Follows(t) = {}
    BY <1>2, <1>4 DEF Keeps
<1> QED
    BY <1>6, <1>7 DEF t

\* A press starts at most the one window that was pressed.
LEMMA PressedSound ==
    ASSUME NEW d, Sound(d), NEW w \in d.used, NEW part \in {"grip", "title", "content"}
    PROVE  LET e == Pressed(d, w, part)
           IN  Sound(e) /\ Grown(d, e) /\ Follows(e) \subseteq Follows(d) \cup {w}
<1> DEFINE f == surf_focus(d, w)
           e == Pressed(d, w, part)
<1>1. w \in Window /\ w # NoWindow /\ Table(d)
    BY WindowsAreNumbers DEF Sound, Ordered, Table, Surfaces
<1>2. Keeps(d, f)
    BY FocusSound DEF Sound
<1>3. e = CASE part = "grip" -> [f EXCEPT !.resizing = @ \cup {w}]
            [] part = "title" -> [f EXCEPT !.dragging = @ \cup {w}]
            [] part = "content" -> surf_push_event(f, w, "MOUSE")
    BY <1>1 DEF Pressed
<1> HIDE DEF f, e
<1>4. Sound(e) /\ Grown(f, e) /\ Follows(e) \subseteq Follows(f) \cup {w}
  <2>1. CASE part = "grip"
    BY <1>1, <1>2, <1>3, <2>1, ResizeSound DEF Keeps
  <2>2. CASE part = "title"
    BY <1>1, <1>2, <1>3, <2>2, DragSound DEF Keeps
  <2>3. CASE part = "content"
    <3>1. "MOUSE" \in Event
        BY DEF Event
    <3> QED
        BY <1>2, <1>3, <2>3, <3>1, PushSound DEF Keeps
  <2> QED
    BY <2>1, <2>2, <2>3
<1>5. Grown(d, e) /\ Follows(f) \subseteq Follows(d)
    BY <1>1, <1>2, <1>4, GrownOn DEF Keeps, Sound, Ordered
<1> QED
    BY <1>4, <1>5 DEF e

\* A new window is in front of the others and follows nothing, whatever the slot
\* it gets was used for.
LEMMA FreshSound ==
    ASSUME NEW d, Sound(d), NEW w \in Window \ d.used, NEW c \in d.free
    PROVE  LET e == surf_focus(Fresh(d, w, c), w)
           IN  /\ Sound(e) /\ Follows(e) \subseteq Follows(d)
               /\ e.used = d.used \cup {w} /\ e.active = w /\ w \notin e.minimized
               /\ e.canvas = [d.canvas EXCEPT ![w] = c]
               /\ e.queue = [d.queue EXCEPT ![w] = << >>]
<1> DEFINE g == Fresh(d, w, c)
           e == surf_focus(g, w)
           order == {p \in d.behind : p[1] # w} \cup (d.used \X {w})
           cs == [d.canvas EXCEPT ![w] = c]
           q == [d.queue EXCEPT ![w] = << >>]
<1>0. /\ d \in Surfaces /\ d.used \subseteq Window /\ d.behind \subseteq d.used \X d.used
      /\ d.canvas \in [Window -> Canvas \cup {NoCanvas}] /\ d.queue \in [Window -> Seq(Event)]
      /\ d.free \subseteq Canvas
    BY DEF Sound, Ordered, Table, Surfaces, Stacked
<1>1. /\ cs \in [Window -> Canvas \cup {NoCanvas}] /\ cs[w] = c
      /\ \A v \in Window \ {w} : cs[v] = d.canvas[v]
    BY <1>0
<1>2. /\ q \in [Window -> Seq(Event)] /\ q[w] = << >>
      /\ \A v \in Window \ {w} : q[v] = d.queue[v]
    BY <1>0
<1>3. /\ order \in SUBSET (Window \X Window)
      /\ order \subseteq (d.used \cup {w}) \X (d.used \cup {w})
    BY <1>0
<1>4. \A u, v \in d.used \cup {w} :
        <<u, v>> \in order <=> u # w /\ (v = w \/ <<u, v>> \in d.behind)
    BY <1>0
<1> HIDE DEF cs, q
<1>5. g = [d EXCEPT !.used = d.used \cup {w}, !.focused = d.focused \ {w},
              !.minimized = d.minimized \ {w}, !.maximized = d.maximized \ {w},
              !.dragging = d.dragging \ {w}, !.resizing = d.resizing \ {w},
              !.canvas = cs, !.free = d.free \ {c}, !.queue = q]
    BY DEF Fresh, cs, q
<1>6. e = [g EXCEPT !.focused = {w}, !.active = w,
              !.behind = {p \in g.behind : p[1] # w} \cup ((g.used \ {w}) \X {w})]
    BY DEF surf_focus
<1> HIDE DEF g
<1>7. /\ {w} \in SUBSET Window /\ d.used \cup {w} \in SUBSET Window
      /\ d.minimized \ {w} \in SUBSET Window /\ d.maximized \ {w} \in SUBSET Window
      /\ d.dragging \ {w} \in SUBSET Window /\ d.resizing \ {w} \in SUBSET Window
      /\ d.focused \ {w} \in SUBSET Window /\ d.free \ {c} \in SUBSET Canvas
    BY <1>0 DEF Surfaces
<1>8. /\ g \in Surfaces /\ g.used = d.used \cup {w} /\ g.minimized = d.minimized \ {w}
      /\ g.dragging = d.dragging \ {w} /\ g.resizing = d.resizing \ {w}
      /\ g.canvas = cs /\ g.free = d.free \ {c} /\ g.queue = q /\ g.behind = d.behind
    BY <1>0, <1>1, <1>2, <1>5, <1>7 DEF Surfaces
<1>9. {p \in g.behind : p[1] # w} \cup ((g.used \ {w}) \X {w}) = order
    BY <1>8
<1> HIDE DEF order
<1>10. e = [g EXCEPT !.focused = {w}, !.active = w, !.behind = order]
    BY <1>6, <1>9
<1> HIDE DEF e
<1>11. /\ e \in Surfaces /\ e.used = g.used /\ e.minimized = g.minimized /\ e.active = w
       /\ e.focused = {w} /\ e.behind = order /\ e.canvas = g.canvas /\ e.queue = g.queue
       /\ e.free = g.free /\ e.dragging = g.dragging /\ e.resizing = g.resizing
    BY <1>3, <1>7, <1>8, <1>10 DEF Surfaces
<1>12. Table(e)
    BY <1>2, <1>8, <1>11, QueueSlotsAssumption DEF Sound, Ordered, Table
<1>13. Canvassed(e)
  <2>1. c # NoCanvas
    BY <1>0, CanvasAssumption
  <2>2. \A v \in d.used : d.canvas[v] # c
    BY <1>0 DEF Sound, Ordered, Canvassed
  <2>3. \A v \in Window : e.canvas[v] # NoCanvas <=> v \in e.used
    BY <1>1, <1>8, <1>11, <2>1 DEF Sound, Ordered, Canvassed
  <2>4. \A u, v \in e.used : e.canvas[u] = e.canvas[v] => u = v
    BY <1>0, <1>1, <1>8, <1>11, <2>2 DEF Sound, Ordered, Canvassed
  <2>5. e.free = Canvas \ {e.canvas[v] : v \in e.used}
    <3>1. d.free = Canvas \ {d.canvas[v] : v \in d.used}
        BY DEF Sound, Ordered, Canvassed
    <3>2. \A v \in d.used : e.canvas[v] = d.canvas[v]
        BY <1>0, <1>1, <1>8, <1>11
    <3>3. e.canvas[w] = c
        BY <1>1, <1>8, <1>11
    <3>4. {e.canvas[v] : v \in e.used} = {d.canvas[v] : v \in d.used} \cup {c}
        BY <1>8, <1>11, <3>2, <3>3
    <3> QED
        BY <1>8, <1>11, <3>1, <3>4
  <2> QED
    BY <2>3, <2>4, <2>5 DEF Canvassed
<1>14. Stacked(e)
  <2>1. \A u, v \in d.used \cup {w} : u # v => (<<u, v>> \in order <=> <<v, u>> \notin order)
    BY <1>4 DEF Sound, Ordered, Stacked
  <2>2. \A t, u, v \in d.used \cup {w} :
            <<t, u>> \in order /\ <<u, v>> \in order => <<t, v>> \in order
    BY <1>4 DEF Sound, Ordered, Stacked
  <2> QED
    BY <1>3, <1>8, <1>11, <2>1, <2>2 DEF Stacked
<1>15. Fronted(e)
    BY <1>4, <1>8, <1>11 DEF Fronted
<1>16. Follows(e) \subseteq Follows(d)
    BY <1>8, <1>11 DEF Follows
<1> QED
    BY <1>8, <1>11, <1>12, <1>13, <1>14, <1>15, <1>16 DEF Sound, Ordered, e, g, cs, q

-----------------------------------------------------------------------------
(* Frames and calls. *)

\* With the button up, and no context menu to swallow the release, nothing
\* follows the mouse, and never more than one thing does.
Gestures ==
    /\ widget = TRUE => Follows(wm) = {}
    /\ \A v, w \in Follows(wm) : v = w
    /\ widget = TRUE \/ Follows(wm) # {} => left = TRUE \/ ctx = TRUE

Flags ==
    /\ about \in BOOLEAN /\ ctx \in BOOLEAN /\ widget \in BOOLEAN
    /\ left \in BOOLEAN /\ right \in BOOLEAN
    /\ menu \in Menu \cup {NoMenu}

\* compose() has looked at the table.
Active(d) == d.active = NoWindow <=> Shown(d) = {}

IInv == Sound(wm) /\ Active(wm) /\ Gestures /\ Flags

\* A frame that ends with table d.
LEMMA Composed ==
    ASSUME IInv, NEW d, NEW l, NEW r, Sound(d), Grown(wm, d), Compose(d, l, r)
    PROVE  /\ Sound(wm') /\ Active(wm') /\ Grown(wm, wm') /\ Follows(wm') \subseteq Follows(d)
           /\ left' = l /\ right' = r
<1>1. wm' = Repaired(d) /\ left' = l /\ right' = r
    BY DEF Compose
<1>2. Keeps(d, wm') /\ Active(wm')
    BY <1>1, RepairedSound DEF Active
<1>3. Grown(wm, wm')
    BY <1>2, GrownOn DEF IInv, Keeps, Sound, Ordered
<1> QED
    BY <1>1, <1>2, <1>3 DEF Keeps

\* What each frame and each call leaves, but for windows that are opened.
After == Sound(wm') /\ Active(wm') /\ Gestures' /\ Flags' /\ Grown(wm, wm')

\* While the button is down, or the context menu is open, whatever follows the
\* mouse may go on following it.
LEMMA FollowsOn ==
    ASSUME IInv, NEW l \in BOOLEAN, NEW r \in BOOLEAN,
           Sound(wm') /\ Active(wm') /\ Grown(wm, wm'), Follows(wm') \subseteq Follows(wm),
           left' = l, right' = r, widget' = widget,
           about' \in BOOLEAN, ctx' \in BOOLEAN, menu' \in Menu \cup {NoMenu},
           l = TRUE \/ ctx' = TRUE
    PROVE  After
<1>1. Gestures'
    BY DEF IInv, Gestures
<1>2. Flags'
    BY DEF IInv, Flags
<1> QED
    BY <1>1, <1>2 DEF After

\* A press starts at most one thing, because none followed the mouse before.
LEMMA NothingFollows ==
    ASSUME IInv, NEW l, NEW r, Proceeds(r), (l # TRUE /\ left # TRUE) \/ Clicked(l)
    PROVE  widget = FALSE /\ Follows(wm) = {}
<1>1. ctx # TRUE /\ left # TRUE
    BY DEF Proceeds, Clicked
<1> QED
    BY <1>1 DEF IInv, Gestures, Flags

LEMMA FirstFollows ==
    ASSUME IInv, NEW l \in BOOLEAN, NEW r \in BOOLEAN, NEW w,
           Proceeds(r), Clicked(l),
           Sound(wm') /\ Active(wm') /\ Grown(wm, wm'),
           Follows(wm') \subseteq Follows(wm) \cup {w},
           left' = l, right' = r, UNCHANGED screenVars
    PROVE  After
<1>1. widget = FALSE /\ Follows(wm) = {}
    BY NothingFollows
<1>2. l = TRUE
    BY DEF Clicked
<1>3. Gestures'
    BY <1>1, <1>2 DEF screenVars, Gestures
<1>4. Flags'
    BY DEF IInv, Flags, screenVars
<1> QED
    BY <1>3, <1>4 DEF After

LEMMA MenusStep ==
    ASSUME IInv, NEW l \in BOOLEAN, NEW r \in BOOLEAN,
           \/ about_click(l, r) \/ context_menu_open(l, r) \/ context_menu_idle(l, r)
           \/ context_menu_click(l, r) \/ menubar_click(l, r) \/ menu_click(l, r)
           \/ dock_click(l, r)
    PROVE  After
<1>0. Sound(wm) /\ Keeps(wm, wm) /\ Flags
    BY KeepsItself DEF IInv
<1>1. \E d : Keeps(wm, d) /\ Compose(d, l, r)
    BY <1>0, CloseActiveSound, CloseAllSound
       DEF about_click, context_menu_open, context_menu_idle, context_menu_click,
           menubar_click, menu_click, dock_click
<1>2. PICK d : Keeps(wm, d) /\ Compose(d, l, r)
    BY <1>1
<1>3. /\ Sound(wm') /\ Active(wm') /\ Grown(wm, wm')
      /\ Follows(wm') \subseteq Follows(wm) /\ left' = l /\ right' = r
    BY <1>2, Composed DEF Keeps
<1>4. widget' = widget
    BY DEF about_click, context_menu_open, context_menu_idle, context_menu_click,
           menubar_click, menu_click, dock_click, screenVars
<1>5. l = TRUE \/ ctx' = TRUE
  <2>1. CASE context_menu_idle(l, r)
    BY <1>0, <2>1 DEF context_menu_idle, screenVars, Flags
  <2>2. CASE context_menu_open(l, r)
    BY <2>2 DEF context_menu_open
  <2> QED
    BY <2>1, <2>2
       DEF about_click, context_menu_click, menubar_click, menu_click, dock_click, Clicked, Presses
<1>6. about' \in BOOLEAN /\ ctx' \in BOOLEAN /\ menu' \in Menu \cup {NoMenu}
    BY <1>0 DEF Flags, about_click, context_menu_open, context_menu_idle, context_menu_click,
           menubar_click, menu_click, dock_click, screenVars
<1> QED
    BY <1>3, <1>4, <1>5, <1>6, FollowsOn

LEMMA WidgetStep ==
    ASSUME IInv, NEW l \in BOOLEAN, NEW r \in BOOLEAN, widget_press(l, r)
    PROVE  After
<1>1. Sound(wm) /\ Keeps(wm, wm) /\ Flags
    BY KeepsItself DEF IInv
<1>2. /\ Proceeds(r) /\ Clicked(l) /\ Compose(wm, l, r)
      /\ widget' = TRUE /\ UNCHANGED <<about, ctx, menu>>
    BY DEF widget_press, Presses
<1>3. /\ Sound(wm') /\ Active(wm') /\ Grown(wm, wm')
      /\ Follows(wm') \subseteq Follows(wm) /\ left' = l /\ right' = r
    BY <1>1, <1>2, Composed DEF Keeps
<1>4. Follows(wm') = {} /\ l = TRUE
    BY <1>2, <1>3, NothingFollows DEF Clicked
<1>5. Gestures'
    BY <1>3, <1>4 DEF Gestures
<1>6. Flags'
    BY <1>1, <1>2, <1>3 DEF Flags
<1> QED
    BY <1>3, <1>5, <1>6 DEF After

LEMMA ButtonsStep ==
    ASSUME IInv, NEW l \in BOOLEAN, NEW r \in BOOLEAN, NEW under, NEW w \in Window,
           surf_at(wm, under, w),
           \/ press_close(l, r, w) \/ press_minimize(l, r, w)
           \/ press_green(l, r, w) \/ press_below_green(l, r, w)
    PROVE  After
<1> DEFINE f == surf_focus(wm, w)
<1>1. Sound(wm) /\ Ordered(wm) /\ Table(wm) /\ w \in wm.used
    BY DEF IInv, Sound, Ordered, surf_at, Shown
<1>2. Keeps(wm, f) /\ w \in f.used
    BY <1>1, FocusSound
<1>3. Proceeds(r) /\ Clicked(l) /\ UNCHANGED screenVars
    BY DEF press_close, press_minimize, press_green, press_below_green, Presses
<1>4. \E d : /\ Sound(d) /\ Grown(f, d) /\ Follows(d) \subseteq Follows(f) \cup {w}
             /\ Compose(d, l, r)
  <2> HIDE DEF f
  <2>1. CASE press_close(l, r, w)
    <3>1. Keeps(f, CloseButton(f, w))
        BY <1>2, CloseButtonSound DEF Keeps
    <3> QED
        BY <2>1, <3>1 DEF press_close, Keeps, f
  <2>2. CASE press_minimize(l, r, w)
    <3>1. Keeps(f, [f EXCEPT !.minimized = @ \cup {w}])
        BY <1>2, MinimizeSound DEF Keeps
    <3> QED
        BY <2>2, <3>1 DEF press_minimize, Keeps, f
  <2>3. CASE press_green(l, r, w)
    <3> DEFINE g == [f EXCEPT !.dragging = @ \cup {w}]
    <3>1. Sound(g) /\ Grown(f, g) /\ Follows(g) \subseteq Follows(f) \cup {w}
        BY <1>2, DragSound DEF Keeps
    <3>2. Compose(toggle_maximize(g, w), l, r)
        BY <2>3 DEF press_green, f
    <3> HIDE DEF g
    <3>3. Keeps(g, toggle_maximize(g, w))
        BY <3>1, MaximizeSound
    <3>4. Grown(f, toggle_maximize(g, w))
        BY <1>2, <3>1, <3>3, GrownOn DEF Keeps, Sound, Ordered
    <3> QED
        BY <3>1, <3>2, <3>3, <3>4 DEF Keeps
  <2>4. CASE press_below_green(l, r, w)
    <3> DEFINE g == surf_push_event(f, w, "MOUSE")
    <3>1. Keeps(f, g)
        BY <1>2, PushSound DEF Keeps, Event
    <3>2. Compose(toggle_maximize(g, w), l, r)
        BY <2>4 DEF press_below_green, f
    <3> HIDE DEF g
    <3>3. Keeps(g, toggle_maximize(g, w))
        BY <3>1, MaximizeSound DEF Keeps
    <3>4. Keeps(f, toggle_maximize(g, w))
        BY <1>2, <3>1, <3>3, KeepsOn DEF Keeps, Sound, Ordered
    <3> QED
        BY <3>2, <3>4 DEF Keeps
  <2> QED
    BY <2>1, <2>2, <2>3, <2>4
<1>5. PICK d : /\ Sound(d) /\ Grown(f, d) /\ Follows(d) \subseteq Follows(f) \cup {w}
               /\ Compose(d, l, r)
    BY <1>4
<1> HIDE DEF f
<1>6. Grown(wm, d) /\ Follows(d) \subseteq Follows(wm) \cup {w}
    BY <1>1, <1>2, <1>5, GrownOn DEF Keeps, Sound, Ordered
<1>7. /\ Sound(wm') /\ Active(wm') /\ Grown(wm, wm')
      /\ Follows(wm') \subseteq Follows(wm) \cup {w} /\ left' = l /\ right' = r
    BY <1>5, <1>6, Composed
<1> QED
    BY <1>3, <1>7, FirstFollows

LEMMA TrackStep ==
    ASSUME IInv, NEW l \in BOOLEAN, NEW r \in BOOLEAN, NEW moved, NEW under,
           track(l, r, moved, under)
    PROVE  After
<1>1. Sound(wm) /\ Flags /\ Gestures
    BY DEF IInv
<1>2. /\ Proceeds(r) /\ ~Clicked(l) /\ Compose(Tracked(wm, l, moved, under), l, r)
      /\ widget' = (widget /\ ~Released(l)) /\ UNCHANGED <<about, ctx, menu>>
    BY DEF track
<1> DEFINE d == Tracked(wm, l, moved, under)
<1>3. Keeps(wm, d) /\ (Released(l) => Follows(d) = {})
    BY <1>1, TrackedSound
<1> HIDE DEF d
<1>4. /\ Sound(wm') /\ Active(wm') /\ Grown(wm, wm') /\ Follows(wm') \subseteq Follows(d)
      /\ left' = l /\ right' = r
    BY <1>2, <1>3, Composed DEF Keeps, d
<1>5. Flags'
  <2>1. widget' \in BOOLEAN
    BY <1>2
  <2> QED
    BY <1>1, <1>2, <1>4, <2>1 DEF Flags
<1>6. Gestures'
  <2>1. CASE l = TRUE
    <3>1. widget' = TRUE => widget = TRUE
        BY <1>1, <1>2 DEF Flags
    <3> QED
        BY <1>1, <1>3, <1>4, <2>1, <3>1 DEF Gestures, Keeps
  <2>2. CASE l = FALSE /\ left = TRUE
    <3>1. Released(l)
        BY <2>2 DEF Released
    <3>2. widget' = FALSE /\ Follows(wm') = {}
        BY <1>2, <1>3, <1>4, <3>1
    <3> QED
        BY <3>2 DEF Gestures
  <2>3. CASE l = FALSE /\ left = FALSE
    <3>1. widget = FALSE /\ Follows(wm) = {}
        BY <1>2, <2>3, NothingFollows
    <3>2. widget' = FALSE /\ Follows(wm') = {}
        BY <1>2, <1>3, <1>4, <3>1 DEF Keeps
    <3> QED
        BY <3>2 DEF Gestures
  <2> QED
    BY <1>1, <2>1, <2>2, <2>3 DEF Flags
<1> QED
    BY <1>4, <1>5, <1>6 DEF After

LEMMA PressTrackStep ==
    ASSUME IInv, NEW l \in BOOLEAN, NEW r \in BOOLEAN, NEW under,
           NEW w \in Window \cup {NoWindow}, NEW part \in {"grip", "title", "content"},
           NEW underAfter,
           IF Shown(wm) \cap under = {} THEN w = NoWindow ELSE surf_at(wm, under, w),
           press_track(l, r, under, w, part, underAfter)
    PROVE  After
<1> DEFINE p == Pressed(wm, w, part)
           d == Tracked(p, l, TRUE, underAfter)
<1>1. Sound(wm) /\ Table(wm)
    BY DEF IInv, Sound, Ordered
<1>2. Proceeds(r) /\ Clicked(l) /\ Compose(d, l, r) /\ UNCHANGED screenVars
    BY DEF press_track, Presses
<1>3. Sound(p) /\ Grown(wm, p) /\ Follows(p) \subseteq Follows(wm) \cup {w}
  <2>1. CASE w = NoWindow
    <3>1. p = wm
        BY <2>1 DEF Pressed
    <3> QED
        BY <1>1, <3>1, KeepsItself DEF Keeps
  <2>2. CASE w # NoWindow
    <3>1. w \in wm.used
        BY <2>2 DEF surf_at, Shown
    <3> QED
        BY <1>1, <3>1, PressedSound
  <2> QED
    BY <2>1, <2>2
<1> HIDE DEF p
<1>4. Keeps(p, d)
    BY <1>3, TrackedSound
<1> HIDE DEF d
<1>5. Grown(wm, d) /\ Sound(d) /\ Follows(d) \subseteq Follows(wm) \cup {w}
    BY <1>1, <1>3, <1>4, GrownOn DEF Keeps, Sound, Ordered
<1>6. /\ Sound(wm') /\ Active(wm') /\ Grown(wm, wm')
      /\ Follows(wm') \subseteq Follows(wm) \cup {w} /\ left' = l /\ right' = r
    BY <1>2, <1>5, Composed
<1> QED
    BY <1>2, <1>6, FirstFollows

LEMMA FrameStep == ASSUME IInv, Frame PROVE After
<1>1. PICK l, r \in BOOLEAN :
        \/ about_click(l, r) \/ context_menu_open(l, r) \/ context_menu_idle(l, r)
        \/ context_menu_click(l, r) \/ menubar_click(l, r) \/ menu_click(l, r)
        \/ dock_click(l, r)
        \/ widget_press(l, r)
        \/ \E under \in SUBSET Window :
            \/ \E w \in Window : /\ surf_at(wm, under, w)
                                 /\ \/ press_close(l, r, w) \/ press_minimize(l, r, w)
                                    \/ press_green(l, r, w) \/ press_below_green(l, r, w)
            \/ \E moved \in BOOLEAN : track(l, r, moved, under)
            \/ \E w \in Window \cup {NoWindow}, part \in {"grip", "title", "content"},
                  underAfter \in SUBSET Window :
                /\ IF Shown(wm) \cap under = {} THEN w = NoWindow ELSE surf_at(wm, under, w)
                /\ press_track(l, r, under, w, part, underAfter)
    BY Zenon DEF Frame
<1>2. CASE widget_press(l, r)
    BY <1>2, WidgetStep
<1>3. ASSUME NEW under, NEW w \in Window, surf_at(wm, under, w),
             \/ press_close(l, r, w) \/ press_minimize(l, r, w)
             \/ press_green(l, r, w) \/ press_below_green(l, r, w)
      PROVE  After
    BY <1>3, ButtonsStep
<1>4. ASSUME NEW under, NEW moved, track(l, r, moved, under) PROVE After
    BY <1>4, TrackStep
<1>5. ASSUME NEW under, NEW w \in Window \cup {NoWindow},
             NEW part \in {"grip", "title", "content"}, NEW underAfter,
             IF Shown(wm) \cap under = {} THEN w = NoWindow ELSE surf_at(wm, under, w),
             press_track(l, r, under, w, part, underAfter)
      PROVE  After
    BY <1>5, PressTrackStep
<1>6. CASE \/ about_click(l, r) \/ context_menu_open(l, r) \/ context_menu_idle(l, r)
           \/ context_menu_click(l, r) \/ menubar_click(l, r) \/ menu_click(l, r)
           \/ dock_click(l, r)
    BY <1>6, MenusStep
<1> QED
    BY <1>1, <1>2, <1>3, <1>4, <1>5, <1>6

\* A window is opened in the lowest slot that is free.
LEMMA SurfaceStep ==
    ASSUME IInv, NEW c \in Canvas, ax_syscall_surface(c)
    PROVE  /\ IInv' /\ c \in wm.free
           /\ \E w \in Window \ wm.used :
                /\ wm'.used = wm.used \cup {w}
                /\ wm'.canvas = [wm.canvas EXCEPT ![w] = c]
                /\ wm'.queue = [wm.queue EXCEPT ![w] = << >>]
<1> DEFINE w == Lowest(Window \ wm.used)
<1>1. /\ wm.used # Window /\ c \in wm.free /\ wm' = surf_focus(Fresh(wm, w, c), w)
      /\ UNCHANGED <<about, ctx, menu, widget, left, right>>
    BY DEF ax_syscall_surface, screenVars
<1>2. w \in Window \ wm.used
  <2>1. Window \ wm.used # {}
    BY <1>1 DEF IInv, Sound, Ordered, Table, Surfaces
  <2> QED
    BY <2>1, LowestIn
<1> HIDE DEF w
<1>3. /\ Sound(wm') /\ Follows(wm') \subseteq Follows(wm)
      /\ wm'.used = wm.used \cup {w} /\ wm'.active = w /\ w \notin wm'.minimized
      /\ wm'.canvas = [wm.canvas EXCEPT ![w] = c]
      /\ wm'.queue = [wm.queue EXCEPT ![w] = << >>]
    BY <1>1, <1>2, FreshSound DEF IInv
<1>4. Active(wm')
    BY <1>2, <1>3, WindowsAreNumbers DEF Active, Shown
<1>5. Gestures' /\ Flags'
    BY <1>1, <1>3 DEF IInv, Gestures, Flags
<1> QED
    BY <1>1, <1>2, <1>3, <1>4, <1>5 DEF IInv

LEMMA PollStep ==
    ASSUME IInv, NEW c \in Canvas, ax_syscall_poll(c)
    PROVE  /\ IInv'
           /\ \E w \in wm.used :
                /\ wm.canvas[w] = c /\ wm.queue[w] # << >>
                /\ wm'.used = wm.used /\ wm'.canvas = wm.canvas
                /\ wm'.queue = [wm.queue EXCEPT ![w] = Tail(wm.queue[w])]
<1>1. /\ UNCHANGED <<about, ctx, menu, widget, left, right>>
      /\ \E w \in wm.used : /\ wm.canvas[w] = c /\ wm.queue[w] # << >>
                            /\ wm' = [wm EXCEPT !.queue[w] = Tail(@)]
    BY DEF ax_syscall_poll, screenVars
<1>2. PICK w \in wm.used : /\ wm.canvas[w] = c /\ wm.queue[w] # << >>
                           /\ wm' = [wm EXCEPT !.queue[w] = Tail(@)]
    BY <1>1
<1>3. /\ wm \in Surfaces /\ Sound(wm) /\ w \in Window /\ wm.queue \in [Window -> Seq(Event)]
      /\ \A v \in Window : Len(wm.queue[v]) < QueueSlots
    BY DEF IInv, Sound, Ordered, Table, Surfaces
<1> DEFINE q == [wm.queue EXCEPT ![w] = Tail(wm.queue[w])]
<1>4. Tail(wm.queue[w]) \in Seq(Event) /\ Len(Tail(wm.queue[w])) < QueueSlots
    BY <1>2, <1>3, QueueSlotsAssumption
<1>5. q \in [Window -> Seq(Event)] /\ \A v \in Window : Len(q[v]) < QueueSlots
    BY <1>3, <1>4
<1> HIDE DEF q
<1>6. wm' = [wm EXCEPT !.queue = q]
    BY <1>2 DEF q
<1>7. /\ wm' \in Surfaces /\ Same(wm, wm') /\ wm'.queue = q
      /\ wm'.minimized = wm.minimized
      /\ wm'.dragging = wm.dragging /\ wm'.resizing = wm.resizing
    BY <1>3, <1>5, <1>6 DEF Surfaces, Same
<1>8. Sound(wm')
    BY <1>3, <1>5, <1>7, SameStack DEF Table
<1>9. Active(wm') /\ Follows(wm') = Follows(wm)
    BY <1>7 DEF IInv, Active, Shown, Same, Follows
<1>10. Gestures' /\ Flags'
    BY <1>1, <1>9 DEF IInv, Gestures, Flags
<1> QED
    BY <1>2, <1>7, <1>8, <1>9, <1>10 DEF IInv, Same, q

LEMMA InvInit == Init => IInv
<1> SUFFICES ASSUME Init PROVE IInv
    OBVIOUS
<1>1. /\ wm = [used |-> {}, focused |-> {}, minimized |-> {}, maximized |-> {},
               dragging |-> {}, resizing |-> {}, behind |-> {}, active |-> NoWindow,
               canvas |-> [w \in Window |-> NoCanvas],
               queue |-> [w \in Window |-> << >>], free |-> Canvas]
      /\ about = TRUE /\ ctx = FALSE /\ menu = NoMenu /\ widget = FALSE
      /\ left = FALSE /\ right = FALSE
    BY DEF Init
<1>2. wm \in Surfaces /\ \A w \in Window : Len(wm.queue[w]) < QueueSlots
  <2>1. [w \in Window |-> << >>] \in [Window -> Seq(Event)]
    OBVIOUS
  <2> QED
    BY <1>1, <2>1, QueueSlotsAssumption DEF Surfaces
<1>3. Sound(wm)
    BY <1>1, <1>2 DEF Sound, Ordered, Table, Canvassed, Stacked, Fronted
<1>4. Active(wm) /\ Gestures /\ Flags
    BY <1>1 DEF Active, Shown, Gestures, Follows, Flags
<1> QED
    BY <1>3, <1>4 DEF IInv

LEMMA InvStep == IInv /\ [Next]_vars => IInv'
<1> SUFFICES ASSUME IInv, [Next]_vars PROVE IInv'
    OBVIOUS
<1>1. CASE Frame
    BY <1>1, FrameStep DEF After, IInv
<1>2. CASE Call
    BY <1>2, SurfaceStep, PollStep DEF Call
<1>3. CASE UNCHANGED vars
    BY <1>3 DEF vars, IInv, Gestures, Flags
<1> QED
    BY <1>1, <1>2, <1>3 DEF Next

\* Closing, minimizing, opening and raising windows in any order leaves one order of
\* the windows, with the active one in front and no other that believes it has the
\* focus: surf_focus(), the ways to close a window, and compose() of
\* src/kernel/axshell.c.
THEOREM OneInFront == Spec => []FrontExact
<1>1. IInv => FrontExact
  <2> SUFFICES ASSUME IInv PROVE FrontExact
    OBVIOUS
  <2>1. {about, ctx, widget, left, right} \subseteq BOOLEAN
    BY DEF IInv, Flags
  <2>2. TypeOK
    BY <2>1 DEF IInv, Flags, TypeOK, Sound, Ordered, Table
  <2>3. StackingTotal
    BY DEF IInv, Sound, Ordered, Stacked, StackingTotal
  <2>4. FocusExact
    BY DEF IInv, Sound, Fronted, Active, FocusExact
  <2> QED
    BY <2>2, <2>3, <2>4 DEF FrontExact
<1> QED
    BY <1>1, InvInit, InvStep, PTL DEF Spec

\* Every window has a canvas of its own and every other block is back in the heap:
\* the close button, Close Window and Quit each free a canvas exactly once
\* (src/kernel/axshell.c).
THEOREM CanvasesFreedOnce == Spec => []CanvasesExact
<1>1. IInv => CanvasesExact
    BY DEF IInv, Sound, Ordered, Canvassed, CanvasesExact
<1> QED
    BY <1>1, InvInit, InvStep, PTL DEF Spec

\* At most one thing follows the mouse, and with the button up none does, except
\* behind an open context menu: process_input() of src/kernel/axshell.c.
THEOREM GesturesComeToAnEnd == Spec => []GesturesEnd
<1>1. ASSUME IInv PROVE GesturesEnd
  <2>1. Following = Follows(wm) /\ Gestures /\ widget \in BOOLEAN
    BY <1>1 DEF Following, Follows, IInv, Flags
  <2>2. CASE Following = {}
    BY <2>1, <2>2, FS_EmptySet DEF GesturesEnd, Gestures
  <2>3. CASE Following # {}
    <3>1. PICK w : Following = {w}
        BY <2>1, <2>3 DEF Gestures
    <3>2. Cardinality(Following) = 1
        BY <3>1, FS_Singleton
    <3>3. widget = FALSE
        BY <2>1, <2>3 DEF Gestures
    <3> QED
        BY <2>1, <2>3, <3>2, <3>3 DEF GesturesEnd, Gestures
  <2> QED
    BY <2>2, <2>3
<1> QED
    BY <1>1, InvInit, InvStep, PTL DEF Spec

-----------------------------------------------------------------------------
(* The window server. *)

InboxOf(d) ==
    [c \in {d.canvas[w] : w \in d.used} |-> d.queue[CHOOSE w \in d.used : d.canvas[w] = c]]

LEMMA InboxAt ==
    ASSUME NEW d, Sound(d)
    PROVE  /\ DOMAIN InboxOf(d) = {d.canvas[w] : w \in d.used}
           /\ \A w \in d.used : InboxOf(d)[d.canvas[w]] = d.queue[w]
<1>1. ASSUME NEW w \in d.used PROVE (CHOOSE v \in d.used : d.canvas[v] = d.canvas[w]) = w
    BY DEF Sound, Ordered, Canvassed
<1> QED
    BY <1>1 DEF InboxOf

\* The inboxes before and after a step.
LEMMA Inboxes ==
    ASSUME Sound(wm), Sound(wm')
    PROVE  /\ DOMAIN Inbox = {wm.canvas[w] : w \in wm.used}
           /\ \A w \in wm.used : Inbox[wm.canvas[w]] = wm.queue[w]
           /\ DOMAIN Inbox' = {wm'.canvas[w] : w \in wm'.used}
           /\ \A w \in wm'.used : Inbox'[wm'.canvas[w]] = wm'.queue[w]
<1>1. Inbox = InboxOf(wm)
    BY DEF Inbox, InboxOf
<1>2. Inbox' = InboxOf(wm')
    BY DEF Inbox, InboxOf
<1>3. /\ DOMAIN InboxOf(wm) = {wm.canvas[w] : w \in wm.used}
      /\ \A w \in wm.used : InboxOf(wm)[wm.canvas[w]] = wm.queue[w]
    BY InboxAt
<1>4. /\ DOMAIN InboxOf(wm') = {wm'.canvas[w] : w \in wm'.used}
      /\ \A w \in wm'.used : InboxOf(wm')[wm'.canvas[w]] = wm'.queue[w]
    BY InboxAt
<1> QED
    BY <1>1, <1>2, <1>3, <1>4, Zenon

LEMMA FrameMaps ==
    ASSUME Sound(wm), Sound(wm'), Grown(wm, wm')
    PROVE  Abstract!Frame
<1>1. \A w \in wm'.used : w \in wm.used /\ wm'.canvas[w] = wm.canvas[w]
    BY DEF Grown
<1>2. DOMAIN Inbox' \subseteq DOMAIN Inbox
    BY <1>1, Inboxes
<1>3. ASSUME NEW c \in DOMAIN Inbox' PROVE Abstract!Begins(Inbox[c], Inbox'[c])
  <2>1. PICK w \in wm'.used : c = wm'.canvas[w]
    BY Inboxes
  <2>2. Inbox'[c] = wm'.queue[w] /\ Inbox[c] = wm.queue[w]
    BY <1>1, <2>1, Inboxes
  <2>3. Begins(wm.queue[w], wm'.queue[w])
    BY DEF Grown
  <2> QED
    BY <2>2, <2>3 DEF Begins, Abstract!Begins
<1> QED
    BY <1>2, <1>3 DEF Abstract!Frame, Abstract!Open

LEMMA SurfaceMaps ==
    ASSUME IInv, NEW c \in Canvas, ax_syscall_surface(c)
    PROVE  Abstract!OpenWindow(c)
<1>1. IInv' /\ c \in wm.free
    BY SurfaceStep
<1>2. PICK w \in Window \ wm.used :
        /\ wm'.used = wm.used \cup {w}
        /\ wm'.canvas = [wm.canvas EXCEPT ![w] = c]
        /\ wm'.queue = [wm.queue EXCEPT ![w] = << >>]
    BY SurfaceStep
<1>3. Sound(wm) /\ Sound(wm') /\ wm.used \subseteq Window
      /\ wm.canvas \in [Window -> Canvas \cup {NoCanvas}] /\ wm.queue \in [Window -> Seq(Event)]
    BY <1>1 DEF IInv, Sound, Ordered, Table, Surfaces
<1>4. /\ wm'.canvas[w] = c /\ wm'.queue[w] = << >>
      /\ \A v \in wm.used : wm'.canvas[v] = wm.canvas[v] /\ wm'.queue[v] = wm.queue[v]
    BY <1>2, <1>3
<1>5. DOMAIN Inbox' = DOMAIN Inbox \cup {c}
    BY <1>2, <1>3, <1>4, Inboxes
<1>6. c \notin DOMAIN Inbox
    BY <1>1, <1>3, Inboxes DEF Sound, Ordered, Canvassed
<1>7. Inbox'[c] = << >>
    BY <1>2, <1>3, <1>4, Inboxes
<1>8. ASSUME NEW b \in DOMAIN Inbox PROVE Inbox'[b] = Inbox[b]
  <2>1. PICK v \in wm.used : b = wm.canvas[v]
    BY <1>3, Inboxes
  <2>2. b = wm'.canvas[v] /\ v \in wm'.used
    BY <1>2, <1>4, <2>1
  <2> QED
    BY <1>3, <1>4, <2>1, <2>2, Inboxes
<1>9. Inbox' = [b \in DOMAIN Inbox' |-> Inbox'[b]]
    BY DEF Inbox
<1>10. Inbox' = [b \in DOMAIN Inbox \cup {c} |-> IF b = c THEN << >> ELSE Inbox[b]]
    BY <1>5, <1>6, <1>7, <1>8, <1>9
<1> QED
    BY <1>6, <1>10 DEF Abstract!OpenWindow, Abstract!Open

LEMMA PollMaps ==
    ASSUME IInv, NEW c \in Canvas, ax_syscall_poll(c)
    PROVE  Abstract!Receive(c)
<1>1. PICK w \in wm.used :
        /\ wm.canvas[w] = c /\ wm.queue[w] # << >>
        /\ wm'.used = wm.used /\ wm'.canvas = wm.canvas
        /\ wm'.queue = [wm.queue EXCEPT ![w] = Tail(wm.queue[w])]
    BY PollStep
<1>2. IInv'
    BY PollStep
<1>3. Sound(wm) /\ Sound(wm') /\ wm.used \subseteq Window /\ wm.queue \in [Window -> Seq(Event)]
    BY <1>2 DEF IInv, Sound, Ordered, Table, Surfaces
<1>4. DOMAIN Inbox' = DOMAIN Inbox /\ c \in DOMAIN Inbox
    BY <1>1, <1>3, Inboxes
<1>5. Inbox[c] = wm.queue[w] /\ Inbox'[c] = Tail(wm.queue[w])
  <2>1. Inbox[c] = wm.queue[w] /\ Inbox'[c] = wm'.queue[w]
    BY <1>1, <1>3, Inboxes
  <2> QED
    BY <1>1, <1>3, <2>1
<1>6. ASSUME NEW b \in DOMAIN Inbox, b # c PROVE Inbox'[b] = Inbox[b]
  <2>1. PICK v \in wm.used : b = wm.canvas[v]
    BY <1>3, Inboxes
  <2>2. v # w /\ wm'.queue[v] = wm.queue[v]
    BY <1>1, <1>3, <1>6, <2>1
  <2>3. Inbox[b] = wm.queue[v] /\ Inbox'[b] = wm'.queue[v]
    BY <1>1, <1>3, <2>1, Inboxes
  <2> QED
    BY <2>2, <2>3
<1>7. Inbox' = [b \in DOMAIN Inbox' |-> Inbox'[b]] /\ Inbox = [b \in DOMAIN Inbox |-> Inbox[b]]
    BY DEF Inbox
<1>8. Inbox' = [Inbox EXCEPT ![c] = Tail(Inbox[c])]
    BY <1>4, <1>5, <1>6, <1>7
<1> QED
    BY <1>1, <1>4, <1>5, <1>8 DEF Abstract!Receive, Abstract!Open

\* The surface table with its ring buffers and reused slots implements the abstract
\* window server: a window knows its inbox by its canvas, gets events in order and
\* none twice, and never one of the window that had its slot before
\* (src/kernel/axshell.c).
THEOREM ImplementsWindowServer == Spec => Refinement
<1>1. ASSUME Init PROVE Abstract!Init
  <2>1. wm.used = {}
    BY <1>1 DEF Init
  <2>2. Inbox = [c \in {} |-> << >>]
    BY <2>1 DEF Inbox
  <2> QED
    BY <2>2 DEF Abstract!Init
<1>2. ASSUME IInv, [Next]_vars PROVE [Abstract!Next]_Inbox
  <2>1. CASE Frame
    <3>1. Sound(wm) /\ Sound(wm') /\ Grown(wm, wm')
        BY <1>2, <2>1, FrameStep DEF After, IInv
    <3> QED
        BY <3>1, FrameMaps DEF Abstract!Next
  <2>2. ASSUME NEW c \in Canvas, ax_syscall_surface(c) PROVE [Abstract!Next]_Inbox
    BY <1>2, <2>2, SurfaceMaps DEF Abstract!Next
  <2>3. ASSUME NEW c \in Canvas, ax_syscall_poll(c) PROVE [Abstract!Next]_Inbox
    BY <1>2, <2>3, PollMaps DEF Abstract!Next
  <2>4. CASE UNCHANGED vars
    BY <2>4 DEF vars, Inbox
  <2> QED
    BY <1>2, <2>1, <2>2, <2>3, <2>4 DEF Next, Call
<1> QED
    BY <1>1, <1>2, InvInit, InvStep, PTL DEF Spec, Refinement, Abstract!Spec

=============================================================================
