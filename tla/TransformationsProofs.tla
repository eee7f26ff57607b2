----------------------- MODULE TransformationsProofs -----------------------
(***************************************************************************)
(* Proofs about the engine of src/src/transformations.c, for every file of *)
(* transformations, every document and every stack allocated at first; and *)
(* about the transformations that make the texts (TextPasses): the fonts   *)
(* of a text, and the letters of the document from make_node to            *)
(* merge_adjacent_text_nodes.                                              *)
(***************************************************************************)
EXTENDS Transformations, TextPasses, ListsProofs, FiniteSetTheorems

(* The lists hold what the lines read so far name; when a list is applied, *)
(* the whole file has been read.                                           *)
FileRead ==
  /\ \A t \in Types :
       IF t \in DOMAIN lists
       THEN lists[t] = NamedBefore(script, t)[read]
       ELSE NamedBefore(script, t)[read] = <<>>
  /\ call # "init" => read = Len(script)

(* While xmlTransformationApplyList puts the passes under the stack, there *)
(* is nothing else on it; nothing waits when no list is applied.           *)
Loading ==
  ~ Loaded =>
    /\ running.todo = <<>>
    /\ call \notin {"saved", "crashed"} => started = <<>>
    /\ call \in DOMAIN lists =>
         /\ loaded < Len(lists[call]) /\ Len(stack) = loaded
         /\ \A i \in 1 .. loaded : stack[i] = Begin(loaded - i + 1)
    /\ call \notin DOMAIN lists /\ call # "crashed" => stack = <<>>

(* The passes start in the order of the list; what waits below the root    *)
(* waits for a pass that is a function on nodes.                           *)
InTurn ==
  Loaded =>
    /\ Len(started) <= Len(lists[call])
    /\ \A i \in 1 .. Len(started) : started[i] = lists[call][i]
    /\ Pending \cup Range(running.todo) # {} =>
         lists[call][Len(started)] \notin {"xslt_proc", "dump_tree"}

(* The call that is under way is the call of a pass. *)
Visiting ==
  running.todo # <<>> => running.pass # 0

IInv ==
  /\ TypeOK
  /\ count # 0
  /\ FileRead
  /\ Loading
  /\ InTurn
  /\ Visiting
  /\ StackShape
  /\ WorkInDocument

----------------------------------------------------------------------------
(* NamedBefore is a function defined by recursion on the lines of a file. *)

LEMMA NamedProperties ==
  ASSUME NEW line \in Line, NEW t \in Types
  PROVE  Named(line, t) \in Seq(STRING)
<1> DEFINE T == STRING
<1>1. line.name \in T /\ "dump_tree" \in T
  <2>1. line.name \in STRING
    BY DEF Line
  <2>2. "dump_tree" \in STRING
    BY RegistryAssumption
  <2>3. QED
    BY <2>1, <2>2
<1> HIDE DEF T
<1>2. <<line.name>> \in Seq(T) /\ <<"dump_tree">> \in Seq(T) /\ <<>> \in Seq(T)
  BY <1>1
<1> DEFINE a == IF line.name \in Registry[t] THEN <<line.name>> ELSE <<>>
           b == IF line.report THEN <<"dump_tree">> ELSE <<>>
<1>3. a \in Seq(T) /\ b \in Seq(T)
  BY <1>2
<1>4. Named(line, t) = IF line.type # t THEN <<>> ELSE a \o b
  BY DEF Named
<1> HIDE DEF a, b
<1>5. a \o b \in Seq(T)
  BY <1>3
<1>6. Named(line, t) \in Seq(T)
  BY <1>2, <1>4, <1>5
<1>7. QED
  BY <1>6 DEF T

LEMMA NamedByRecursion ==
  ASSUME NEW file \in Seq(Line), NEW t \in Types
  PROVE  /\ NamedBefore(file, t) \in [0 .. Len(file) -> Seq(STRING)]
         /\ NamedBefore(file, t)[0] = <<>>
         /\ \A i \in 1 .. Len(file) :
              NamedBefore(file, t)[i]
                = NamedBefore(file, t)[i - 1] \o Named(file[i], t)
<1> DEFINE N == Len(file)
           T == Seq(STRING)
           step == [i \in 1 .. N |-> [x \in T |-> x \o Named(file[i], t)]]
           Unfolds(f) == f = [i \in 0 .. N |->
                        IF i = 0 THEN <<>> ELSE f[i - 1] \o Named(file[i], t)]
<1>1. N \in Nat /\ <<>> \in T
  OBVIOUS
<1>2. ASSUME NEW i \in 1 .. N, NEW x \in T
      PROVE  step[i][x] = x \o Named(file[i], t) /\ step[i][x] \in T
  <2>1. Named(file[i], t) \in T
    BY NamedProperties
  <2>2. x \o Named(file[i], t) \in T
    BY <2>1
  <2>3. QED
    BY <2>2
<1>3. IsStep(step, N, T)
  BY <1>2 DEF IsStep
<1>4. PICK f : Iterates(f, <<>>, step, N, T)
  <2> HIDE DEF step, N, T
  <2>1. QED
    BY <1>1, <1>3, Recursion
<1> HIDE DEF step
<1>5. f \in [0 .. N -> T] /\ f[0] = <<>>
  BY <1>4 DEF Iterates
<1>6. ASSUME NEW i \in 1 .. N
      PROVE  f[i] = f[i - 1] \o Named(file[i], t)
  <2>1. i - 1 \in 0 .. N /\ f[i - 1] \in T
    <3> HIDE DEF N, T
    <3>1. i - 1 \in 0 .. N
      BY <1>1
    <3>2. QED
      BY <3>1, <1>5
  <2>2. f[i] = step[i][f[i - 1]]
    BY <1>4 DEF Iterates
  <2>3. QED
    BY <2>1, <2>2, <1>2
<1>7. Unfolds(f)
  <2> DEFINE h == [i \in 0 .. N |->
                     IF i = 0 THEN <<>> ELSE f[i - 1] \o Named(file[i], t)]
  <2>1. ASSUME NEW i \in 0 .. N
        PROVE  h[i] = f[i]
    <3>1. i = 0 \/ i \in 1 .. N
      BY <1>1
    <3>2. QED
      BY <3>1, <1>5, <1>6
  <2>2. h = [i \in 0 .. N |-> h[i]] /\ f = [i \in 0 .. N |-> f[i]]
    BY <1>5
  <2>3. f = h
    <3> HIDE DEF h
    <3>1. QED
      BY <2>1, <2>2
  <2>4. QED
    BY <2>3
<1>8. ASSUME NEW g, Unfolds(g)
      PROVE  g = f
  <2>1. f[0] = g[0]
    BY <1>1, <1>5, <1>8
  <2>2. ASSUME NEW i \in 1 .. N, f[i - 1] = g[i - 1]
        PROVE  f[i] = g[i]
    <3>1. i \in 0 .. N /\ i # 0
      BY <1>1
    <3>2. g[i] = g[i - 1] \o Named(file[i], t)
      BY <3>1, <1>8
    <3>3. QED
      BY <3>2, <2>2, <1>6
  <2>3. g = [i \in 0 .. N |-> g[i]]
    BY <1>8
  <2> HIDE DEF Unfolds
  <2>4. \A i \in 0 .. N : f[i] = g[i]
    <3>1. StepAlike(f, g, N)
      BY ONLY <2>1, <2>2 DEF StepAlike
    <3>2. QED
      BY <3>1, <1>1, RecursionUnique
  <2>5. QED
    BY <2>3, <2>4, <1>5
<1>9. NamedBefore(file, t) = CHOOSE g : Unfolds(g)
  BY DEF NamedBefore
<1> HIDE DEF Unfolds
<1>10. NamedBefore(file, t) = f
  BY <1>7, <1>8, <1>9
<1>11. QED
  BY <1>5, <1>6, <1>10

----------------------------------------------------------------------------
(* What the conjuncts of the invariant say of the lists and the stack. *)

Entry == [node : Nodes \cup {ROOT_NODE}, pass : Nat \ {0}, doc : Nat]
Calling == [pass : Nat, todo : Seq(Nodes), pushed : Seq(Nodes)]

LEMMA NodesAreNumbers ==
  \A n \in Nodes : n \in Nat /\ n \in Int /\ n # ROOT_NODE
  BY TreeAssumption DEF ROOT_NODE

LEMMA Typed ==
  ASSUME TypeOK
  PROVE  /\ script \in Seq(Line) /\ Len(script) \in Nat
         /\ stack \in Seq(Entry) /\ Len(stack) \in Nat
         /\ started \in Seq(STRING) /\ Len(started) \in Nat
         /\ running \in Calling /\ running.todo \in Seq(Nodes)
         /\ running.pushed \in Seq(Nodes)
         /\ Len(running.todo) \in Nat
         /\ doc \in Nat /\ live \subseteq Nodes /\ freed \subseteq Nodes
         /\ running.pass \in Nat
         /\ call \in DOMAIN lists => lists[call] \in Seq(STRING)
            /\ Len(lists[call]) \in Nat
         /\ \A n \in Nodes : n \in Nat /\ n # ROOT_NODE
<1>1. script \in Seq(Line)
  BY ScriptsAssumption DEF TypeOK
<1>2. stack \in Seq(Entry)
  BY DEF TypeOK, Entry
<1>3. /\ running \in Calling /\ running.todo \in Seq(Nodes) /\ running.pass \in Nat
      /\ running.pushed \in Seq(Nodes)
      /\ doc \in Nat /\ live \subseteq Nodes /\ freed \subseteq Nodes
  BY DEF TypeOK, Calling
<1>4. \A n \in Nodes : n \in Nat /\ n # ROOT_NODE
  BY NodesAreNumbers
<1>6. call \in DOMAIN lists => lists[call] \in Seq(STRING)
  BY DEF TypeOK
<1>7. started \in Seq(STRING)
  BY DEF TypeOK
<1>8. QED
  BY <1>1, <1>2, <1>3, <1>4, <1>6, <1>7, LenProperties

(* The nodes that wait, by the places of their entries. *)
LEMMA PendingIs ==
  /\ Pending = {stack[i].node : i \in {j \in 1 .. Len(stack) : stack[j].node # ROOT_NODE}}
  /\ \A i \in 1 .. Len(stack) : stack[i].node # ROOT_NODE => stack[i] \in Waiting
  BY DEF Pending, Waiting

LEMMA PendingIsNext ==
  Pending' = {stack'[i].node : i \in {j \in 1 .. Len(stack') : stack'[j].node # ROOT_NODE}}
  BY DEF Pending, Waiting

(* What waits stays in the document when each new entry names one of its   *)
(* nodes, and a node that is freed is remembered.                          *)
LEMMA WorkKept ==
  ASSUME WorkInDocument, doc' = doc, live \cup freed \subseteq live' \cup freed',
         \A i \in 1 .. Len(stack') : stack'[i].node # ROOT_NODE =>
           \/ stack'[i] \in Waiting
           \/ stack'[i].doc = doc /\ stack'[i].node \in live' \cup freed',
         Range(running'.todo) \cup Range(running'.pushed) \subseteq live' \cup freed'
  PROVE  WorkInDocument'
<1>1. ASSUME NEW i \in 1 .. Len(stack'), stack'[i].node # ROOT_NODE
      PROVE  stack'[i].doc = doc' /\ stack'[i].node \in live' \cup freed'
  BY <1>1 DEF WorkInDocument
<1>2. QED
  BY <1>1 DEF WorkInDocument, Waiting

LEMMA Initially ==
  Init => IInv
<1> SUFFICES ASSUME Init PROVE IInv
  OBVIOUS
<1>1. script \in Seq(Line)
  BY ScriptsAssumption DEF Init
<1>2. TypeOK
  BY StackAssumption, <1>1 DEF Init, TypeOK, Idle, ROOT_NODE, NoHome
<1>3. FileRead
  BY <1>1, NamedByRecursion DEF Init, FileRead
<1>4. Loading /\ InTurn /\ StackShape
  BY DEF Init, Loading, InTurn, StackShape, Loaded, Idle
<1>5. Visiting
  BY DEF Init, Visiting, Idle
<1>6. WorkInDocument
  <2>1. Waiting = {} /\ Range(running.todo) = {} /\ Range(running.pushed) = {}
    BY DEF Init, Waiting, Idle, Range
  <2>2. QED
    BY <2>1 DEF WorkInDocument
<1>7. QED
  BY <1>2, <1>3, <1>4, <1>5, <1>6, StackAssumption DEF IInv, Init

----------------------------------------------------------------------------
(* The reading of transformations.xml. *)

ListFor(ls, t) == IF t \in DOMAIN ls THEN ls[t] ELSE <<>>
Proper(ls) ==
  /\ DOMAIN ls \subseteq Types
  /\ \A t \in DOMAIN ls : ls[t] \in Seq(STRING) \ {<<>>}

LEMMA ListForProper ==
  ASSUME NEW ls, Proper(ls), NEW t \in Types
  PROVE  ListFor(ls, t) \in Seq(STRING)
<1> DEFINE T == STRING
<1>1. \A u \in DOMAIN ls : ls[u] \in Seq(T)
  BY DEF Proper
<1> HIDE DEF T
<1>2. <<>> \in Seq(T)
  OBVIOUS
<1>3. ListFor(ls, t) \in Seq(T)
  BY <1>1, <1>2 DEF ListFor
<1>4. QED
  BY <1>3 DEF T

(* A list is made when its first pass is, and gets the passes at its end. *)
LEMMA AddToListEffect ==
  ASSUME NEW ls, Proper(ls), NEW t \in Types, NEW name
  PROVE  /\ Proper(AddToList(ls, t, name))
         /\ \A u \in Types :
              ListFor(AddToList(ls, t, name), u)
                = ListFor(ls, u) \o (IF u = t /\ name \in Registry[t]
                                    THEN <<name>> ELSE <<>>)
<1> DEFINE T == STRING
<1>1. \A u \in DOMAIN ls : ls[u] \in Seq(T) /\ ls[u] # <<>>
  BY DEF Proper
<1>2. \A u \in Types : ListFor(ls, u) \in Seq(T)
  BY ListForProper
<1>3. CASE name \notin Registry[t]
  <2>1. AddToList(ls, t, name) = ls
    BY <1>3 DEF AddToList
  <2>2. \A u \in Types : ListFor(ls, u) \o <<>> = ListFor(ls, u)
    BY <1>2
  <2>3. QED
    BY <2>1, <2>2, <1>3
<1>4. CASE name \in Registry[t]
  <2>1. name \in T
    BY <1>4, RegistryAssumption
  <2> HIDE DEF T
  <2> DEFINE new == AddToList(ls, t, name)
  <2>2. /\ DOMAIN new = DOMAIN ls \cup {t}
        /\ \A u \in DOMAIN ls \cup {t} :
             new[u] = IF u # t THEN ls[u]
                      ELSE IF t \in DOMAIN ls THEN Append(ls[t], name) ELSE <<name>>
    BY <1>4 DEF AddToList
  <2> HIDE DEF new
  <2>3. \A s \in Seq(T) : /\ Append(s, name) \in Seq(T) /\ Append(s, name) # <<>>
                          /\ s \o <<name>> = Append(s, name)
                          /\ s \o <<>> = s
    BY <2>1
  <2>4. /\ <<name>> \in Seq(T) /\ <<name>> # <<>> /\ <<>> \o <<name>> = <<name>>
    BY <2>1
  <2>5. \A u \in DOMAIN new : new[u] \in Seq(T) /\ new[u] # <<>>
    BY <2>2, <2>3, <2>4, <1>1
  <2>6. Proper(new)
    BY <2>2, <2>5 DEF Proper, T
  <2>7. ASSUME NEW u \in Types
        PROVE  ListFor(new, u) = ListFor(ls, u) \o (IF u = t THEN <<name>> ELSE <<>>)
    <3>1. CASE u # t
      BY <3>1, <2>2, <2>3, <1>2 DEF ListFor
    <3>2. CASE u = t /\ t \in DOMAIN ls
      BY <3>2, <2>2, <2>3, <1>1 DEF ListFor
    <3>3. CASE u = t /\ t \notin DOMAIN ls
      BY <3>3, <2>2, <2>4 DEF ListFor
    <3>4. QED
      BY <3>1, <3>2, <3>3
  <2>8. QED
    BY <2>6, <2>7, <1>4 DEF new
<1>5. QED
  BY <1>3, <1>4

LEMMA ReadLineStep ==
  ASSUME IInv, ReadLine
  PROVE  IInv'
<1> DEFINE line == script[read + 1]
           t == line.type
           one == AddToList(lists, t, line.name)
           T == STRING
<1>1. /\ call = "init" /\ read \in Nat /\ read + 1 \in 1 .. Len(script)
      /\ line \in Line /\ script \in Seq(Line) /\ t \in Types
  <2>1. call = "init" /\ read < Len(script)
    BY DEF ReadLine
  <2>2. script \in Seq(Line) /\ Len(script) \in Nat /\ read \in 0 .. Len(script)
    BY Typed DEF IInv, TypeOK
  <2>3. read + 1 \in 1 .. Len(script) /\ line \in Line
    BY <2>1, <2>2
  <2>4. QED
    BY <2>1, <2>2, <2>3 DEF Line
<1>2. Proper(lists)
  BY DEF IInv, TypeOK, Proper
<1>3. \A u \in Types : ListFor(lists, u) = NamedBefore(script, u)[read]
  BY <1>2 DEF IInv, FileRead, Proper, ListFor
<1>4. /\ Proper(one)
      /\ \A u \in Types :
           ListFor(one, u) = ListFor(lists, u)
                              \o (IF u = t /\ line.name \in Registry[t]
                                  THEN <<line.name>> ELSE <<>>)
  <2> HIDE DEF line
  <2>1. QED
    BY <1>1, <1>2, AddToListEffect
<1>5. /\ Proper(lists')
      /\ \A u \in Types :
           ListFor(lists', u) = ListFor(one, u)
             \o (IF u = t /\ line.report THEN <<"dump_tree">> ELSE <<>>)
  <2>1. lists' = IF line.report THEN AddToList(one, t, "dump_tree") ELSE one
    BY DEF ReadLine
  <2> HIDE DEF line, one
  <2>2. CASE line.report
    <3>1. lists' = AddToList(one, t, "dump_tree") /\ "dump_tree" \in Registry[t]
      BY <2>1, <2>2, <1>1, RegistryAssumption
    <3>2. /\ Proper(AddToList(one, t, "dump_tree"))
          /\ \A u \in Types :
               ListFor(AddToList(one, t, "dump_tree"), u)
                 = ListFor(one, u) \o (IF u = t /\ "dump_tree" \in Registry[t]
                                      THEN <<"dump_tree">> ELSE <<>>)
      BY <1>1, <1>4, AddToListEffect
    <3>3. QED
      BY <3>1, <3>2, <2>2
  <2>3. CASE ~ line.report
    <3>1. \A u \in Types : ListFor(one, u) \in Seq(T)
      BY <1>4, ListForProper
    <3>2. \A s \in Seq(T) : s \o <<>> = s
      OBVIOUS
    <3>3. lists' = one
      BY <2>1, <2>3
    <3>4. QED
      BY <3>1, <3>2, <3>3, <2>3, <1>4
  <2>4. QED
    BY <2>2, <2>3
<1>6. ASSUME NEW u \in Types
      PROVE  ListFor(lists', u) = NamedBefore(script, u)[read + 1]
  <2> DEFINE a == IF line.name \in Registry[t] THEN <<line.name>> ELSE <<>>
             b == IF line.report THEN <<"dump_tree">> ELSE <<>>
             s == ListFor(lists, u)
  <2>1. NamedBefore(script, u)[read + 1] = s \o Named(line, u)
    <3>1. (read + 1) - 1 = read
      BY <1>1
    <3>2. \A i \in 1 .. Len(script) :
            NamedBefore(script, u)[i]
              = NamedBefore(script, u)[i - 1] \o Named(script[i], u)
      BY <1>1, NamedByRecursion
    <3>3. NamedBefore(script, u)[read + 1]
            = NamedBefore(script, u)[(read + 1) - 1] \o Named(line, u)
      BY <1>1, <3>2
    <3>4. QED
      BY <1>3, <3>1, <3>3
  <2>2. s \in Seq(T)
    BY <1>2, ListForProper
  <2>3. CASE u # t
    <3>1. Named(line, u) = <<>>
      BY <2>3 DEF Named
    <3>2. s \o <<>> = s
      BY <2>2
    <3>3. ListFor(one, u) = s
      BY <3>2, <2>3, <1>4
    <3>4. ListFor(lists', u) = s \o <<>>
      BY <3>2, <3>3, <2>3, <1>5
    <3>5. QED
      BY <3>1, <3>4, <2>1
  <2>4. CASE u = t
    <3>1. Named(line, u) = a \o b
      BY <2>4 DEF Named
    <3>2. ListFor(lists', u) = (s \o a) \o b
      BY <2>4, <1>4, <1>5
    <3>3. a \in Seq(T) /\ b \in Seq(T)
      <4>1. line.name \in T
        BY <1>1 DEF Line
      <4>2. "dump_tree" \in T
        BY RegistryAssumption
      <4> HIDE DEF line, T
      <4>3. QED
        BY <4>1, <4>2
    <3> HIDE DEF a, b, s, T
    <3>4. (s \o a) \o b = s \o (a \o b)
      BY <3>3, <2>2
    <3>5. QED
      BY <3>1, <3>2, <3>4, <2>1
  <2>5. QED
    BY <2>3, <2>4
<1>7. /\ UNCHANGED <<script, call, loaded, stack, count, started, running, doc, live, freed, home>>
      /\ read' = read + 1
  BY DEF ReadLine, document
<1>8. call \notin Types
  BY <1>1 DEF Types
<1>9. ~ Loaded /\ ~ Loaded' /\ call \notin DOMAIN lists
        /\ call' \notin DOMAIN lists'
  BY <1>2, <1>5, <1>7, <1>8 DEF Loaded, Proper
<1>10. TypeOK'
  <2>1. read' \in 0 .. Len(script)
    BY <1>1, <1>7
  <2>2. QED
    BY <2>1, <1>5, <1>7 DEF IInv, TypeOK, Proper
<1>11. FileRead'
  <2>1. \A u \in Types : IF u \in DOMAIN lists'
          THEN lists'[u] = NamedBefore(script, u)[read + 1]
                         ELSE NamedBefore(script, u)[read + 1] = <<>>
    BY <1>6 DEF ListFor
  <2>2. QED
    BY <2>1, <1>1, <1>7 DEF FileRead
<1>12. Loading' /\ InTurn' /\ StackShape' /\ Visiting'
  BY <1>7, <1>9 DEF IInv, Loading, InTurn, StackShape, Visiting
<1>13. WorkInDocument'
  BY <1>7 DEF IInv, WorkInDocument, Waiting
<1>14. QED
  BY <1>7, <1>10, <1>11, <1>12, <1>13 DEF IInv

----------------------------------------------------------------------------
(* A list that begins, and its passes that are put under the stack. *)

LEMMA GrownEnough ==
  ASSUME TypeOK, count # 0
  PROVE  Grown \in Nat /\ Grown # 0 /\ Len(stack) + 1 <= Grown
<1>1. count \in Nat /\ Len(stack) \in Nat /\ Len(stack) <= count
  BY Typed DEF TypeOK
<1>2. QED
  BY <1>1 DEF Grown

LEMMA NothingPending ==
  ASSUME \A i \in 1 .. Len(stack) : stack[i].node = ROOT_NODE,
         running.todo = <<>>
  PROVE  /\ Pending = {}
         /\ Range(running.todo) = {}
<1>1. Pending = {}
  BY PendingIs
<1>2. Range(running.todo) = {}
  BY DEF Range
<1>3. QED
  BY <1>1, <1>2

LEMMA NewList ==
  ASSUME IInv, FreshStack, call' \in Types, read = Len(script),
         UNCHANGED engine,
         doc' \in Nat, live' \subseteq Nodes, freed' \subseteq Nodes, home' \in Nat
  PROVE  IInv'
<1>1. TypeOK
  BY DEF IInv
<1>2. /\ stack' = <<>> /\ count' = STACK_SIZE /\ loaded' = 0 /\ started' = <<>>
      /\ script' = script /\ read' = read /\ lists' = lists /\ running' = Idle
  BY DEF FreshStack, engine
<1>3. running'.todo = <<>> /\ running'.pushed = <<>>
  BY <1>2 DEF Idle
<1>4. TypeOK'
  <2>1. running' \in [pass : Nat, todo : Seq(Nodes), pushed : Seq(Nodes)]
    BY <1>2 DEF Idle
  <2>2. QED
    BY <1>1, <1>2, <2>1, StackAssumption DEF TypeOK
<1>5. FileRead'
  BY <1>2 DEF IInv, FileRead
<1>6. \A t \in DOMAIN lists : lists[t] # <<>> /\ Len(lists[t]) \in Nat
        /\ 0 < Len(lists[t])
  <2>1. \A t \in DOMAIN lists : lists[t] \in Seq(STRING) /\ lists[t] # <<>>
    BY <1>1 DEF TypeOK
  <2>2. QED
    BY <2>1, EmptySeq, LenProperties
<1>7. ~ Loaded'
  BY <1>2, <1>6 DEF Loaded
<1>8. Loading'
  BY <1>2, <1>3, <1>6 DEF Loading
<1>9. InTurn' /\ StackShape'
  BY <1>7 DEF InTurn, StackShape
<1>10. Visiting'
  BY <1>3 DEF Visiting
<1>11. WorkInDocument'
  <2>1. Waiting' = {} /\ Range(running'.todo) = {} /\ Range(running'.pushed) = {}
    BY <1>2, <1>3 DEF Waiting, Range
  <2>2. QED
    BY <1>2, <2>1 DEF WorkInDocument
<1>12. QED
  BY <1>2, <1>4, <1>5, <1>8, <1>9, <1>10, <1>11, StackAssumption DEF IInv

LEMMA ApplyMathStep ==
  ASSUME IInv, ApplyMath
  PROVE  IInv'
<1>1. call = "init" /\ read = Len(script) /\ call' = "math" /\ FreshStack
      /\ UNCHANGED engine /\ UNCHANGED document
  BY DEF ApplyMath
<1>2. doc \in Nat /\ live \subseteq Nodes /\ freed \subseteq Nodes /\ home \in Nat
  BY DEF IInv, TypeOK
<1>3. QED
  BY <1>1, <1>2, NewList DEF document, Types

LEMMA ApplyTextStep ==
  ASSUME IInv, ApplyText
  PROVE  IInv'
<1>1. call = "math" /\ ListDone /\ call' = "text" /\ FreshStack
      /\ doc' = doc + 1 /\ live' = Nodes /\ freed' = {} /\ home' = doc + 1
      /\ UNCHANGED engine
  BY DEF ApplyText
<1>3. doc \in Nat /\ read = Len(script)
  BY <1>1 DEF IInv, TypeOK, FileRead
<1>4. doc' \in Nat /\ home' \in Nat
  BY <1>1, <1>3
<1>5. QED
  BY <1>1, <1>3, <1>4, NewList DEF Types

LEMMA SaveStep ==
  ASSUME IInv, Save
  PROVE  IInv'
<1>1. call = "text" /\ ListDone /\ call' = "saved"
      /\ UNCHANGED <<engine, loaded, stack, count, started, running, document>>
  BY DEF Save
<1>2. running.todo = <<>> /\ stack = <<>>
  BY <1>1 DEF ListDone, IInv, Loading, Loaded
<1>3. TypeOK /\ TypeOK'
  BY <1>1 DEF IInv, TypeOK, engine, document
<1>4. ~ Loaded'
  BY <1>1, <1>3 DEF TypeOK, Loaded, Types
<1>5. FileRead'
  BY <1>1 DEF IInv, FileRead, engine
<1>6. Loading' /\ InTurn' /\ StackShape'
  BY <1>1, <1>2, <1>3, <1>4 DEF Loading, InTurn, StackShape, TypeOK, Types
<1>7. Visiting'
  BY <1>1, <1>2 DEF Visiting
<1>8. WorkInDocument'
  BY <1>1 DEF IInv, WorkInDocument, Waiting, document
<1>9. QED
  BY <1>1, <1>3, <1>5, <1>6, <1>7, <1>8 DEF IInv

LEMMA PushLastStep ==
  ASSUME IInv, PushLast
  PROVE  IInv'
<1> DEFINE L == Len(lists[call])
<1>1. /\ call \in DOMAIN lists /\ loaded < L
      /\ count' = Grown /\ loaded' = loaded + 1
      /\ stack' = <<Begin(loaded + 1)>> \o stack
      /\ UNCHANGED <<engine, call, started, running, document>>
  BY DEF PushLast
<1>2. TypeOK /\ L \in Nat /\ loaded \in Nat /\ stack \in Seq(Entry)
  BY <1>1, Typed DEF IInv, TypeOK
<1>3. ~ Loaded
  BY <1>1, <1>2 DEF Loaded
<1>4. /\ running.todo = <<>> /\ started = <<>> /\ Len(stack) = loaded
      /\ \A i \in 1 .. loaded : stack[i] = Begin(loaded - i + 1)
  BY <1>1, <1>3 DEF IInv, Loading, TypeOK, Types
<1>5. Begin(loaded + 1) \in Entry
  BY <1>2 DEF Begin, Work, Entry, NoHome
<1>6. /\ stack' \in Seq(Entry) /\ Len(stack') = loaded + 1
      /\ stack'[1] = Begin(loaded + 1)
      /\ \A i \in 2 .. loaded + 1 : stack'[i] = stack[i - 1]
  <2> DEFINE e == Begin(loaded + 1)
  <2>1. e \in Entry
    BY <1>5
  <2> HIDE DEF e
  <2>2. <<e>> \in Seq(Entry) /\ Len(<<e>>) = 1 /\ <<e>>[1] = e
    BY <2>1
  <2>3. stack' = <<e>> \o stack
    BY <1>1 DEF e
  <2>4. QED
    BY <1>2, <1>4, <2>2, <2>3, ConcatProperties, LenProperties DEF e
<1>7. ASSUME NEW i \in 1 .. loaded + 1
      PROVE  stack'[i] = Begin((loaded + 1) - i + 1)
  <2>1. CASE i = 1
    <3>1. (loaded + 1) - i + 1 = loaded + 1
      BY <2>1, <1>2
    <3>2. QED
      BY <2>1, <3>1, <1>6
  <2>2. CASE i # 1
    <3>1. i \in 2 .. loaded + 1 /\ i - 1 \in 1 .. loaded
      BY <2>2, <1>2
    <3>2. loaded - (i - 1) + 1 = (loaded + 1) - i + 1
      BY <3>1, <1>2
    <3>3. QED
      BY <3>1, <3>2, <1>4, <1>6
  <2>3. QED
    BY <2>1, <2>2
<1>8. Len(stack') <= count' /\ count' \in Nat /\ count' # 0
  BY <1>1, <1>2, <1>4, <1>6, GrownEnough DEF IInv
<1>9. TypeOK'
  BY <1>1, <1>2, <1>6, <1>8 DEF TypeOK, engine, document, Entry
<1>10. FileRead'
  BY <1>1 DEF IInv, FileRead, engine
<1>11. lists' = lists /\ call' = call /\ running' = running /\ started' = started
  BY <1>1 DEF engine
<1>12. loaded' <= L
  BY <1>1, <1>2
<1>13. Loading'
  BY <1>1, <1>4, <1>6, <1>7, <1>11, <1>12, <1>2 DEF Loading, Loaded
<1>14. \A i \in 1 .. Len(stack') : stack'[i].node = ROOT_NODE
  BY <1>6, <1>7 DEF Begin, Work
<1>15. Pending' = {} /\ Range(running.todo)' = {}
  BY <1>4, <1>11, <1>14, PendingIsNext DEF Range
<1>16. StackShape' /\ InTurn'
  <2>1. CASE ~ Loaded'
    BY <2>1 DEF StackShape, InTurn
  <2>2. CASE Loaded'
    <3>1. loaded + 1 = L /\ Len(started') = 0 /\ running'.todo = <<>>
      BY <2>2, <1>1, <1>4, <1>11 DEF Loaded
    <3>2. StackShape'
      <4>1. lists'[call'] = lists[call]
        BY <1>11
      <4>2. Len(started') + Len(stack') >= L
        BY <3>1, <1>2, <1>6
      <4>3. ASSUME NEW i \in 1 .. Len(stack')
            PROVE  /\ i <= L - Len(started')
                   /\ stack'[i] = Begin(L - i + 1)
        BY <3>1, <1>2, <1>6, <1>7
      <4>4. QED
        BY <3>1, <4>1, <4>2, <4>3 DEF StackShape
    <3>3. InTurn'
      BY <3>1, <1>2, <1>11, <1>15 DEF InTurn
    <3>4. QED
      BY <3>2, <3>3
  <2>3. QED
    BY <2>1, <2>2
<1>17. Visiting'
  BY <1>11 DEF IInv, Visiting
<1>18. WorkInDocument'
  BY <1>1, <1>11, <1>14, WorkKept DEF IInv, WorkInDocument, document
<1>19. QED
  BY <1>8, <1>9, <1>10, <1>13, <1>16, <1>17, <1>18 DEF IInv

----------------------------------------------------------------------------
(* An entry is popped: either the next pass of the list begins, and        *)
(* nothing else waits above the passes after it, or the pass that runs is  *)
(* called once more.                                                       *)

LEMMA PopLast ==
  ASSUME NEW E, NEW s \in Seq(E), Len(s) # 0
  PROVE  /\ SubSeq(s, 1, Len(s) - 1) \in Seq(E)
         /\ Len(SubSeq(s, 1, Len(s) - 1)) = Len(s) - 1
         /\ \A i \in 1 .. Len(s) - 1 : SubSeq(s, 1, Len(s) - 1)[i] = s[i]
<1>1. Len(s) \in Nat /\ \A i \in 1 .. Len(s) - 1 : s[i] \in E
  BY LenProperties, ElementOfSeq
<1> DEFINE n == Len(s) - 1
<1>2. n \in Nat /\ \A i \in 1 .. n : s[i] \in E
  BY <1>1
<1> HIDE DEF n
<1>3. /\ SubSeq(s, 1, n) \in Seq(E)
      /\ Len(SubSeq(s, 1, n)) = IF 1 <= n THEN n - 1 + 1 ELSE 0
      /\ \A i \in 1 .. n - 1 + 1 : SubSeq(s, 1, n)[i] = s[1 + i - 1]
  BY <1>2, SubSeqProperties
<1>4. Len(SubSeq(s, 1, n)) = n
  BY <1>2, <1>3
<1>5. \A i \in 1 .. n : SubSeq(s, 1, n)[i] = s[i]
  BY <1>2, <1>3
<1>6. QED
  BY <1>3, <1>4, <1>5 DEF n

LEMMA PopEffect ==
  ASSUME IInv, PopEntry
  PROVE  /\ Loaded /\ call \in DOMAIN lists /\ Len(lists[call]) \in Nat
         /\ stack \in Seq(Entry) /\ Len(stack) \in Nat /\ Len(stack) # 0
         /\ Popped \in Entry /\ Popped = stack[Len(stack)]
         /\ stack' \in Seq(Entry) /\ Len(stack') = Len(stack) - 1
         /\ \A i \in 1 .. Len(stack') : stack'[i] = stack[i]
         /\ running.todo = <<>>
         /\ freed' = IF Popped.node = ROOT_NODE THEN {} ELSE freed
<1>1. TypeOK /\ Loaded /\ running.todo = <<>> /\ stack # <<>>
      /\ stack' = SubSeq(stack, 1, Len(stack) - 1)
  BY DEF IInv, PopEntry
<1>2. /\ stack \in Seq(Entry) /\ Len(stack) \in Nat
      /\ call \in DOMAIN lists /\ Len(lists[call]) \in Nat
  BY <1>1, Typed DEF Loaded
<1>3. Len(stack) # 0 /\ Len(stack) \in 1 .. Len(stack)
  BY <1>1, <1>2, EmptySeq
<1>4. stack[Len(stack)] \in Entry
  BY <1>2, <1>3, ElementOfSeq
<1>5. /\ stack' \in Seq(Entry) /\ Len(stack') = Len(stack) - 1
      /\ \A i \in 1 .. Len(stack') : stack'[i] = stack[i]
  BY <1>1, <1>2, <1>3, PopLast
<1>6. freed' = IF Popped.node = ROOT_NODE THEN {} ELSE freed
  BY DEF PopEntry
<1>7. QED
  BY <1>1, <1>2, <1>3, <1>4, <1>5, <1>6 DEF Popped

LEMMA PopStarts ==
  ASSUME IInv, PopEntry, Popped.node = ROOT_NODE
  PROVE  /\ Len(started) + Len(stack) = Len(lists[call])
         /\ Popped.pass = Len(started) + 1
         /\ Len(started) + 1 <= Len(lists[call])
         /\ started' \in Seq(STRING)
         /\ Len(started') = Len(started) + 1
         /\ \A i \in 1 .. Len(started') : started'[i] = lists[call][i]
         /\ \A i \in 1 .. Len(stack) : stack[i].node = ROOT_NODE
<1> DEFINE L == Len(lists[call])
           S == Len(started)
           m == Len(stack)
           T == STRING
<1>1. /\ Loaded /\ L \in Nat /\ m \in Nat /\ m # 0 /\ S \in Nat
      /\ started \in Seq(T) /\ lists[call] \in Seq(T) /\ Popped = stack[m]
  BY PopEffect, Typed DEF IInv
<1>2. /\ S + m >= L /\ S <= L
      /\ \A i \in 1 .. m :
           IF i <= L - S THEN stack[i] = Begin(L - i + 1)
           ELSE stack[i].node # ROOT_NODE /\ stack[i].pass = S
      /\ \A i \in 1 .. S : started[i] = lists[call][i]
  BY <1>1 DEF IInv, StackShape, InTurn
<1>3. m \in 1 .. m /\ m <= L - S /\ stack[m] = Begin(L - m + 1)
  <2>1. m \in 1 .. m
    BY <1>1
  <2>2. stack[m].node = ROOT_NODE
    BY <1>1
  <2>3. QED
    BY <2>1, <2>2, <1>2
<1>4. S + m = L /\ L - m + 1 = S + 1 /\ S + 1 <= L
  <2>1. m <= L - S /\ S + m >= L /\ L \in Nat /\ S \in Nat /\ m \in Nat /\ m # 0
    BY <1>1, <1>2, <1>3
  <2> HIDE DEF L, S, m
  <2>2. QED
    BY <2>1
<1>5. Popped.pass = S + 1
  BY <1>1, <1>3, <1>4 DEF Begin, Work
<1>6. S + 1 \in 1 .. L /\ PassOf(Popped) = lists[call][S + 1]
  BY <1>1, <1>4, <1>5 DEF PassOf
<1>7. lists[call][S + 1] \in T
  BY <1>1, <1>6, ElementOfSeq
<1>8. started' = Append(started, lists[call][S + 1])
  BY <1>6 DEF PopEntry
<1>9. /\ started' \in Seq(T) /\ Len(started') = S + 1
      /\ \A i \in 1 .. S : started'[i] = started[i]
      /\ started'[S + 1] = lists[call][S + 1]
  <2> HIDE DEF T
  <2>1. QED
    BY <1>1, <1>7, <1>8, AppendProperties
<1>10. \A i \in 1 .. S + 1 : started'[i] = lists[call][i]
  BY <1>1, <1>2, <1>9
<1>11. ASSUME NEW i \in 1 .. m
       PROVE  stack[i].node = ROOT_NODE
  <2>1. i <= L - S
    BY <1>1, <1>4
  <2>2. stack[i] = Begin(L - i + 1)
    BY <2>1, <1>2
  <2>3. QED
    BY <2>2 DEF Begin, Work
<1>12. QED
  BY <1>4, <1>5, <1>9, <1>10, <1>11

LEMMA PopContinues ==
  ASSUME IInv, PopEntry, Popped.node # ROOT_NODE
  PROVE  /\ Len(started) + Len(stack) > Len(lists[call])
         /\ Popped.pass = Len(started)
         /\ started' = started
         /\ Popped.node \in Pending
         /\ PassOf(Popped) \notin {"xslt_proc", "dump_tree"}
<1> DEFINE L == Len(lists[call])
           S == Len(started)
           m == Len(stack)
<1>1. /\ Loaded /\ L \in Nat /\ m \in Nat /\ m # 0 /\ S \in Nat /\ Popped = stack[m]
  BY PopEffect, Typed DEF IInv
<1>2. /\ S + m >= L /\ S <= L
      /\ \A i \in 1 .. m :
           IF i <= L - S THEN stack[i] = Begin(L - i + 1)
           ELSE stack[i].node # ROOT_NODE /\ stack[i].pass = S
  BY <1>1 DEF IInv, StackShape, InTurn
<1>3. m \in 1 .. m /\ ~(m <= L - S) /\ stack[m].pass = S
  <2>1. m \in 1 .. m
    BY <1>1
  <2>2. stack[m].node # ROOT_NODE /\ stack[m] # Begin(L - m + 1)
    BY <1>1 DEF Begin, Work
  <2>3. QED
    BY <2>1, <2>2, <1>2
<1>4. S + m > L
  BY <1>1, <1>3
<1>5. Popped.node \in Pending
  BY <1>1, <1>3, PendingIs
<1>6. lists[call][S] \notin {"xslt_proc", "dump_tree"}
  BY <1>1, <1>5 DEF IInv, InTurn
<1>7. started' = started
  BY DEF PopEntry
<1>8. QED
  BY <1>1, <1>3, <1>4, <1>5, <1>6, <1>7 DEF PassOf

(* Of the entries that wait, the pop takes one away, or there was none. *)
LEMMA PopPending ==
  ASSUME IInv, PopEntry
  PROVE  /\ Waiting' \subseteq Waiting
         /\ Pending' \subseteq Pending
         /\ Popped.node = ROOT_NODE => Waiting' = {} /\ Pending' = {}
<1>1. /\ Len(stack) \in Nat /\ Len(stack) # 0 /\ Popped = stack[Len(stack)]
      /\ Len(stack') = Len(stack) - 1
      /\ \A i \in 1 .. Len(stack') : stack'[i] = stack[i]
  BY PopEffect
<1>2. \A i \in 1 .. Len(stack') : i \in 1 .. Len(stack)
  BY <1>1
<1>3. Waiting' = {stack'[i] : i \in {j \in 1 .. Len(stack') : stack'[j].node # ROOT_NODE}}
  BY DEF Waiting
<1>4. Waiting' \subseteq Waiting
  BY <1>1, <1>2, <1>3 DEF Waiting
<1>5. Popped.node = ROOT_NODE => Waiting' = {}
  BY <1>1, <1>2, <1>3, PopStarts
<1>6. Pending' = {work.node : work \in Waiting'}
  BY DEF Pending
<1>7. QED
  BY <1>4, <1>5, <1>6 DEF Pending

(* What waits after a pop, and what the call that it begins goes through,  *)
(* is in the document.                                                     *)
LEMMA PopWork ==
  ASSUME IInv, PopEntry, live' = live, doc' = doc,
         Range(running'.todo) \cup Range(running'.pushed) \subseteq live \cup freed'
  PROVE  WorkInDocument'
<1>1. \A work \in Waiting : work.doc = doc /\ work.node \in live \cup freed
  BY DEF IInv, WorkInDocument
<1>2. CASE Popped.node = ROOT_NODE
  <2>1. Waiting' = {}
    BY <1>2, PopPending
  <2>2. QED
    BY <2>1 DEF WorkInDocument
<1>3. CASE Popped.node # ROOT_NODE
  <2>1. freed' = freed
    BY <1>3, PopEffect
  <2>2. \A work \in Waiting' : work.doc = doc' /\ work.node \in live' \cup freed'
    BY <1>1, <2>1, PopPending
  <2>3. QED
    BY <2>2 DEF WorkInDocument
<1>4. QED
  BY <1>2, <1>3

(* What every pop preserves, whatever the pass does with the document. *)
LEMMA PopStep ==
  ASSUME IInv, PopEntry, UNCHANGED <<engine, call, loaded, count>>,
         running' \in Calling,
         running'.todo # <<>> =>
           /\ running'.pass = Popped.pass
           /\ PassOf(Popped) \notin {"xslt_proc", "dump_tree"},
         doc' \in Nat, home' \in Nat, live' \subseteq Nodes, WorkInDocument'
  PROVE  IInv'
<1> DEFINE L == Len(lists[call])
           S == Len(started)
           m == Len(stack)
<1>1. /\ script' = script /\ read' = read /\ lists' = lists /\ call' = call
      /\ loaded' = loaded /\ count' = count
  BY DEF engine
<1>2. TypeOK /\ Loaded /\ Loaded' /\ lists'[call'] = lists[call]
  BY <1>1, PopEffect DEF IInv, Loaded
<1>3. /\ L \in Nat /\ m \in Nat /\ m # 0 /\ S \in Nat /\ Popped \in Entry
      /\ stack' \in Seq(Entry) /\ Len(stack') = m - 1
      /\ \A i \in 1 .. m - 1 : stack'[i] = stack[i]
  BY PopEffect, Typed DEF IInv
<1>4. /\ S + m >= L /\ S <= L
      /\ \A i \in 1 .. m :
           IF i <= L - S THEN stack[i] = Begin(L - i + 1)
           ELSE stack[i].node # ROOT_NODE /\ stack[i].pass = S
      /\ \A i \in 1 .. S : started[i] = lists[call][i]
  BY <1>2 DEF IInv, StackShape, InTurn
<1>5. /\ started' \in Seq(STRING)
      /\ Len(started') <= L /\ Popped.pass = Len(started')
      /\ \A i \in 1 .. Len(started') : started'[i] = lists[call][i]
      /\ Len(started') + (m - 1) >= L
      /\ \A i \in 1 .. m - 1 :
           IF i <= L - Len(started') THEN stack[i] = Begin(L - i + 1)
           ELSE stack[i].node # ROOT_NODE /\ stack[i].pass = Len(started')
  <2>1. CASE Popped.node = ROOT_NODE
    <3>1. /\ S + m = L /\ Popped.pass = S + 1 /\ S + 1 <= L
          /\ started' \in Seq(STRING) /\ Len(started') = S + 1
          /\ \A i \in 1 .. Len(started') : started'[i] = lists[call][i]
      BY <2>1, PopStarts
    <3>2. ASSUME NEW i \in 1 .. m - 1
          PROVE  i <= L - (S + 1) /\ stack[i] = Begin(L - i + 1)
      <4>1. i \in 1 .. m /\ i <= L - (S + 1) /\ i <= L - S
        <5> HIDE DEF L, S, m
        <5>1. QED
          BY <3>1, <1>3
      <4> HIDE DEF L, S, m
      <4>2. stack[i] = Begin(L - i + 1)
        BY ONLY <4>1, <1>4
      <4>3. QED
        BY ONLY <4>1, <4>2
    <3>3. (S + 1) + (m - 1) >= L
      <4> HIDE DEF L, S, m
      <4>1. QED
        BY <3>1, <1>3
    <3> HIDE DEF L, S, m
    <3>4. QED
      BY ONLY <3>1, <3>2, <3>3
  <2>2. CASE Popped.node # ROOT_NODE
    <3>1. S + m > L /\ Popped.pass = S /\ started' = started
      BY <2>2, PopContinues
    <3>2. started \in Seq(STRING)
      BY <1>2 DEF TypeOK
    <3>3. S + (m - 1) >= L
      <4> HIDE DEF L, S, m
      <4>1. QED
        BY <3>1, <1>3
    <3>4. \A i \in 1 .. m - 1 : i \in 1 .. m
      BY <1>3
    <3>5. QED
      BY <3>1, <3>2, <3>3, <3>4, <1>4
  <2>3. QED
    BY <2>1, <2>2
<1>6. TypeOK'
  <2>1. Len(stack') <= count
    BY <1>2, <1>3 DEF TypeOK
  <2>2. stack' \in Seq([node : Nodes \cup {ROOT_NODE}, pass : Nat \ {0}, doc : Nat])
    BY <1>3 DEF Entry
  <2>3. freed' \subseteq Nodes
    BY <1>2, PopEffect DEF TypeOK
  <2>4. running' \in [pass : Nat, todo : Seq(Nodes), pushed : Seq(Nodes)]
    BY DEF Calling
  <2>5. QED
    BY <1>1, <1>2, <1>5, <2>1, <2>2, <2>3, <2>4 DEF TypeOK
<1>7. FileRead'
  BY <1>1 DEF IInv, FileRead
<1>8. Loading'
  BY <1>2 DEF Loading
<1>9. StackShape'
  <2>1. ASSUME NEW i \in 1 .. Len(stack')
        PROVE  IF i <= L - Len(started') THEN stack'[i] = Begin(L - i + 1)
               ELSE stack'[i].node # ROOT_NODE /\ stack'[i].pass = Len(started')
    BY <1>3, <1>5
  <2>2. Len(started') + Len(stack') >= L
    BY <1>3, <1>5
  <2>3. running'.todo # <<>> => running'.pass = Len(started')
    BY <1>5
  <2>4. QED
    BY <2>1, <2>2, <2>3, <1>2 DEF StackShape
<1>10. InTurn'
  <2>1. SUFFICES ASSUME Pending' \cup Range(running'.todo) # {}
                 PROVE  lists[call][Len(started')] \notin {"xslt_proc", "dump_tree"}
    BY <1>2, <1>5 DEF InTurn
  <2>2. CASE running'.todo # <<>>
    BY <2>2, <1>5 DEF PassOf
  <2>3. CASE running'.todo = <<>>
    <3>1. Pending' # {}
      BY <2>1, <2>3 DEF Range
    <3>2. Popped.node # ROOT_NODE
      BY <3>1, PopPending
    <3>3. QED
      BY <3>2, <1>5, PopContinues DEF PassOf
  <2>4. QED
    BY <2>2, <2>3
<1>11. Visiting'
  <2>1. Popped.pass # 0
    BY <1>3 DEF Entry
  <2>2. QED
    BY <2>1 DEF Visiting
<1>12. QED
  BY <1>1, <1>6, <1>7, <1>8, <1>9, <1>10, <1>11 DEF IInv

LEMMA OtherPassStep ==
  ASSUME IInv, XsltProc \/ XsltProcFails \/ DumpTree
  PROVE  IInv'
<1>1. /\ PopEntry /\ running' = Idle
      /\ UNCHANGED <<engine, call, loaded, count>> /\ home' = home
      /\ \/ doc' = doc + 1 /\ live' = Nodes /\ PassOf(Popped) = "xslt_proc"
         \/ doc' = doc /\ live' = live
  BY DEF XsltProc, XsltProcFails, DumpTree
<1>2. /\ running' \in Calling
      /\ running'.todo = <<>> /\ running'.pushed = <<>>
  BY <1>1 DEF Idle, Calling
<1>3. doc' \in Nat /\ home' \in Nat /\ live' \subseteq Nodes
  BY <1>1 DEF IInv, TypeOK
<1>4. Range(running'.todo) = {} /\ Range(running'.pushed) = {}
  BY <1>2 DEF Range
<1>5. WorkInDocument'
  <2>1. CASE doc' = doc /\ live' = live
    BY <2>1, <1>1, <1>4, PopWork
  <2>2. CASE PassOf(Popped) = "xslt_proc"
    <3>1. Popped.node = ROOT_NODE
      BY <2>2, <1>1, PopContinues
    <3>2. Waiting' = {}
      BY <3>1, <1>1, PopPending
    <3>3. QED
      BY <3>2, <1>4 DEF WorkInDocument
  <2>3. QED
    BY <2>1, <2>2, <1>1
<1>6. QED
  BY <1>1, <1>2, <1>3, <1>5, PopStep

----------------------------------------------------------------------------
(* The nodes of a list that are in a set, and the call of a pass. *)

LEMMA RangeIs ==
  ASSUME NEW s \in Seq(Nodes)
  PROVE  Range(s) = Elements(s) /\ Range(s) \subseteq Nodes
<1>1. DOMAIN s = 1 .. Len(s) /\ \A i \in 1 .. Len(s) : s[i] \in Nodes
  BY LenProperties, ElementOfSeq
<1>2. QED
  BY <1>1 DEF Range, Elements

LEMMA AmongNodes ==
  ASSUME NEW s \in Seq(Nodes), NEW S
  PROVE  Among(s, S) \in Seq(Nodes) /\ Range(Among(s, S)) = Range(s) \cap S
<1>1. Among(s, S) \in Seq(Nodes) /\ Elements(Among(s, S)) = Elements(s) \cap S
  BY AmongProperties
<1>2. QED
  BY <1>1, RangeIs

LEMMA LiveChildrenProperties ==
  ASSUME NEW n \in Nodes, NEW S
  PROVE  /\ Among(Children[n], S) \in Seq(Nodes)
         /\ Range(Among(Children[n], S)) \subseteq S
<1>1. Children[n] \in Seq(Nodes)
  BY TreeAssumption
<1>2. QED
  BY <1>1, AmongNodes

LEMMA CallStep ==
  ASSUME IInv, CallOnRoot \/ CallOnNode \/ CallOnFreed
  PROVE  IInv'
<1>1. /\ PopEntry /\ PassOf(Popped) \notin {"xslt_proc", "dump_tree"}
      /\ UNCHANGED <<engine, call, loaded, count>>
      /\ doc' = doc /\ live' = live /\ home' = home
      /\ Popped \in Entry
  <2>1. PopEntry
    BY DEF CallOnRoot, CallOnNode, CallOnFreed
  <2>2. QED
    BY <2>1, PopEffect DEF CallOnRoot, CallOnNode, CallOnFreed, IsFunction
<1>2. TypeOK /\ doc \in Nat /\ home \in Nat /\ live \subseteq Nodes
      /\ Popped.pass \in Nat /\ Root \in Nodes
  BY <1>1, TreeAssumption DEF IInv, TypeOK, Entry
<1>3. \E nodes \in Seq(Nodes) :
        Called(nodes) /\ Range(nodes) \subseteq live \cup freed'
  <2>1. CASE CallOnRoot
    <3>1. LiveChildren(Root) \in Seq(Nodes) /\ Range(LiveChildren(Root)) \subseteq live
      BY <1>2, LiveChildrenProperties DEF LiveChildren
    <3>2. QED
      BY <2>1, <3>1 DEF CallOnRoot
  <2>2. CASE CallOnNode
    <3>1. Popped.node \in Nodes
      BY <2>2, <1>2 DEF CallOnNode
    <3>2. /\ LiveChildren(Popped.node) \in Seq(Nodes)
          /\ Range(LiveChildren(Popped.node)) \subseteq live
      BY <3>1, LiveChildrenProperties DEF LiveChildren
    <3>3. QED
      BY <2>2, <3>2 DEF CallOnNode
  <2>3. CASE CallOnFreed
    <3>1. Popped.node \in Nodes /\ Popped.node # ROOT_NODE /\ freed' = freed
      BY <2>3, <1>1, PopEffect DEF CallOnFreed, Entry
    <3>2. CASE Called(<<>>)
      <4>1. <<>> \in Seq(Nodes) /\ Range(<<>>) = {}
        BY DEF Range
      <4>2. QED
        BY <3>2, <4>1
    <3>3. CASE Called(Among(Children[Popped.node], freed))
      BY <3>1, <3>3, LiveChildrenProperties
    <3>4. ASSUME NEW n \in live, Called(LiveChildren(n))
          PROVE  \E nodes \in Seq(Nodes) :
                   Called(nodes) /\ Range(nodes) \subseteq live \cup freed'
      <4>1. LiveChildren(n) \in Seq(Nodes) /\ Range(LiveChildren(n)) \subseteq live
        BY <1>2, LiveChildrenProperties DEF LiveChildren
      <4>2. QED
        BY <3>4, <4>1
    <3>5. QED
      BY <2>3, <3>2, <3>3, <3>4 DEF CallOnFreed
  <2>4. QED
    BY <2>1, <2>2, <2>3
<1>4. PICK nodes \in Seq(Nodes) : Called(nodes) /\ Range(nodes) \subseteq live \cup freed'
  BY <1>3
<1>5. /\ running' \in Calling /\ running'.pass = Popped.pass
      /\ running'.todo = nodes /\ running'.pushed = <<>>
  BY <1>2, <1>4 DEF Called, Calling
<1>6. Range(running'.pushed) = {}
  BY <1>5 DEF Range
<1>7. WorkInDocument'
  BY <1>1, <1>4, <1>5, <1>6, PopWork
<1>8. QED
  BY <1>1, <1>2, <1>5, <1>7, PopStep

(* The program that a freed node kills leaves everything as it was. *)
LEMMA FaultStep ==
  ASSUME IInv, Fault
  PROVE  IInv'
<1>1. /\ Loaded /\ call' = "crashed" /\ running' = Idle
      /\ UNCHANGED <<engine, loaded, stack, count, started, document>>
  BY DEF Fault
<1>2. /\ script' = script /\ read' = read /\ lists' = lists /\ loaded' = loaded
      /\ stack' = stack /\ count' = count /\ started' = started
      /\ doc' = doc /\ live' = live /\ freed' = freed /\ home' = home
  BY <1>1 DEF engine, document
<1>3. TypeOK /\ call \in Types
  BY <1>1 DEF IInv, TypeOK, Loaded
<1>4. /\ running' \in [pass : Nat, todo : Seq(Nodes), pushed : Seq(Nodes)]
      /\ running'.todo = <<>> /\ running'.pushed = <<>>
  BY <1>1 DEF Idle
<1>5. TypeOK'
  BY <1>1, <1>2, <1>3, <1>4 DEF TypeOK
<1>6. FileRead'
  BY <1>1, <1>2, <1>3 DEF IInv, FileRead, Types
<1>7. call' \notin DOMAIN lists' /\ ~ Loaded'
  BY <1>1, <1>2, <1>3 DEF TypeOK, Types, Loaded
<1>8. Loading' /\ InTurn' /\ StackShape' /\ Visiting'
  BY <1>1, <1>4, <1>7 DEF Loading, InTurn, StackShape, Visiting
<1>9. Range(running'.todo) = {} /\ Range(running'.pushed) = {}
  BY <1>4 DEF Range
<1>10. WorkInDocument'
  BY <1>2, <1>9, PendingIs, WorkKept DEF IInv
<1>11. QED
  BY <1>2, <1>5, <1>6, <1>8, <1>10 DEF IInv

----------------------------------------------------------------------------
(* What a pass does with the next node. *)

LEMMA TailRange ==
  ASSUME NEW s \in Seq(Nodes), s # <<>>
  PROVE  /\ Head(s) \in Range(s) /\ Tail(s) \in Seq(Nodes)
         /\ Range(Tail(s)) \subseteq Range(s)
<1> DEFINE r == Tail(s)
<1>1. /\ r \in Seq(Nodes) /\ Len(s) \in Nat /\ Len(s) # 0 /\ Len(r) = Len(s) - 1
      /\ \A i \in 1 .. Len(r) : r[i] = s[i + 1]
      /\ Head(s) = s[1]
  OBVIOUS
<1> HIDE DEF r
<1>2. \A i \in 1 .. Len(r) : i + 1 \in 1 .. Len(s)
  BY <1>1
<1>3. 1 \in 1 .. Len(s)
  BY <1>1
<1>4. Head(s) \in Range(s) /\ Range(r) \subseteq Range(s)
  BY <1>1, <1>2, <1>3, RangeIs DEF Elements
<1>5. QED
  BY <1>1, <1>4 DEF r

(* The node at hand, and what is left when it is done with. *)
LEMMA ChildEffect ==
  ASSUME IInv, running.todo # <<>>
  PROVE  /\ Loaded
         /\ Child \in Nodes /\ Child \in Range(running.todo)
         /\ Tail(running.todo) \in Seq(Nodes)
         /\ Range(Tail(running.todo)) \subseteq Range(running.todo)
<1>1. running.todo \in Seq(Nodes)
  BY Typed DEF IInv
<1>2. Loaded
  BY DEF IInv, Loading
<1>3. QED
  BY <1>1, <1>2, TailRange, RangeIs DEF Child

(* A step of a call: what is below the work of the pass is as it was, and  *)
(* what is pushed is work of that pass, on a node of the document.         *)
LEMMA CallGoesOn ==
  ASSUME IInv, Loaded,
         UNCHANGED <<engine, call, loaded, started, doc, home>>,
         live' \subseteq Nodes, freed' \subseteq Nodes,
         live \cup freed \subseteq live' \cup freed',
         running' \in Calling, running'.pass = running.pass,
         running'.todo # <<>> => running.todo # <<>>,
         Range(running'.todo) \cup Range(running'.pushed) \subseteq live' \cup freed',
         \/ stack' = stack /\ count' = count
         \/ \E n \in Nodes : /\ Push(n) /\ n \in live \cup freed
                             /\ running.todo # <<>>
  PROVE  IInv'
<1> DEFINE L == Len(lists[call])
           S == Len(started)
           m == Len(stack)
<1>1. /\ script' = script /\ read' = read /\ lists' = lists /\ call' = call
      /\ loaded' = loaded /\ started' = started /\ doc' = doc /\ home' = home
  BY DEF engine
<1>2. TypeOK /\ Loaded /\ Loaded' /\ lists'[call'] = lists[call] /\ WorkInDocument
  BY <1>1 DEF IInv, Loaded
<1>3. /\ L \in Nat /\ m \in Nat /\ S \in Nat /\ stack \in Seq(Entry)
      /\ running.pass \in Nat /\ doc \in Nat
      /\ running.todo # <<>> => running.pass # 0
  BY <1>2, Typed DEF IInv, Loaded, Visiting
<1>4. /\ S + m >= L /\ S <= L
      /\ running.todo # <<>> => running.pass = S
      /\ \A i \in 1 .. m :
           IF i <= L - S THEN stack[i] = Begin(L - i + 1)
           ELSE stack[i].node # ROOT_NODE /\ stack[i].pass = S
      /\ \A i \in 1 .. S : started[i] = lists[call][i]
  BY <1>2 DEF IInv, StackShape, InTurn
<1>5. running.todo # <<>> => Range(running.todo) # {}
  BY ChildEffect
<1>6. Pending \cup Range(running.todo) # {} =>
        lists[call][S] \notin {"xslt_proc", "dump_tree"}
  BY <1>2 DEF IInv, InTurn
<1>7. /\ stack' \in Seq(Entry) /\ Len(stack') \in {m, m + 1}
      /\ count' \in Nat /\ count' # 0 /\ Len(stack') <= count'
      /\ \A i \in 1 .. m : stack'[i] = stack[i]
      /\ \A i \in 1 .. Len(stack') : i \notin 1 .. m =>
           /\ stack'[i].node # ROOT_NODE /\ stack'[i].pass = running.pass
           /\ stack'[i].doc = doc /\ stack'[i].node \in live \cup freed
           /\ running.todo # <<>>
  <2>1. CASE stack' = stack /\ count' = count
    BY <2>1, <1>2, <1>3 DEF IInv, TypeOK
  <2>2. ASSUME NEW n \in Nodes, Push(n), n \in live \cup freed, running.todo # <<>>
        PROVE  /\ stack' \in Seq(Entry) /\ Len(stack') \in {m, m + 1}
               /\ count' \in Nat /\ count' # 0 /\ Len(stack') <= count'
               /\ \A i \in 1 .. m : stack'[i] = stack[i]
               /\ \A i \in 1 .. Len(stack') : i \notin 1 .. m =>
                    /\ stack'[i].node # ROOT_NODE /\ stack'[i].pass = running.pass
                    /\ stack'[i].doc = doc /\ stack'[i].node \in live \cup freed
                    /\ running.todo # <<>>
    <3> DEFINE e == Work(n, running.pass, doc)
    <3>1. /\ e \in Entry /\ e.node = n /\ e.pass = running.pass /\ e.doc = doc
          /\ n # ROOT_NODE
      BY <2>2, <1>3, NodesAreNumbers DEF Work, Entry
    <3>2. stack' = Append(stack, e) /\ count' = Grown
      BY <2>2 DEF Push
    <3> HIDE DEF e
    <3>3. /\ Append(stack, e) \in Seq(Entry) /\ Len(Append(stack, e)) = m + 1
          /\ \A i \in 1 .. m : Append(stack, e)[i] = stack[i]
          /\ Append(stack, e)[m + 1] = e
      BY <3>1, <1>3, AppendProperties
    <3>4. \A i \in 1 .. m + 1 : i \notin 1 .. m => i = m + 1
      BY <1>3
    <3>5. Grown \in Nat /\ Grown # 0 /\ m + 1 <= Grown
      BY <1>2, GrownEnough DEF IInv
    <3>6. QED
      BY <2>2, <3>1, <3>2, <3>3, <3>4, <3>5
  <2>3. QED
    BY <2>1, <2>2
<1>8. TypeOK'
  <2>1. stack' \in Seq([node : Nodes \cup {ROOT_NODE}, pass : Nat \ {0}, doc : Nat])
    BY <1>7 DEF Entry
  <2>2. running' \in [pass : Nat, todo : Seq(Nodes), pushed : Seq(Nodes)]
    BY DEF Calling
  <2>3. QED
    BY <1>1, <1>2, <1>7, <2>1, <2>2 DEF TypeOK
<1>9. FileRead'
  BY <1>1 DEF IInv, FileRead
<1>10. Loading'
  BY <1>2 DEF Loading
<1>11. StackShape'
  <2>1. ASSUME NEW i \in 1 .. Len(stack')
        PROVE  IF i <= L - S THEN stack'[i] = Begin(L - i + 1)
               ELSE stack'[i].node # ROOT_NODE /\ stack'[i].pass = S
    <3>1. CASE i \in 1 .. m
      BY <3>1, <1>4, <1>7
    <3>2. CASE i \notin 1 .. m
      <4>1. ~(i <= L - S)
        <5>1. i > m /\ i \in Nat
          BY <3>2, <1>3, <1>7
        <5> HIDE DEF L, S, m
        <5>2. QED
          BY <5>1, <1>3, <1>4
      <4>2. stack'[i].node # ROOT_NODE /\ stack'[i].pass = S
        BY <3>2, <1>4, <1>7
      <4>3. QED
        BY <4>1, <4>2
    <3>3. QED
      BY <3>1, <3>2
  <2>2. S + Len(stack') >= L
    BY <1>3, <1>4, <1>7
  <2>3. running'.todo # <<>> => running'.pass = S
    BY <1>4
  <2>4. QED
    BY <2>1, <2>2, <2>3, <1>1, <1>2 DEF StackShape
<1>12. InTurn'
  <2>1. ASSUME Pending' \cup Range(running'.todo) # {}
        PROVE  Pending \cup Range(running.todo) # {}
    <3>1. CASE Range(running'.todo) # {}
      <4>1. running'.todo # <<>>
        BY <3>1 DEF Range
      <4>2. QED
        BY <4>1, <1>5
    <3>2. CASE Pending' # {}
      <4>1. PICK i \in 1 .. Len(stack') : stack'[i].node # ROOT_NODE
        BY <3>2, PendingIsNext
      <4>2. CASE i \in 1 .. m
        <5>1. i \in 1 .. Len(stack) /\ stack[i].node # ROOT_NODE
          BY <4>1, <4>2, <1>7
        <5>2. stack[i].node \in Pending
          BY <5>1, PendingIs
        <5>3. QED
          BY <5>2
      <4>3. CASE i \notin 1 .. m
        BY <4>1, <4>3, <1>5, <1>7
      <4>4. QED
        BY <4>2, <4>3
    <3>3. QED
      BY <2>1, <3>1, <3>2
  <2>2. QED
    BY <2>1, <1>1, <1>2, <1>4, <1>6 DEF InTurn
<1>13. Visiting'
  BY <1>3 DEF Visiting
<1>14. WorkInDocument'
  <2>1. ASSUME NEW i \in 1 .. Len(stack'), stack'[i].node # ROOT_NODE
        PROVE  \/ stack'[i] \in Waiting
               \/ stack'[i].doc = doc /\ stack'[i].node \in live' \cup freed'
    <3>1. CASE i \in 1 .. m
      BY <2>1, <3>1, <1>7, PendingIs
    <3>2. CASE i \notin 1 .. m
      BY <3>2, <1>7
    <3>3. QED
      BY <3>1, <3>2
  <2>2. QED
    BY <2>1, <1>1, <1>2, WorkKept
<1>15. QED
  BY <1>1, <1>7, <1>8, <1>9, <1>10, <1>11, <1>12, <1>13, <1>14 DEF IInv

(* A node that is freed is remembered for the pass that runs. *)
LEMMA FreeEffect ==
  ASSUME IInv, NEW n, Free(n)
  PROVE  /\ live' \subseteq Nodes /\ freed' \subseteq Nodes
         /\ live \cup freed \subseteq live' \cup freed'
<1>1. live \subseteq Nodes /\ freed \subseteq Nodes
  BY DEF IInv, TypeOK
<1>2. QED
  BY <1>1 DEF Free

(* The nodes of a call, before. *)
LEMMA WorkBefore ==
  ASSUME IInv
  PROVE  /\ running \in Calling /\ running.todo \in Seq(Nodes)
         /\ running.pushed \in Seq(Nodes)
         /\ Range(running.todo) \subseteq live \cup freed
         /\ Range(running.pushed) \subseteq live \cup freed
         /\ live \subseteq Nodes /\ freed \subseteq Nodes
  BY Typed DEF IInv, WorkInDocument

LEMMA OneMore ==
  ASSUME NEW s \in Seq(Nodes), NEW n \in Nodes
  PROVE  /\ Append(s, n) \in Seq(Nodes) /\ Range(Append(s, n)) = Range(s) \cup {n}
         /\ <<n>> \o s \in Seq(Nodes) /\ Range(<<n>> \o s) = {n} \cup Range(s)
<1>1. /\ Append(s, n) \in Seq(Nodes) /\ <<n>> \o s \in Seq(Nodes)
      /\ Len(s) \in Nat /\ Len(Append(s, n)) = Len(s) + 1
      /\ Len(<<n>> \o s) = 1 + Len(s)
  OBVIOUS
<1>2. \A i \in 1 .. Len(s) : Append(s, n)[i] = s[i] /\ (<<n>> \o s)[i + 1] = s[i]
  OBVIOUS
<1>3. Append(s, n)[Len(s) + 1] = n /\ (<<n>> \o s)[1] = n
  OBVIOUS
<1>4. \A i \in 1 .. Len(s) + 1 : i \in 1 .. Len(s) \/ i = Len(s) + 1
  BY <1>1
<1>5. \A i \in 1 .. Len(s) + 1 : i = 1 \/ (i - 1 \in 1 .. Len(s) /\ (i - 1) + 1 = i)
  BY <1>1
<1>6. Range(Append(s, n)) = Range(s) \cup {n}
  <2>1. \A i \in 1 .. Len(s) : i \in 1 .. Len(s) + 1
    BY <1>1
  <2>2. Len(s) + 1 \in 1 .. Len(s) + 1
    BY <1>1
  <2>3. Range(s) = {s[i] : i \in 1 .. Len(s)}
          /\ Range(Append(s, n)) = {Append(s, n)[i] : i \in 1 .. Len(s) + 1}
    BY <1>1, RangeIs DEF Elements
  <2>4. QED
    BY <1>2, <1>3, <1>4, <2>1, <2>2, <2>3
<1>7. Range(<<n>> \o s) = {n} \cup Range(s)
  <2>1. \A i \in 1 .. Len(s) : i + 1 \in 1 .. 1 + Len(s)
    BY <1>1
  <2>2. 1 \in 1 .. 1 + Len(s) /\ 1 + Len(s) = Len(s) + 1
    BY <1>1
  <2>3. \A i \in 1 .. 1 + Len(s) :
          (<<n>> \o s)[i] = n \/ \E k \in 1 .. Len(s) : (<<n>> \o s)[i] = s[k]
    BY <1>1, <1>2, <1>3, <1>5, <2>2
  <2>4. Range(s) = {s[i] : i \in 1 .. Len(s)}
          /\ Range(<<n>> \o s) = {(<<n>> \o s)[i] : i \in 1 .. 1 + Len(s)}
    BY <1>1, RangeIs DEF Elements
  <2>5. Range(<<n>> \o s) \subseteq {n} \cup Range(s)
    BY <2>3, <2>4
  <2>6. n \in Range(<<n>> \o s)
    BY <1>3, <2>2, <2>4
  <2>7. \A i \in 1 .. Len(s) : s[i] \in Range(<<n>> \o s)
    BY <1>2, <2>1, <2>4
  <2>8. QED
    BY <2>4, <2>5, <2>6, <2>7
<1>8. QED
  BY <1>1, <1>6, <1>7

LEMMA JoinedRange ==
  ASSUME NEW s \in Seq(Nodes), NEW r \in Seq(Nodes)
  PROVE  s \o r \in Seq(Nodes) /\ Range(s \o r) \subseteq Range(s) \cup Range(r)
<1>1. /\ s \o r \in Seq(Nodes) /\ Len(s) \in Nat /\ Len(r) \in Nat
      /\ Len(s \o r) = Len(s) + Len(r)
  OBVIOUS
<1>2. \A i \in 1 .. Len(s) + Len(r) :
        (s \o r)[i] = IF i <= Len(s) THEN s[i] ELSE r[i - Len(s)]
  OBVIOUS
<1>3. \A i \in 1 .. Len(s) + Len(r) : i \in 1 .. Len(s) \/ i - Len(s) \in 1 .. Len(r)
  BY <1>1
<1>4. \A i \in 1 .. Len(s) + Len(r) :
        \/ \E k \in 1 .. Len(s) : (s \o r)[i] = s[k]
        \/ \E k \in 1 .. Len(r) : (s \o r)[i] = r[k]
  <2>1. SUFFICES ASSUME NEW i \in 1 .. Len(s) + Len(r)
                 PROVE  \/ \E k \in 1 .. Len(s) : (s \o r)[i] = s[k]
                        \/ \E k \in 1 .. Len(r) : (s \o r)[i] = r[k]
    OBVIOUS
  <2>2. CASE i <= Len(s)
    BY <2>2, <1>1, <1>2
  <2>3. CASE ~ (i <= Len(s))
    <3>1. i - Len(s) \in 1 .. Len(r) /\ (s \o r)[i] = r[i - Len(s)]
      BY <2>3, <1>1, <1>2
    <3>2. QED
      BY <3>1
  <2>4. QED
    BY <2>2, <2>3
<1>5. /\ Range(s) = {s[i] : i \in 1 .. Len(s)} /\ Range(r) = {r[i] : i \in 1 .. Len(r)}
      /\ Range(s \o r) = {(s \o r)[i] : i \in 1 .. Len(s) + Len(r)}
  BY <1>1, RangeIs DEF Elements
<1>6. QED
  BY <1>1, <1>4, <1>5

LEMMA PushStep ==
  ASSUME IInv, PushChild \/ MergeNext \/ PushAgain
  PROVE  IInv'
<1> DEFINE t == running.todo
           again == Among(running.pushed, live)
<1>1. /\ t \in Seq(Nodes) /\ running \in Calling /\ running.pushed \in Seq(Nodes)
      /\ Range(t) \subseteq live \cup freed
      /\ Range(running.pushed) \subseteq live \cup freed
      /\ live \subseteq Nodes /\ freed \subseteq Nodes
  BY WorkBefore
<1>2. t # <<>>
  BY DEF PushChild, MergeNext, PushAgain
<1>3. /\ Loaded /\ Child \in Nodes /\ Child \in Range(t)
      /\ Tail(t) \in Seq(Nodes) /\ Range(Tail(t)) \subseteq Range(t)
  BY <1>2, ChildEffect
<1>4. /\ Append(running.pushed, Child) \in Seq(Nodes)
      /\ Range(Append(running.pushed, Child)) = Range(running.pushed) \cup {Child}
  BY <1>1, <1>3, OneMore
<1>5. CASE PushChild
  <2>1. /\ Push(Child) /\ live' = live /\ freed' = freed
        /\ running' = [running EXCEPT !.todo = Tail(t), !.pushed = Append(running.pushed, Child)]
        /\ UNCHANGED <<engine, call, loaded, started, doc, home>>
    BY <1>5 DEF PushChild, document
  <2>2. /\ running' \in Calling /\ running'.pass = running.pass
        /\ running'.todo = Tail(t) /\ running'.pushed = Append(running.pushed, Child)
    BY <1>1, <1>3, <1>4, <2>1 DEF Calling
  <2>3. QED
    BY <1>1, <1>2, <1>3, <1>4, <2>1, <2>2, CallGoesOn
<1>6. CASE MergeNext
  <2> DEFINE rest == Tail(Tail(t))
  <2>1. /\ Push(Child) /\ Free(t[2])
        /\ running' = [running EXCEPT !.todo = <<Child>> \o rest, !.pushed = Append(running.pushed, Child)]
        /\ UNCHANGED <<engine, call, loaded, started, doc, home>>
    BY <1>6 DEF MergeNext
  <2>2. rest \in Seq(Nodes) /\ Range(rest) \subseteq Range(Tail(t))
    <3>1. Tail(t) \in Seq(Nodes) /\ Tail(t) # <<>>
      BY <1>3, <1>6 DEF MergeNext
    <3>2. QED
      BY <3>1, TailRange
  <2> HIDE DEF rest
  <2>3. <<Child>> \o rest \in Seq(Nodes) /\ Range(<<Child>> \o rest) = {Child} \cup Range(rest)
    BY <1>3, <2>2, OneMore
  <2>4. /\ running' \in Calling /\ running'.pass = running.pass
        /\ running'.todo = <<Child>> \o rest
        /\ running'.pushed = Append(running.pushed, Child)
    BY <1>1, <1>4, <2>1, <2>3 DEF Calling
  <2>5. /\ live' \subseteq Nodes /\ freed' \subseteq Nodes
        /\ live \cup freed \subseteq live' \cup freed'
    BY <2>1, FreeEffect
  <2>6. Range(running'.todo) \cup Range(running'.pushed) \subseteq live' \cup freed'
    BY <1>1, <1>3, <1>4, <2>2, <2>3, <2>4, <2>5
  <2>7. QED
    BY <1>1, <1>2, <1>3, <2>1, <2>4, <2>5, <2>6, CallGoesOn
<1>7. CASE PushAgain
  <2>1. again \in Seq(Nodes) /\ Range(again) \subseteq Range(running.pushed) \cap live
    BY <1>1, AmongNodes
  <2>2. /\ again # <<>> /\ Push(Head(again)) /\ live' = live /\ freed' = freed
        /\ running' = [running EXCEPT !.pushed = Tail(again)]
        /\ UNCHANGED <<engine, call, loaded, started, doc, home>>
    BY <1>7 DEF PushAgain, document
  <2> HIDE DEF again
  <2>3. /\ Tail(again) \in Seq(Nodes) /\ Range(Tail(again)) \subseteq Range(again)
        /\ Head(again) \in Range(again)
    BY <2>1, <2>2, TailRange
  <2>4. /\ running' \in Calling /\ running'.pass = running.pass
        /\ running'.todo = t /\ running'.pushed = Tail(again)
    BY <1>1, <2>2, <2>3 DEF Calling
  <2>5. Head(again) \in Nodes /\ Head(again) \in live \cup freed
    BY <1>1, <2>1, <2>3
  <2>6. QED
    BY <1>1, <1>2, <1>3, <2>1, <2>2, <2>3, <2>4, <2>5, CallGoesOn
<1>8. QED
  BY <1>5, <1>6, <1>7

LEMMA FreeStep ==
  ASSUME IInv, DropChild \/ FreePushed
  PROVE  IInv'
<1>1. /\ running.todo \in Seq(Nodes) /\ running \in Calling
      /\ running.pushed \in Seq(Nodes)
      /\ Range(running.todo) \subseteq live \cup freed
      /\ Range(running.pushed) \subseteq live \cup freed
  BY WorkBefore
<1>2. CASE DropChild
  <2>1. /\ running.todo # <<>> /\ Free(Child) /\ NextChild
        /\ stack' = stack /\ count' = count
        /\ UNCHANGED <<engine, call, loaded, started, doc, home>>
    BY <1>2 DEF DropChild
  <2>2. /\ Loaded /\ Tail(running.todo) \in Seq(Nodes)
        /\ Range(Tail(running.todo)) \subseteq Range(running.todo)
    BY <2>1, ChildEffect
  <2>3. /\ running' \in Calling /\ running'.pass = running.pass
        /\ running'.todo = Tail(running.todo) /\ running'.pushed = running.pushed
    BY <1>1, <2>1, <2>2 DEF NextChild, Calling
  <2>4. /\ live' \subseteq Nodes /\ freed' \subseteq Nodes
        /\ live \cup freed \subseteq live' \cup freed'
    BY <2>1, FreeEffect
  <2>5. QED
    BY <1>1, <2>1, <2>2, <2>3, <2>4, CallGoesOn
<1>3. CASE FreePushed
  <2>1. PICK i \in 1 .. Len(running.pushed) :
          /\ running.pushed[i] \in live /\ Free(running.pushed[i])
          /\ UNCHANGED <<engine, call, loaded, stack, count, started, running, doc, home>>
    BY <1>3 DEF FreePushed
  <2>2. /\ live' \subseteq Nodes /\ freed' \subseteq Nodes
        /\ live \cup freed \subseteq live' \cup freed'
    BY <2>1, FreeEffect
  <2>3. /\ stack' = stack /\ count' = count /\ running' = running
    BY <2>1
  <2>4. CASE Loaded
    BY <1>1, <2>1, <2>2, <2>3, <2>4, CallGoesOn
  <2>5. CASE ~ Loaded
    <3>1. /\ TypeOK' /\ FileRead' /\ Loading' /\ Visiting' /\ count' = count
      BY <2>1, <2>2 DEF IInv, TypeOK, FileRead, Loading, Visiting, Loaded, engine
    <3>2. ~ Loaded'
      BY <2>1, <2>5 DEF Loaded, engine
    <3>3. StackShape' /\ InTurn'
      BY <3>2 DEF StackShape, InTurn
    <3>4. WorkInDocument'
      BY <1>1, <2>1, <2>2, <2>3, PendingIs, WorkKept DEF IInv
    <3>5. QED
      BY <3>1, <3>3, <3>4 DEF IInv
  <2>6. QED
    BY <2>4, <2>5
<1>4. QED
  BY <1>2, <1>3

LEMMA VisitStep ==
  ASSUME IInv, VisitChild \/ KeepChild
  PROVE  IInv'
<1>1. /\ running.todo \in Seq(Nodes) /\ running \in Calling
      /\ running.pushed \in Seq(Nodes)
      /\ Range(running.todo) \subseteq live \cup freed
      /\ Range(running.pushed) \subseteq live \cup freed
      /\ live \subseteq Nodes /\ freed \subseteq Nodes
  BY WorkBefore
<1>2. /\ running.todo # <<>> /\ live' = live /\ freed' = freed
      /\ stack' = stack /\ count' = count
      /\ UNCHANGED <<engine, call, loaded, started, doc, home>>
  BY DEF VisitChild, KeepChild, document
<1>3. /\ Loaded /\ Child \in Nodes /\ Tail(running.todo) \in Seq(Nodes)
      /\ Range(Tail(running.todo)) \subseteq Range(running.todo)
  BY <1>2, ChildEffect
<1>4. \E nodes \in Seq(Nodes) : /\ running' = [running EXCEPT !.todo = nodes]
                                /\ Range(nodes) \subseteq live \cup freed
  <2>1. CASE VisitChild
    <3>1. LiveChildren(Child) \in Seq(Nodes) /\ Range(LiveChildren(Child)) \subseteq live
      BY <1>3, LiveChildrenProperties DEF LiveChildren
    <3> DEFINE nodes == LiveChildren(Child) \o Tail(running.todo)
    <3>2. /\ nodes \in Seq(Nodes)
          /\ Range(nodes) \subseteq Range(LiveChildren(Child)) \cup Range(Tail(running.todo))
      BY <1>3, <3>1, JoinedRange
    <3>3. running' = [running EXCEPT !.todo = nodes]
      BY <2>1 DEF VisitChild
    <3> HIDE DEF nodes
    <3>4. Range(nodes) \subseteq live \cup freed
      BY <1>1, <1>3, <3>1, <3>2
    <3>5. QED
      BY <3>2, <3>3, <3>4
  <2>2. CASE KeepChild
    BY <2>2, <1>1, <1>3 DEF KeepChild, NextChild
  <2>3. QED
    BY <2>1, <2>2
<1>5. PICK nodes \in Seq(Nodes) : /\ running' = [running EXCEPT !.todo = nodes]
                                  /\ Range(nodes) \subseteq live \cup freed
  BY <1>4
<1>6. /\ running' \in Calling /\ running'.pass = running.pass
      /\ running'.todo = nodes /\ running'.pushed = running.pushed
  BY <1>1, <1>5 DEF Calling
<1>7. QED
  BY <1>1, <1>2, <1>3, <1>5, <1>6, CallGoesOn

LEMMA PassStep ==
  ASSUME IInv, Pass
  PROVE  IInv'
  BY PushStep, FreeStep, VisitStep DEF Pass

----------------------------------------------------------------------------
(* The theorems. *)

LEMMA StutterStep ==
  ASSUME IInv, UNCHANGED vars
  PROVE  IInv'
<1>1. TypeOK' /\ FileRead' /\ Loading' /\ Visiting' /\ count' = count
  BY DEF IInv, vars, TypeOK, FileRead, Loading, Visiting, Loaded
<1>2. /\ stack' = stack /\ lists' = lists /\ call' = call /\ loaded' = loaded
      /\ started' = started /\ running' = running /\ live' = live
      /\ freed' = freed /\ doc' = doc
  BY DEF vars
<1>3. Waiting' = Waiting /\ Pending' = Pending /\ Loaded' = Loaded
  BY <1>2 DEF Pending, Waiting, Loaded
<1>4. StackShape'
  BY <1>2, <1>3 DEF IInv, StackShape
<1>5. InTurn'
  BY <1>2, <1>3 DEF IInv, InTurn
<1>6. WorkInDocument'
  BY <1>2, <1>3 DEF IInv, WorkInDocument
<1>7. QED
  BY <1>1, <1>4, <1>5, <1>6 DEF IInv

LEMMA Inductive ==
  IInv /\ [Next]_vars => IInv'
<1> SUFFICES ASSUME IInv, [Next]_vars
             PROVE  IInv'
  OBVIOUS
<1>1. CASE Main
  BY <1>1, ReadLineStep, ApplyMathStep, ApplyTextStep, SaveStep DEF Main
<1>2. CASE Engine
  BY <1>2, PushLastStep, CallStep, FaultStep, OtherPassStep, PassStep
     DEF Engine, Calls
<1>3. CASE Stopped \/ UNCHANGED vars
  BY <1>3, StutterStep DEF Stopped
<1>4. QED
  BY <1>1, <1>2, <1>3 DEF Next

(* IInv holds in every state, for every file of transformations, every     *)
(* tree and every number of entries allocated at first.                    *)
THEOREM Invariance ==
  Spec => []IInv
<1>1. QED
  BY Initially, Inductive, PTL DEF Spec

(* The array of entries is never written past what is allocated, and every *)
(* entry names a node and a pass: the growth of the stack by doubling is   *)
(* enough for every push of xmlTransformationPush and PushLast.            *)
THEOREM TypeCorrectness ==
  Spec => []TypeOK
<1>1. IInv => TypeOK
  BY DEF IInv
<1>2. QED
  BY <1>1, Invariance, PTL

(* The work of a pass is over before the next pass of the list begins.     *)
THEOREM PassesInTurn ==
  Spec => []StackShape
<1>1. IInv => StackShape
  BY DEF IInv
<1>2. QED
  BY <1>1, Invariance, PTL

(* No entry outlives its document or, once its node is freed, its pass:    *)
(* what waits is a node of the document that is loaded, or was freed by    *)
(* the pass that runs, however often passes push nodes again or free what  *)
(* they have pushed.                                                       *)
THEOREM WorkStaysInDocument ==
  Spec => []WorkInDocument
<1>1. IInv => WorkInDocument
  BY DEF IInv
<1>2. QED
  BY <1>1, Invariance, PTL

(* Every pass that transformations.xml declares is applied to the root     *)
(* once, in the order of the file, whatever the passes before left.        *)
THEOREM DeclaredPassesOnce ==
  Spec => []EachPassOnce
<1>1. ASSUME IInv, call \in Types
      PROVE  /\ IsPrefix(started, Declared(call))
             /\ ListDone => started = Declared(call)
  <2>1. /\ read = Len(script) /\ TypeOK
        /\ started \in Seq(STRING) /\ Len(started) \in Nat
        /\ script \in Seq(Line) /\ Len(script) \in Nat
    BY <1>1, Typed DEF IInv, FileRead, Types
  <2>2. Declared(call) \in Seq(STRING)
    <3>1. NamedBefore(script, call) \in [0 .. Len(script) -> Seq(STRING)]
      BY <2>1, <1>1, NamedByRecursion
    <3>2. Len(script) \in 0 .. Len(script)
      BY <2>1
    <3>3. QED
      BY <3>1, <3>2 DEF Declared
  <2>3. CASE ~ Loaded
    <3>1. started = <<>>
      BY <2>3, <1>1 DEF IInv, Loading, Types
    <3>2. IsPrefix(<<>>, Declared(call))
      BY <2>2 DEF IsPrefix
    <3>3. ASSUME ListDone
          PROVE  Declared(call) = <<>>
      BY <3>3, <2>1, <2>3, <1>1 DEF ListDone, IInv, FileRead, Declared
    <3>4. QED
      BY <3>1, <3>2, <3>3
  <2>4. CASE Loaded
    <3>1. call \in DOMAIN lists /\ lists[call] = Declared(call)
      BY <2>1, <2>4, <1>1 DEF Loaded, IInv, FileRead, Declared
    <3>2. /\ Len(started) <= Len(Declared(call))
          /\ \A i \in 1 .. Len(started) : started[i] = Declared(call)[i]
      BY <2>4, <3>1, <1>1 DEF IInv, InTurn
    <3>3. IsPrefix(started, Declared(call))
      BY <2>1, <2>2, <3>2 DEF IsPrefix
    <3>4. ASSUME ListDone
          PROVE  started = Declared(call)
      <4>1. stack = <<>>
        BY <3>1, <3>4 DEF ListDone
      <4>2. Len(started) >= Len(Declared(call))
        BY <4>1, <2>1, <2>4, <3>1, <1>1 DEF IInv, StackShape
      <4>3. Len(started) = Len(Declared(call))
        BY <4>2, <3>2, <2>1, <2>2, LenProperties
      <4>4. QED
        BY <4>3, <3>2, <2>1, <2>2, SeqEqual
    <3>5. QED
      BY <3>3, <3>4
  <2>5. QED
    BY <2>3, <2>4
<1>2. IInv => EachPassOnce
  BY <1>1 DEF EachPassOnce
<1>3. QED
  BY <1>2, Invariance, PTL

(* The document is replaced, by a stylesheet or by main, only when no node *)
(* of the old one waits: no entry outlives the document of its node.       *)
DocumentReplacedWhenIdle ==
  [][doc' # doc => Pending \cup Range(running.todo) = {}]_vars

THEOREM NoWorkAcrossDocuments ==
  Spec => DocumentReplacedWhenIdle
<1>1. ASSUME IInv, [Next]_vars, doc' # doc
      PROVE  Pending \cup Range(running.todo) = {}
  <2>1. XsltProc \/ ApplyText
    BY <1>1 DEF Next, Main, Engine, Calls, Pass, Stopped, vars, document, ReadLine,
                ApplyMath, Save, PushLast, CallOnRoot, CallOnNode, CallOnFreed,
                Fault, XsltProcFails, DumpTree, PushChild, MergeNext, PushAgain,
                DropChild, FreePushed, VisitChild, KeepChild
  <2>2. CASE XsltProc
    <3>1. PopEntry /\ PassOf(Popped) = "xslt_proc"
      BY <2>2 DEF XsltProc
    <3>2. Popped.node = ROOT_NODE /\ running.todo = <<>>
      BY <3>1, <1>1, PopContinues, PopEffect
    <3>3. \A i \in 1 .. Len(stack) : stack[i].node = ROOT_NODE
      BY <3>1, <3>2, <1>1, PopStarts
    <3>4. QED
      BY <3>2, <3>3, NothingPending
  <2>3. CASE ApplyText
    <3>1. stack = <<>> /\ running.todo = <<>>
      BY <2>3, <1>1 DEF ApplyText, ListDone, IInv, Loading, Loaded
    <3>2. \A i \in 1 .. Len(stack) : stack[i].node = ROOT_NODE
      BY <3>1
    <3>3. QED
      BY <3>1, <3>2, NothingPending
  <2>4. QED
    BY <2>1, <2>2, <2>3
<1>2. QED
  BY <1>1, Invariance, PTL DEF Spec, DocumentReplacedWhenIdle

----------------------------------------------------------------------------
(* The nodes of a document without tags, boxes and kerns: a text has the   *)
(* glyphs of one font.                                                     *)
Unmixed == Places("kern") = {} /\ Plain
GlyphsOf(f) ==
  {g \in UNION {{[n |-> n, i |-> i, c |-> src[n].chars[i]] : i \in DOMAIN src[n].chars} :
                 n \in Places("text")} : src[g.n].font = f}
ItemsOf(f) == [k : {"char"}, gs : Seq(GlyphsOf(f))]
TextOf(f) == [k : {"text"}, font : {f}, h : Int, v : Int, items : Seq(ItemsOf(f))]
UnmixedText == UNION {TextOf(f) : f \in Int}
UnmixedOther == [k : {"space", "pop", "xxx", "bop"}]
UnmixedNode == UnmixedText \cup UnmixedOther
FontsInv ==
  /\ src \in Seq(WrittenText \cup OtherNode)
  /\ Unmixed =>
       /\ fsm.state = 0 /\ cursor \in Int
       /\ IF pc = "accent" THEN walk[2] \in Nat \ {0} ELSE cursor \in Nat \ {0}
       /\ IF pc = "page" THEN kids \in Seq(Seq(UnmixedNode)) ELSE kids \in Seq(UnmixedNode)

LEMMA UnmixedNodeIs ==
  ASSUME NEW n \in UnmixedNode
  PROVE  /\ n.k \in {"text", "space", "pop", "xxx", "bop"}
         /\ n.k = "text" => n.font \in Int /\ n \in TextOf(n.font)
<1>1. CASE \E f \in Int : n \in TextOf(f)
  <2>1. PICK f \in Int : n \in TextOf(f)
    BY <1>1
  <2>2. n.k = "text" /\ n.font = f
    BY <2>1 DEF TextOf
  <2>3. QED
    BY <2>1, <2>2
<1>2. CASE n \in UnmixedOther
  BY <1>2 DEF UnmixedOther
<1>3. n \in UnmixedText => \E f \in Int : n \in TextOf(f)
  BY DEF UnmixedText
<1>4. n \in UnmixedText \/ n \in UnmixedOther
  BY DEF UnmixedNode
<1>5. QED
  BY <1>1, <1>2, <1>3, <1>4

LEMMA TextIsUnmixed ==
  ASSUME NEW f \in Int, NEW n \in TextOf(f)
  PROVE  n \in UnmixedNode
<1>1. TextOf(f) \in {TextOf(g) : g \in Int}
  OBVIOUS
<1>2. QED
  BY <1>1 DEF UnmixedNode, UnmixedText

LEMMA KidsAreUnmixed ==
  ASSUME NEW ks \in Seq(UnmixedNode), NEW n
  PROVE  /\ n \in 1 .. Len(ks) =>
              /\ ks[n].k \in {"text", "space", "pop", "xxx", "bop"}
              /\ ks[n].k = "text" => ks[n].font \in Int /\ ks[n] \in TextOf(ks[n].font)
         /\ ~IsAccent(ks, n)
         /\ IsControl(ks, n) => ks[n].k \in {"space", "pop"}
<1>1. ASSUME n \in 1 .. Len(ks)
      PROVE  /\ ks[n].k \in {"text", "space", "pop", "xxx", "bop"}
             /\ ks[n].k = "text" => ks[n].font \in Int /\ ks[n] \in TextOf(ks[n].font)
  <2> DEFINE e == ks[n]
  <2>1. e \in UnmixedNode
    BY <1>1
  <2> HIDE DEF e
  <2>2. /\ e.k \in {"text", "space", "pop", "xxx", "bop"}
        /\ e.k = "text" => e.font \in Int /\ e \in TextOf(e.font)
    BY <2>1, UnmixedNodeIs
  <2>3. QED
    BY <2>2 DEF e
<1>2. ~IsAccent(ks, n)
  BY <1>1 DEF IsAccent
<1>3. IsControl(ks, n) => ks[n].k \in {"space", "pop"}
  BY <1>1 DEF IsControl
<1>4. QED
  BY <1>1, <1>2, <1>3

LEMMA OneFont == FontsInv => TextsHaveOneFont
<1> SUFFICES ASSUME FontsInv, Unmixed, pc # "page", NEW n \in 1 .. Len(kids), IsText(kids, n),
                    NEW p \in 1 .. Len(kids[n].items), NEW g \in Elements(kids[n].items[p].gs)
             PROVE  src[g.n].font = kids[n].font
  BY DEF TextsHaveOneFont, Unmixed
<1> DEFINE f == kids[n].font
           items == kids[n].items
           gs == items[p].gs
<1>1. kids \in Seq(UnmixedNode) /\ kids[n].k = "text"
  BY DEF FontsInv, IsText
<1>2. kids[n] \in TextOf(f)
  BY <1>1, KidsAreUnmixed
<1>3. items \in Seq(ItemsOf(f))
  BY <1>2 DEF TextOf
<1> HIDE DEF items
<1>4. items[p] \in ItemsOf(f)
  BY <1>3 DEF items
<1>5. gs \in Seq(GlyphsOf(f))
  BY <1>4 DEF ItemsOf
<1>6. g \in GlyphsOf(f)
  <2> HIDE DEF gs
  <2>1. PICK i \in 1 .. Len(gs) : g = gs[i]
    BY DEF Elements, gs, items
  <2>2. QED
    BY <1>5, <2>1
<1>7. QED
  BY <1>6 DEF GlyphsOf

(* make_content. *)
LEMMA PageIs ==
  ASSUME src \in Seq(WrittenText \cup OtherNode), NEW first \in 1 .. Len(src)
  PROVE  \E last \in first .. Len(src) :
           /\ Page(first) = [n \in 1 .. last - first + 1 |-> Made(first + n - 1)]
           /\ last + 1 > Len(src) \/ last + 1 \in Bops
           /\ first + 1 .. last \cap Bops = {}
<1> DEFINE End(q) == q + 1 > Len(src) \/ q + 1 \in Bops
           Is(q) == End(q) /\ first + 1 .. q \cap Bops = {}
           last == CHOOSE q \in first .. Len(src) : Is(q)
           T == {q \in first .. Len(src) : End(q)}
<1>1. Len(src) \in Nat /\ first \in Nat /\ first <= Len(src)
  OBVIOUS
<1>2. T \in SUBSET Nat /\ Len(src) \in T
  BY <1>1
<1>3. PICK q \in T : \A m \in T : q <= m
  <2> HIDE DEF T
  <2>1. QED
    BY <1>2, LeastNatural
<1>4. first + 1 .. q \cap Bops = {}
  <2> SUFFICES ASSUME NEW b \in first + 1 .. q, b \in Bops PROVE FALSE
    OBVIOUS
  <2> DEFINE a == b - 1
  <2>1. a \in first .. Len(src) /\ a + 1 = b /\ a < q
    BY <1>1, <1>3
  <2> HIDE DEF a
  <2>2. a \in T
    BY <2>1
  <2>3. QED
    BY <1>2, <1>3, <2>1, <2>2
<1>5. q \in first .. Len(src) /\ Is(q)
  BY <1>3, <1>4
<1> HIDE DEF Is
<1>6. last \in first .. Len(src) /\ Is(last)
  BY <1>5
<1>7. Page(first) = [n \in 1 .. last - first + 1 |-> Made(first + n - 1)]
  BY DEF Page, Is
<1> HIDE DEF last
<1>8. QED
  BY <1>6, <1>7 DEF Is

LEMMA MadeIsUnmixed ==
  ASSUME src \in Seq(WrittenText \cup OtherNode), Unmixed, NEW n \in 1 .. Len(src)
  PROVE  Made(n) \in UnmixedNode
<1>1. src[n] \in WrittenText \cup OtherNode /\ DOMAIN src = 1 .. Len(src)
  OBVIOUS
<1>2. CASE src[n].k = "text"
  <2> DEFINE f == src[n].font
             chars == src[n].chars
             glyph(i) == [n |-> n, i |-> i, c |-> chars[i]]
             item(i) == IF chars[i] = " " THEN Space ELSE Char(<<glyph(i)>>)
  <2>1. f \in Int /\ src[n].h \in Int /\ src[n].v \in Int /\ chars \in Seq(STRING)
    BY <1>1, <1>2 DEF WrittenText, OtherNode
  <2>2. n \in Places("text")
    BY <1>1, <1>2 DEF Places
  <2>3. \A i \in DOMAIN chars : glyph(i) \in GlyphsOf(f)
    <3> TAKE i \in DOMAIN chars
    <3>1. glyph(i) \in {[n |-> n, i |-> j, c |-> src[n].chars[j]] : j \in DOMAIN src[n].chars}
      OBVIOUS
    <3>2. glyph(i) \in UNION {{[n |-> m, i |-> j, c |-> src[m].chars[j]] : j \in DOMAIN src[m].chars} : m \in Places("text")}
      BY <2>2, <3>1
    <3>3. src[glyph(i).n].font = f
      OBVIOUS
    <3> HIDE DEF glyph, f
    <3>4. QED
      BY <3>2, <3>3 DEF GlyphsOf
  <2> HIDE DEF glyph
  <2>4. \A i \in DOMAIN chars : item(i) \in ItemsOf(f)
    <3> TAKE i \in DOMAIN chars
    <3>1. <<>> \in Seq(GlyphsOf(f)) /\ <<glyph(i)>> \in Seq(GlyphsOf(f))
      BY <2>3
    <3>2. \A gs \in Seq(GlyphsOf(f)) : Char(gs) \in ItemsOf(f)
      BY DEF Char, ItemsOf
    <3>3. Space \in ItemsOf(f) /\ Char(<<glyph(i)>>) \in ItemsOf(f)
      BY <3>1, <3>2 DEF Space
    <3>4. QED
      BY <3>3
  <2> DEFINE items == [i \in DOMAIN chars |-> item(i)]
  <2>5. items \in Seq(ItemsOf(f))
    <3> HIDE DEF item, chars, f
    <3>1. DOMAIN chars = 1 .. Len(chars) /\ Len(chars) \in Nat
      BY <2>1
    <3>2. QED
      BY <2>4, <3>1
  <2>6. Made(n) = [k |-> "text", font |-> f, h |-> src[n].h, v |-> src[n].v, items |-> items]
    BY <1>2 DEF Made, glyph
  <2> HIDE DEF items, item, chars, f
  <2>7. Made(n) \in TextOf(f)
    BY <2>1, <2>5, <2>6 DEF TextOf
  <2>8. QED
    BY <2>1, <2>7, TextIsUnmixed
<1>3. CASE src[n].k # "text"
  <2>1. src[n].k \in {"kern", "space", "push", "pop", "tag", "xxx", "bop"}
    BY <1>1, <1>3 DEF WrittenText, OtherNode
  <2>2. n \notin Places("kern") /\ n \notin Places("push") /\ n \notin Places("tag")
    BY DEF Unmixed, Plain
  <2>3. src[n].k \in {"space", "pop", "xxx", "bop"}
    BY <1>1, <2>1, <2>2 DEF Places
  <2>4. Made(n) = [k |-> src[n].k]
    BY <1>3 DEF Made
  <2>5. [k |-> src[n].k] \in UnmixedOther
    BY <2>3 DEF UnmixedOther
  <2>6. QED
    BY <2>4, <2>5 DEF UnmixedNode
<1>4. QED
  BY <1>2, <1>3

LEMMA TextInitGood == TextInit => FontsInv
<1> SUFFICES ASSUME TextInit PROVE FontsInv
  OBVIOUS
<1> DEFINE all == [n \in 1 .. Len(src) |-> n]
           firsts == Among(all, Bops)
<1>1. PICK nodes \in Documents : src = <<[k |-> "bop"]>> \o nodes
  BY DEF TextInit
<1>2. src \in Seq(WrittenText \cup OtherNode)
  <2>1. nodes \in Seq(WrittenText \cup OtherNode)
    BY DocumentsAssumption
  <2>2. [k |-> "bop"] \in WrittenText \cup OtherNode
    BY DEF OtherNode
  <2>3. QED
    BY <1>1, <2>1, <2>2
<1>3. Len(src) \in Nat
  BY <1>2
<1>4. all \in Seq(1 .. Len(src))
  BY <1>3
<1>5. firsts \in Seq(1 .. Len(src))
  <2> HIDE DEF all
  <2>1. QED
    BY <1>4, AmongProperties
<1>6. kids = [p \in 1 .. Len(firsts) |-> Page(firsts[p])]
  BY DEF TextInit, Pages
<1> HIDE DEF firsts
<1>7. ASSUME Unmixed
      PROVE  kids \in Seq(Seq(UnmixedNode))
  <2>1. ASSUME NEW first \in 1 .. Len(src)
        PROVE  Page(first) \in Seq(UnmixedNode)
    <3>1. PICK last \in first .. Len(src) : Page(first) = [n \in 1 .. last - first + 1 |-> Made(first + n - 1)]
      BY <1>2, PageIs
    <3>2. \A n \in 1 .. last - first + 1 : first + n - 1 \in 1 .. Len(src)
      BY <1>3, <3>1
    <3>3. \A n \in 1 .. last - first + 1 : Made(first + n - 1) \in UnmixedNode
      BY <1>2, <1>7, <3>2, MadeIsUnmixed
    <3>4. last - first + 1 \in Nat
      BY <1>3, <3>1
    <3>5. QED
      BY <3>1, <3>3, <3>4
  <2>2. \A p \in 1 .. Len(firsts) : Page(firsts[p]) \in Seq(UnmixedNode)
    BY <1>5, <2>1
  <2>3. Len(firsts) \in Nat
    BY <1>5
  <2>4. QED
    BY <1>6, <2>2, <2>3
<1>8. fsm.state = 0 /\ cursor = 1 /\ pc = "page"
  BY DEF TextInit
<1>9. QED
  BY <1>2, <1>7, <1>8 DEF FontsInv

(* What a step has to leave. *)
FontsKept ==
  /\ src' = src
  /\ Unmixed =>
       /\ fsm'.state = 0 /\ cursor' \in Int
       /\ IF pc' = "accent" THEN walk'[2] \in Nat \ {0} ELSE cursor' \in Nat \ {0}
       /\ IF pc' = "page" THEN kids' \in Seq(Seq(UnmixedNode)) ELSE kids' \in Seq(UnmixedNode)

LEMMA KeptIsInv == FontsInv /\ FontsKept => FontsInv'
<1> SUFFICES ASSUME FontsInv, FontsKept PROVE FontsInv'
  OBVIOUS
<1>1. src' = src
  BY DEF FontsKept
<1>2. Unmixed' <=> Unmixed
  BY <1>1 DEF Unmixed, Plain, Places
<1>3. UnmixedNode' = UnmixedNode
  BY <1>1 DEF UnmixedNode, UnmixedText, UnmixedOther, TextOf, ItemsOf, GlyphsOf, Places
<1>4. QED
  BY <1>1, <1>2, <1>3 DEF FontsInv, FontsKept

(* The passes on pages, boxes, controls and tags. *)
LEMMA PageStep == FontsInv /\ (RemovePageNodes \/ RemoveBopNodes) => FontsKept
<1> SUFFICES ASSUME FontsInv, RemovePageNodes \/ RemoveBopNodes PROVE FontsKept
  OBVIOUS
<1>1. CASE RemovePageNodes
  <2>1. pc = "page" /\ pc' = "bop" /\ src' = src /\ cursor' = cursor /\ fsm' = fsm /\ kids' = FlattenSeq(kids)
    BY <1>1 DEF RemovePageNodes, accentVars
  <2>2. ASSUME Unmixed
        PROVE  FlattenSeq(kids) \in Seq(UnmixedNode)
    <3>1. kids \in Seq(Seq(UnmixedNode))
      BY <2>1, <2>2 DEF FontsInv
    <3>2. QED
      BY <3>1, FlattenType
  <2>3. QED
    BY <2>1, <2>2 DEF FontsInv, FontsKept
<1>2. CASE RemoveBopNodes
  <2> DEFINE S == {n \in Elements(kids) : n.k # "bop"}
  <2>1. pc = "bop" /\ pc' = "large" /\ src' = src /\ cursor' = cursor /\ fsm' = fsm /\ kids' = Among(kids, S)
    BY <1>2 DEF RemoveBopNodes, accentVars
  <2> HIDE DEF S
  <2>2. ASSUME Unmixed
        PROVE  Among(kids, S) \in Seq(UnmixedNode)
    <3>1. kids \in Seq(UnmixedNode)
      BY <2>1, <2>2 DEF FontsInv
    <3>2. QED
      BY <3>1, AmongProperties
  <2>3. QED
    BY <2>1, <2>2 DEF FontsInv, FontsKept
<1>3. QED
  BY <1>1, <1>2

LEMMA LargeStep == FontsInv /\ (LookForPattern \/ MakeLargeAccent \/ LargeAccentsMade) => FontsKept
<1> SUFFICES ASSUME FontsInv, LookForPattern \/ MakeLargeAccent \/ LargeAccentsMade PROVE FontsKept
  OBVIOUS
<1>1. CASE LookForPattern
  <2> DEFINE state == NextState(fsm.state, kids, cursor)
  <2>1. /\ pc = "large" /\ pc' = pc /\ src' = src /\ kids' = kids /\ cursor' = cursor + 1
        /\ cursor <= Len(kids) /\ fsm'.state = state
    BY <1>1 DEF LookForPattern, Runs, GoOn
  <2>2. ASSUME Unmixed
        PROVE  state = 0
    <3>1. kids \in Seq(UnmixedNode) /\ fsm.state = 0 /\ cursor \in Nat \ {0}
      BY <2>1, <2>2 DEF FontsInv
    <3>2. cursor \in 1 .. Len(kids)
      BY <2>1, <3>1
    <3>3. kids[cursor].k # "push"
      BY <3>1, <3>2, KidsAreUnmixed
    <3>4. QED
      BY <3>1, <3>3 DEF NextState
  <2> HIDE DEF state
  <2>3. QED
    BY <2>1, <2>2 DEF FontsInv, FontsKept
<1>2. CASE MakeLargeAccent
  <2>1. fsm.state = 3 /\ src' = src
    BY <1>2 DEF MakeLargeAccent, PatternComplete
  <2>2. QED
    BY <2>1 DEF FontsInv, FontsKept
<1>3. CASE LargeAccentsMade
  <2>1. pc = "large" /\ pc' = "control" /\ src' = src /\ cursor' = 1 /\ fsm' = fsm /\ kids' = kids
    BY <1>3 DEF LargeAccentsMade, Ends, accentVars
  <2>2. QED
    BY <2>1 DEF FontsInv, FontsKept
<1>4. QED
  BY <1>1, <1>2, <1>3

LEMMA LastOfRunIs ==
  ASSUME NEW c \in 1 .. Len(kids), kids \in Seq(UnmixedNode), IsControl(kids, c)
  PROVE  /\ LastOfRun(c) \in c .. Len(kids)
         /\ \A r \in c .. LastOfRun(c) : IsControl(kids, r)
<1> DEFINE Is(q) == ~IsControl(kids, q + 1) /\ \A r \in c .. q : IsControl(kids, r)
           T == {q \in c .. Len(kids) : ~IsControl(kids, q + 1)}
<1>1. Len(kids) \in Nat
  OBVIOUS
<1>2. T \in SUBSET Nat /\ Len(kids) \in T
  BY <1>1 DEF IsControl
<1>3. PICK q \in T : \A m \in T : q <= m
  <2> HIDE DEF T
  <2>1. QED
    BY <1>2, LeastNatural
<1>4. ASSUME NEW r \in c .. q
      PROVE  IsControl(kids, r)
  <2>1. CASE r = c
    BY <2>1
  <2>2. CASE r # c
    <3> DEFINE a == r - 1
    <3>1. a \in c .. Len(kids) /\ a + 1 = r /\ a < q /\ a \in Nat /\ q \in Nat
      BY <1>1, <1>2, <1>3, <2>2
    <3> HIDE DEF a
    <3>2. a \notin T
      BY <1>3, <3>1
    <3>3. QED
      BY <3>1, <3>2
  <2>3. QED
    BY <2>1, <2>2
<1>5. q \in c .. Len(kids) /\ Is(q)
  BY <1>3, <1>4
<1>6. LastOfRun(c) = CHOOSE x \in c .. Len(kids) : Is(x)
  BY DEF LastOfRun
<1> HIDE DEF Is
<1>7. LastOfRun(c) \in c .. Len(kids) /\ Is(LastOfRun(c))
  BY <1>5, <1>6
<1>8. QED
  BY <1>7 DEF Is

LEMMA ControlStep == FontsInv /\ (PassOther \/ RemoveRun \/ JoinOverRun \/ ControlsRemoved) => FontsKept
<1> SUFFICES ASSUME FontsInv, PassOther \/ RemoveRun \/ JoinOverRun \/ ControlsRemoved PROVE FontsKept
  OBVIOUS
<1> DEFINE q == LastOfRun(cursor)
<1>1. ASSUME Unmixed, pc = "control", IsControl(kids, cursor)
      PROVE  /\ kids \in Seq(UnmixedNode) /\ cursor \in 1 .. Len(kids)
             /\ q \in cursor .. Len(kids) /\ \A r \in cursor .. q : IsControl(kids, r)
  <2>1. kids \in Seq(UnmixedNode) /\ cursor \in 1 .. Len(kids)
    BY <1>1 DEF FontsInv, IsControl
  <2>2. QED
    BY <1>1, <2>1, LastOfRunIs
<1> HIDE DEF q
<1>2. CASE PassOther
  <2>1. pc = "control" /\ pc' = pc /\ src' = src /\ cursor' = cursor + 1 /\ fsm' = fsm /\ kids' = kids
    BY <1>2 DEF PassOther, Runs, GoOn, Kept, accentVars
  <2>2. QED
    BY <2>1 DEF FontsInv, FontsKept
<1>3. CASE RemoveRun
  <2>1. /\ pc = "control" /\ pc' = pc /\ src' = src /\ cursor' = cursor /\ fsm' = fsm
        /\ IsControl(kids, cursor) /\ kids' = Without(kids, cursor, q)
    BY <1>3 DEF RemoveRun, Runs, Kept, accentVars, q
  <2>2. ASSUME Unmixed
        PROVE  kids' \in Seq(UnmixedNode)
    <3>1. kids \in Seq(UnmixedNode) /\ cursor \in 1 .. Len(kids) /\ q \in cursor .. Len(kids)
      BY <1>1, <2>1, <2>2
    <3>2. cursor \in Nat \ {0} /\ q \in Nat /\ cursor <= Len(kids) + 1
      BY <3>1
    <3>3. QED
      BY <2>1, <3>1, <3>2, WithoutType
  <2>3. QED
    BY <2>1, <2>2 DEF FontsInv, FontsKept
<1>4. CASE JoinOverRun
  <2>1. pc = "control" /\ src' = src /\ IsControl(kids, cursor) /\ ~HasSpace(cursor, q)
    BY <1>4 DEF JoinOverRun, Runs, Kept, q
  <2>2. ASSUME Unmixed
        PROVE  FALSE
    <3>1. kids \in Seq(UnmixedNode) /\ cursor \in cursor .. q /\ IsControl(kids, cursor)
      BY <1>1, <2>1, <2>2
    <3>2. kids[cursor].k # "kern"
      BY <3>1, KidsAreUnmixed
    <3>3. QED
      BY <2>1, <3>1, <3>2 DEF HasSpace
  <2>3. QED
    BY <2>1, <2>2 DEF FontsKept
<1>5. CASE ControlsRemoved
  <2>1. pc = "control" /\ pc' = "xxx" /\ src' = src /\ cursor' = 1 /\ fsm' = fsm /\ kids' = kids
    BY <1>5 DEF ControlsRemoved, Ends, accentVars
  <2>2. QED
    BY <2>1 DEF FontsInv, FontsKept
<1>6. QED
  BY <1>2, <1>3, <1>4, <1>5

LEMMA TagsStep ==
  FontsInv /\ (ReplaceTags \/ GatherAround \/ PassUngathered \/ Gathering
               \/ PutBeforeText \/ PassNotInFront \/ AccentsInTexts) => FontsKept
<1> SUFFICES ASSUME FontsInv, \/ ReplaceTags \/ GatherAround \/ PassUngathered \/ Gathering
                              \/ PutBeforeText \/ PassNotInFront \/ AccentsInTexts
             PROVE  FontsKept
  OBVIOUS
<1>1. CASE ReplaceTags
  <2> DEFINE n == Len(kids)
             elements == [m \in 1 .. n |-> IF kids[m].k = "tag" THEN Accent(<<>>) ELSE kids[m]]
  <2>1. pc = "xxx" /\ pc' = "tags1" /\ src' = src /\ cursor' = cursor /\ fsm' = fsm /\ kids' = WithElements(kids)
    BY <1>1 DEF ReplaceTags, accentVars
  <2>2. ASSUME Unmixed
        PROVE  WithElements(kids) \in Seq(UnmixedNode)
    <3>1. kids \in Seq(UnmixedNode)
      BY <2>1, <2>2 DEF FontsInv
    <3>2. \A m \in 1 .. n : kids[m].k # "tag"
      BY <3>1, KidsAreUnmixed
    <3>3. elements = kids
      BY <3>1, <3>2
    <3>4. WithElements(kids) = kids \/ (kids # <<>> /\ WithElements(kids) = Unlink(kids, n))
      BY <3>3 DEF WithElements
    <3>5. kids # <<>> => n \in Nat \ {0} /\ n <= Len(kids) + 1
      BY <3>1
    <3> HIDE DEF n
    <3>6. kids # <<>> => Without(kids, n, n) \in Seq(UnmixedNode)
      BY <3>1, <3>5, WithoutType
    <3>7. kids # <<>> => Unlink(kids, n) \in Seq(UnmixedNode)
      BY <3>6, UnlinkIsWithout
    <3>8. QED
      BY <3>1, <3>4, <3>7
  <2>3. QED
    BY <2>1, <2>2 DEF FontsInv, FontsKept
<1>2. CASE GatherAround \/ PutBeforeText
  <2>1. /\ pc \notin {"page", "accent"} /\ src' = src
        /\ IsAccent(kids, cursor) \/ IsAccent(kids, cursor + 1)
    BY <1>2 DEF GatherAround, PutBeforeText, Runs, Kept, Between, InFront
  <2>2. Unmixed => kids \in Seq(UnmixedNode)
    BY <2>1 DEF FontsInv
  <2>3. Unmixed => ~IsAccent(kids, cursor) /\ ~IsAccent(kids, cursor + 1)
    BY <2>2, KidsAreUnmixed
  <2>4. QED
    BY <2>1, <2>3 DEF FontsKept
<1>3. CASE PassUngathered \/ PassNotInFront
  <2>1. /\ pc \notin {"page", "accent"} /\ pc' = pc /\ src' = src /\ cursor' = cursor + 1
        /\ fsm' = fsm /\ kids' = kids
    BY <1>3 DEF PassUngathered, PassNotInFront, Runs, GoOn, Kept, accentVars
  <2>2. QED
    BY <2>1 DEF FontsInv, FontsKept
<1>4. CASE Gathering
  <2>1. pc = "tags1" /\ pc' = "tags2" /\ src' = src /\ cursor' = 1 /\ fsm' = fsm /\ kids' = kids
    BY <1>4 DEF Gathering, Ends, accentVars
  <2>2. QED
    BY <2>1 DEF FontsInv, FontsKept
<1>5. CASE AccentsInTexts
  <2>1. /\ pc = "tags2" /\ pc' = "accent" /\ src' = src /\ cursor' = Len(kids)
        /\ walk'[2] = 1 /\ fsm' = fsm /\ kids' = kids
    BY <1>5 DEF AccentsInTexts
  <2>2. QED
    BY <2>1 DEF FontsInv, FontsKept
<1>6. QED
  BY <1>1, <1>2, <1>3, <1>4, <1>5

(* transform_accent_tags finds no accent. *)
LEMMA AccentStep ==
  FontsInv /\ (PassItem \/ EndOfText \/ TakeAccented \/ NoBase \/ Compose \/ UnknownAccent
               \/ AccentsTransformed) => FontsKept
<1> SUFFICES ASSUME FontsInv, \/ PassItem \/ EndOfText \/ TakeAccented \/ NoBase \/ Compose
                              \/ UnknownAccent \/ AccentsTransformed
             PROVE  FontsKept
  OBVIOUS
<1>1. ASSUME Unmixed, AtAccent
      PROVE  FALSE
  <2> DEFINE text == kids[walk[1]]
             items == text.items
             p == walk[2]
  <2>1. /\ kids \in Seq(UnmixedNode) /\ p \in Nat \ {0} /\ p <= Len(items)
        /\ walk[1] \in 1 .. Len(kids) /\ text.k = "text" /\ items[p].k = "accent"
    BY <1>1 DEF FontsInv, AtAccent, Walks, InWalk, IsText
  <2>2. text \in TextOf(text.font)
    BY <2>1, KidsAreUnmixed
  <2>3. items \in Seq(ItemsOf(text.font))
    BY <2>2 DEF TextOf
  <2> HIDE DEF items, p
  <2>4. items[p] \in ItemsOf(text.font)
    BY <2>1, <2>3
  <2>5. QED
    BY <2>1, <2>4 DEF ItemsOf
<1>2. CASE TakeAccented \/ NoBase \/ Compose \/ UnknownAccent
  <2>1. AtAccent /\ src' = src
    BY <1>2 DEF TakeAccented, NoBase, Compose, UnknownAccent, InAccents
  <2>2. QED
    BY <1>1, <2>1 DEF FontsKept
<1>3. CASE PassItem
  <2>1. /\ pc = "accent" /\ pc' = pc /\ src' = src /\ cursor' = cursor /\ fsm' = fsm
        /\ kids' = kids /\ walk'[2] = walk[2] + 1
    BY <1>3 DEF PassItem, Walks, WalkOn, SameWalk, InAccents
  <2>2. QED
    BY <2>1 DEF FontsInv, FontsKept
<1>4. CASE EndOfText
  <2>1. /\ pc = "accent" /\ pc' = pc /\ src' = src /\ cursor' = cursor - 1 /\ fsm' = fsm
        /\ kids' = kids /\ walk'[2] = 1
    BY <1>4 DEF EndOfText, Walks, NextCall, InAccents
  <2>2. QED
    BY <2>1 DEF FontsInv, FontsKept
<1>5. CASE AccentsTransformed
  <2>1. pc = "accent" /\ pc' = "merge" /\ src' = src /\ cursor' = 1 /\ fsm' = fsm /\ kids' = kids
    BY <1>5 DEF AccentsTransformed, accentVars
  <2>2. QED
    BY <2>1 DEF FontsInv, FontsKept
<1>6. QED
  BY <1>2, <1>3, <1>4, <1>5

(* merge_adjacent_text: only here two texts become one. *)
LEMMA MergedHasOneFont ==
  ASSUME NEW f \in Int, NEW t \in TextOf(f), NEW u \in TextOf(f)
  PROVE  MergedInto(t, u) \in TextOf(f)
<1> DEFINE between == IF addSpace /\ Head(u.items).k # "accent" /\ Head(u.items) # Space THEN <<Space>> ELSE <<>>
           items == t.items \o between \o u.items
<1>1. t.items \in Seq(ItemsOf(f)) /\ u.items \in Seq(ItemsOf(f))
  BY DEF TextOf
<1>2. between \in Seq(ItemsOf(f))
  <2>1. Space \in ItemsOf(f)
    <3>1. <<>> \in Seq(GlyphsOf(f))
      OBVIOUS
    <3>2. QED
      BY <3>1 DEF Space, Char, ItemsOf
  <2>2. <<Space>> \in Seq(ItemsOf(f))
    BY <2>1
  <2>3. QED
    BY <2>2
<1> HIDE DEF between
<1>3. items \in Seq(ItemsOf(f))
  BY <1>1, <1>2
<1>4. MergedInto(t, u) = [u EXCEPT !.items = items]
  BY DEF MergedInto, between
<1> HIDE DEF items
<1>5. QED
  BY <1>3, <1>4 DEF TextOf

LEMMA MergeStep == FontsInv /\ (PassLone \/ DropEmptyNext \/ MergePair \/ KeepPair \/ Merged) => FontsKept
<1> SUFFICES ASSUME FontsInv, PassLone \/ DropEmptyNext \/ MergePair \/ KeepPair \/ Merged PROVE FontsKept
  OBVIOUS
<1>1. ASSUME Unmixed, Neighbours
      PROVE  /\ kids \in Seq(UnmixedNode) /\ cursor \in 1 .. Len(kids) /\ cursor + 1 \in 1 .. Len(kids)
             /\ kids[cursor].k = "text" /\ kids[cursor + 1].k = "text"
  BY <1>1 DEF FontsInv, Neighbours, Runs, IsText
<1>2. CASE PassLone \/ KeepPair
  <2>1. pc = "merge" /\ pc' = pc /\ src' = src /\ cursor' = cursor + 1 /\ fsm' = fsm /\ kids' = kids
    BY <1>2 DEF PassLone, KeepPair, Neighbours, Runs, GoOn, Kept, accentVars
  <2>2. QED
    BY <2>1 DEF FontsInv, FontsKept
<1>3. CASE DropEmptyNext
  <2> DEFINE n == cursor + 1
  <2>1. /\ pc = "merge" /\ pc' = pc /\ src' = src /\ cursor' = cursor /\ fsm' = fsm
        /\ Neighbours /\ kids' = Unlink(kids, n)
    BY <1>3 DEF DropEmptyNext, Neighbours, Runs, Kept, accentVars
  <2>2. ASSUME Unmixed
        PROVE  kids' \in Seq(UnmixedNode)
    <3>1. kids \in Seq(UnmixedNode) /\ n \in Nat \ {0} /\ n <= Len(kids) + 1
      BY <1>1, <2>1, <2>2
    <3> HIDE DEF n
    <3>2. Without(kids, n, n) \in Seq(UnmixedNode)
      BY <3>1, WithoutType
    <3>3. QED
      BY <2>1, <3>2, UnlinkIsWithout
  <2>3. QED
    BY <2>1, <2>2 DEF FontsInv, FontsKept
<1>4. CASE MergePair
  <2> DEFINE t == kids[cursor]
             u == kids[cursor + 1]
             left == Unlink(kids, cursor)
             merged == MergedInto(t, u)
  <2>1. /\ pc = "merge" /\ pc' = pc /\ src' = src /\ cursor' = cursor /\ fsm' = fsm
        /\ Neighbours /\ SameLine(t, u) /\ kids' = [left EXCEPT ![cursor] = merged]
    BY <1>4 DEF MergePair, Neighbours, Runs, Kept, accentVars
  <2>2. ASSUME Unmixed
        PROVE  kids' \in Seq(UnmixedNode)
    <3>1. /\ kids \in Seq(UnmixedNode) /\ cursor \in 1 .. Len(kids) /\ cursor + 1 \in 1 .. Len(kids)
          /\ t.k = "text" /\ u.k = "text"
      BY <1>1, <2>1, <2>2
    <3>2. cursor \in Nat \ {0} /\ cursor <= Len(kids) + 1
      BY <3>1
    <3>3. left \in Seq(UnmixedNode)
      <4>1. Without(kids, cursor, cursor) \in Seq(UnmixedNode)
        BY <3>1, <3>2, WithoutType
      <4>2. QED
        BY <4>1, UnlinkIsWithout
    <3>4. t.font \in Int /\ t \in TextOf(t.font) /\ u \in TextOf(u.font)
      BY <3>1, KidsAreUnmixed
    <3>5. u.font = t.font
      BY <2>1 DEF SameLine
    <3> HIDE DEF t, u
    <3>6. merged \in TextOf(t.font)
      BY <3>4, <3>5, MergedHasOneFont
    <3>7. merged \in UnmixedNode
      BY <3>4, <3>6, TextIsUnmixed
    <3> HIDE DEF merged, left
    <3>8. kids' = [left EXCEPT ![cursor] = merged]
      BY <2>1
    <3>9. [left EXCEPT ![cursor] = merged] \in Seq(UnmixedNode)
      <4>1. DOMAIN left = 1 .. Len(left) /\ Len(left) \in Nat /\ \A i \in 1 .. Len(left) : left[i] \in UnmixedNode
        BY <3>3
      <4> DEFINE e(i) == IF i = cursor THEN merged ELSE left[i]
                 n == Len(left)
      <4>2. [left EXCEPT ![cursor] = merged] = [i \in 1 .. n |-> e(i)]
        BY <4>1
      <4>3. \A i \in 1 .. n : e(i) \in UnmixedNode
        BY <3>7, <4>1
      <4>4. n \in Nat
        BY <4>1
      <4> HIDE DEF e, n
      <4>5. [i \in 1 .. n |-> e(i)] \in Seq(UnmixedNode)
        BY ONLY <4>3, <4>4
      <4>6. QED
        BY <4>2, <4>5
    <3>10. QED
      BY <3>8, <3>9
  <2>3. QED
    BY <2>1, <2>2 DEF FontsInv, FontsKept
<1>5. CASE Merged
  <2>1. pc = "merge" /\ pc' = "done" /\ src' = src /\ cursor' = cursor /\ fsm' = fsm /\ kids' = kids
    BY <1>5 DEF Merged, accentVars
  <2>2. QED
    BY <2>1 DEF FontsInv, FontsKept
<1>6. QED
  BY <1>2, <1>3, <1>4, <1>5

LEMMA TextStepGood == FontsInv /\ [TextNext]_textVars => FontsInv'
<1> SUFFICES ASSUME FontsInv, [TextNext]_textVars PROVE FontsKept
  BY KeptIsInv
<1>1. CASE RemovePageNodes \/ RemoveBopNodes
  BY <1>1, PageStep
<1>2. CASE LookForPattern \/ MakeLargeAccent \/ LargeAccentsMade
  BY <1>2, LargeStep
<1>3. CASE PassOther \/ RemoveRun \/ JoinOverRun \/ ControlsRemoved
  BY <1>3, ControlStep
<1>4. CASE \/ ReplaceTags \/ GatherAround \/ PassUngathered \/ Gathering
           \/ PutBeforeText \/ PassNotInFront \/ AccentsInTexts
  BY <1>4, TagsStep
<1>5. CASE \/ PassItem \/ EndOfText \/ TakeAccented \/ NoBase \/ Compose \/ UnknownAccent
           \/ AccentsTransformed
  BY <1>5, AccentStep
<1>6. CASE PassLone \/ DropEmptyNext \/ MergePair \/ KeepPair \/ Merged
  BY <1>6, MergeStep
<1>7. CASE Ended \/ UNCHANGED textVars
  <2>1. /\ src' = src /\ kids' = kids /\ cursor' = cursor /\ fsm' = fsm /\ walk' = walk /\ pc' = pc
    BY <1>7 DEF Ended, textVars
  <2>2. QED
    BY <2>1 DEF FontsInv, FontsKept
<1>8. QED
  BY <1>1, <1>2, <1>3, <1>4, <1>5, <1>6, <1>7 DEF TextNext

(* TextPasses!TextsHaveOneFont: in a document without kerns, boxes and     *)
(* tags, whatever texts, specials and pages it has, no pass puts glyphs of *)
(* two fonts into one text, merge_adjacent_text least of all.              *)
THEOREM FontsStayApart == TextSpec => []TextsHaveOneFont
<1>1. TextSpec => []FontsInv
  BY TextInitGood, TextStepGood, PTL DEF TextSpec
<1>2. QED
  BY <1>1, OneFont, PTL

----------------------------------------------------------------------------
(* The nodes and items of the passes, for every pass: until the tags are   *)
(* replaced the items are characters; then the accents put among them are  *)
(* new ones, until transform_accent_tags leaves glyphs in one.             *)
Glyph == [n : Nat, i : Nat, c : STRING]
CharItem == [k : {"char", "stray"}, gs : {gs \in Seq(Glyph) : Len(gs) <= 2}]
NewAccent == {Accent(<<>>)}
FreshItem == CharItem \cup NewAccent
AccentItem == [k : {"accent"}, gs : Seq(Glyph)]
AnyItem == CharItem \cup AccentItem
TextNode(I) == [k : {"text"}, font : Int, h : Int, v : Int, items : Seq(I)]
NodesOf(I) == TextNode(I) \cup OtherNode \cup NewAccent
AnyNode == NodesOf(AnyItem)

(* What the items of a text may be while a pass runs. *)
ItemsAt(pass) ==
  IF pass \in {"bop", "large", "control", "xxx"} THEN CharItem
  ELSE IF pass \in {"tags1", "tags2"} THEN FreshItem ELSE AnyItem

(* What an item, a node and lists of them say: the places of the glyphs,   *)
(* with mk where a tag or an accent stands.                                *)
Spot == Nat \X Nat
Mark == <<0, 0>>
ItemSays(mk) == [x \in AnyItem |-> IF x.k = "accent" THEN Cat(mk, PlacesOf(x.gs)) ELSE PlacesOf(x.gs)]
ItemsSay(mk, items) == ReadOff(ItemSays(mk), items)
NodeSays(mk) ==
  [n \in AnyNode |-> IF n.k = "text" THEN ItemsSay(mk, n.items)
                     ELSE IF n.k \in {"tag", "accent"} THEN mk ELSE <<>>]
Says(mk, ks) == ReadOff(NodeSays(mk), ks)

(* The places of glyphs are spots, and those of two lists are read one     *)
(* after the other.                                                        *)
LEMMA PlacesAre ==
  ASSUME NEW gs \in Seq(Glyph)
  PROVE  /\ ListOf(PlacesOf(gs), Spot) /\ Len(PlacesOf(gs)) = Len(gs)
         /\ \A i \in 1 .. Len(gs) : PlacesOf(gs)[i] = <<gs[i].n, gs[i].i>>
<1>1. DOMAIN gs = 1 .. Len(gs) /\ Len(gs) \in Nat
  BY LenProperties
<1>2. \A i \in 1 .. Len(gs) : gs[i] \in Glyph
  BY ElementOfSeq
<1>3. \A i \in 1 .. Len(gs) : <<gs[i].n, gs[i].i>> \in Spot
  BY <1>2 DEF Glyph, Spot
<1> DEFINE w == [i \in 1 .. Len(gs) |-> <<gs[i].n, gs[i].i>>]
<1>4. PlacesOf(gs) = w
  BY <1>1 DEF PlacesOf, Place
<1>5. w \in [1 .. Len(gs) -> Spot] /\ \A i \in 1 .. Len(gs) : w[i] = <<gs[i].n, gs[i].i>>
  <2> HIDE DEF Spot
  <2>1. QED
    BY <1>3
<1> HIDE DEF w
<1>6. w \in Seq(Spot) /\ Len(w) = Len(gs)
  BY <1>1, <1>5, ListFromFunction
<1>7. QED
  BY <1>4, <1>5, <1>6 DEF ListOf

LEMMA NoPlaces == PlacesOf(<<>>) = <<>>
  BY DEF PlacesOf

LEMMA PlacesJoined ==
  ASSUME NEW a \in Seq(Glyph), NEW b \in Seq(Glyph)
  PROVE  PlacesOf(a \o b) = Cat(PlacesOf(a), PlacesOf(b))
<1> DEFINE c == a \o b
           m == Len(a)
           n == Len(b)
           u == PlacesOf(a)
           v == PlacesOf(b)
           w == PlacesOf(c)
           z == u \o v
<1>1. /\ m \in Nat /\ n \in Nat /\ c \in Seq(Glyph) /\ Len(c) = m + n
      /\ \A p \in 1 .. m + n : c[p] = IF p <= m THEN a[p] ELSE b[p - m]
  BY ConcatAt
<1> HIDE DEF c
<1>2. /\ u \in Seq(Spot) /\ Len(u) = m /\ \A i \in 1 .. m : u[i] = <<a[i].n, a[i].i>>
  BY PlacesAre DEF ListOf
<1>3. /\ v \in Seq(Spot) /\ Len(v) = n /\ \A i \in 1 .. n : v[i] = <<b[i].n, b[i].i>>
  BY PlacesAre DEF ListOf
<1>4. /\ w \in Seq(Spot) /\ Len(w) = Len(c) /\ \A i \in 1 .. Len(c) : w[i] = <<c[i].n, c[i].i>>
  BY <1>1, PlacesAre DEF ListOf
<1> HIDE DEF u, v, w, m, n
<1>5. /\ z \in Seq(Spot) /\ Len(z) = m + n
      /\ \A p \in 1 .. m + n : z[p] = IF p <= m THEN u[p] ELSE v[p - m]
  <2>1. u \in Seq(Spot) /\ v \in Seq(Spot) /\ Len(u) = m /\ Len(v) = n
    BY <1>2, <1>3
  <2> HIDE DEF Spot
  <2>2. QED
    BY ONLY <2>1, ConcatAt
<1> HIDE DEF z
<1>6. ASSUME NEW p \in 1 .. m + n
      PROVE  w[p] = z[p]
  <2>1. CASE p <= m
    <3>1. p \in 1 .. m
      BY <2>1, <1>1
    <3>2. QED
      BY <2>1, <3>1, <1>1, <1>2, <1>4, <1>5
  <2>2. CASE ~(p <= m)
    <3>1. p - m \in 1 .. n
      BY <2>2, <1>1
    <3>2. QED
      BY <2>2, <3>1, <1>1, <1>3, <1>4, <1>5
  <2>3. QED
    BY <2>1, <2>2
<1>7. w = z
  BY ONLY <1>1, <1>4, <1>5, <1>6, SeqEqual
<1>8. QED
  BY <1>7 DEF w, z, c, u, v, Cat

(* What items and nodes are, and what they say. *)
LEMMA ItemIs ==
  ASSUME NEW x \in AnyItem
  PROVE  /\ x.k \in {"char", "stray", "accent"} /\ x.gs \in Seq(Glyph)
         /\ x.k # "accent" => x \in CharItem /\ Len(x.gs) <= 2
  BY DEF AnyItem, CharItem, AccentItem

LEMMA ItemsTell ==
  ASSUME NEW mk, ListOf(mk, Spot)
  PROVE  /\ Tells(ItemSays(mk), AnyItem, Spot)
         /\ \A x \in AnyItem : /\ x.k # "accent" => ItemSays(mk)[x] = PlacesOf(x.gs)
                               /\ x.k = "accent" => ItemSays(mk)[x] = Cat(mk, PlacesOf(x.gs))
<1>1. ASSUME NEW x \in AnyItem
      PROVE  (IF x.k = "accent" THEN Cat(mk, PlacesOf(x.gs)) ELSE PlacesOf(x.gs)) \in Seq(Spot)
  <2>1. ListOf(PlacesOf(x.gs), Spot)
    BY ItemIs, PlacesAre
  <2>2. ListOf(Cat(mk, PlacesOf(x.gs)), Spot)
    BY <2>1, CatIsList
  <2>3. QED
    BY <2>1, <2>2 DEF ListOf
<1>2. ItemSays(mk) \in [AnyItem -> Seq(Spot)]
  BY <1>1, Zenon DEF ItemSays
<1>3. \A x \in AnyItem : /\ x.k # "accent" => ItemSays(mk)[x] = PlacesOf(x.gs)
                         /\ x.k = "accent" => ItemSays(mk)[x] = Cat(mk, PlacesOf(x.gs))
  BY DEF ItemSays
<1>4. QED
  BY <1>2, <1>3 DEF Tells

LEMMA NodeIs ==
  ASSUME NEW I, NEW n \in NodesOf(I)
  PROVE  /\ n.k \in {"text", "kern", "space", "push", "pop", "tag", "xxx", "bop", "accent"}
         /\ n.k = "text" => n \in TextNode(I) /\ n.items \in Seq(I)
         /\ n.k = "accent" => n = Accent(<<>>)
  BY DEF NodesOf, TextNode, OtherNode, NewAccent, Accent

LEMMA NodesTell ==
  ASSUME NEW mk, ListOf(mk, Spot)
  PROVE  /\ Tells(NodeSays(mk), AnyNode, Spot)
         /\ \A n \in AnyNode : /\ n.k = "text" => NodeSays(mk)[n] = ItemsSay(mk, n.items)
                               /\ n.k \in {"tag", "accent"} => NodeSays(mk)[n] = mk
                               /\ n.k \notin {"text", "tag", "accent"} => NodeSays(mk)[n] = <<>>
<1>1. ASSUME NEW n \in AnyNode
      PROVE  (IF n.k = "text" THEN ItemsSay(mk, n.items)
              ELSE IF n.k \in {"tag", "accent"} THEN mk ELSE <<>>) \in Seq(Spot)
  <2>1. CASE n.k = "text"
    <3>1. ListOf(n.items, AnyItem)
      BY <2>1, NodeIs DEF ListOf, AnyNode
    <3>2. ListOf(ItemsSay(mk, n.items), Spot)
      BY <3>1, ItemsTell, ReadIsList DEF ItemsSay
    <3>3. QED
      BY <2>1, <3>2 DEF ListOf
  <2>2. CASE n.k # "text"
    <3>1. mk \in Seq(Spot) /\ <<>> \in Seq(Spot)
      BY DEF ListOf
    <3>2. QED
      BY <2>2, <3>1
  <2>3. QED
    BY <2>1, <2>2
<1>2. NodeSays(mk) \in [AnyNode -> Seq(Spot)]
  BY <1>1, Zenon DEF NodeSays
<1>3. \A n \in AnyNode : /\ n.k = "text" => NodeSays(mk)[n] = ItemsSay(mk, n.items)
                         /\ n.k \in {"tag", "accent"} => NodeSays(mk)[n] = mk
                         /\ n.k \notin {"text", "tag", "accent"} => NodeSays(mk)[n] = <<>>
  BY DEF NodeSays
<1>4. QED
  BY <1>2, <1>3 DEF Tells

(* Nothing and a mark are lists of spots. *)
LEMMA Marks == ListOf(<<>>, Spot) /\ ListOf(<<Mark>>, Spot)
  BY DEF ListOf, Spot, Mark

----------------------------------------------------------------------------
(* Glyphs in order, and marks with two glyphs at least between them. *)
Ordered(s) == \A p, q \in 1 .. Len(s) : p < q => Before(s[p], s[q])
Spread(s) == \A p, q \in 1 .. Len(s) : (p < q /\ s[p] = Mark /\ s[q] = Mark) => q - p >= 3

(* Two lists in order, the first of which ends before the second begins;   *)
(* and what a list says when its elements are so.                          *)
LEMMA CatOrdered ==
  ASSUME NEW E, NEW a, NEW b, ListOf(a, E), ListOf(b, E), Ordered(a), Ordered(b),
         \A x \in Elements(a), y \in Elements(b) : Before(x, y)
  PROVE  Ordered(Cat(a, b))
<1> DEFINE m == Len(a)
           n == Len(b)
           c == Cat(a, b)
<1>1. /\ m \in Nat /\ n \in Nat /\ Len(c) = m + n
      /\ \A p \in 1 .. m + n : c[p] = IF p <= m THEN a[p] ELSE b[p - m]
  BY CatIs
<1> HIDE DEF c
<1>2. ASSUME NEW p \in 1 .. m + n, NEW q \in 1 .. m + n, p < q
      PROVE  Before(c[p], c[q])
  <2>1. CASE q <= m
    <3>1. p \in 1 .. m /\ q \in 1 .. m /\ c[p] = a[p] /\ c[q] = a[q]
      BY <2>1, <1>1, <1>2
    <3>2. QED
      BY <3>1, <1>2 DEF Ordered
  <2>2. CASE p <= m /\ ~(q <= m)
    <3>1. p \in 1 .. m /\ q - m \in 1 .. n /\ c[p] = a[p] /\ c[q] = b[q - m]
      BY <2>2, <1>1, <1>2
    <3>2. c[p] \in Elements(a) /\ c[q] \in Elements(b)
      BY <3>1 DEF Elements
    <3>3. QED
      BY <3>2
  <2>3. CASE ~(p <= m)
    <3>1. p - m \in 1 .. n /\ q - m \in 1 .. n /\ p - m < q - m /\ c[p] = b[p - m] /\ c[q] = b[q - m]
      BY <2>3, <1>1, <1>2
    <3>2. QED
      BY <3>1 DEF Ordered
  <2>4. QED
    BY <2>1, <2>2, <2>3, <1>1
<1>3. QED
  BY <1>1, <1>2 DEF Ordered, c

LEMMA ReadOrdered ==
  ASSUME NEW E, NEW T, NEW f, Tells(f, E, T), NEW s, ListOf(s, E),
         \A i \in 1 .. Len(s) : Ordered(f[s[i]]),
         \A i, j \in 1 .. Len(s) : i < j =>
           \A x \in Elements(f[s[i]]), y \in Elements(f[s[j]]) : Before(x, y)
  PROVE  Ordered(ReadOff(f, s))
<1> DEFINE n == Len(s)
           first(k) == SubSeq(s, 1, k)
           G == {k \in 0 .. n : Ordered(ReadOff(f, first(k)))}
<1>0. n \in Nat /\ s \in Seq(E)
  BY LenProperties DEF ListOf
<1>1. 0 \in G
  <2>1. first(0) = <<>> /\ 0 \in 0 .. n
    BY <1>0
  <2>2. Ordered(<<>>)
    BY DEF Ordered
  <2>3. Ordered(ReadOff(f, first(0)))
    BY <2>1, <2>2, ReadNothing
  <2>4. QED
    BY <2>1, <2>3
<1>2. ASSUME NEW k \in 0 .. n - 1, k \in G
      PROVE  k + 1 \in G
  <2> DEFINE t == first(k)
             x == s[k + 1]
             w == ReadOff(f, t)
  <2>1. /\ t \in Seq(E) /\ Len(t) = k /\ x \in E /\ first(k + 1) = Append(t, x)
    BY <1>0, PrefixGrows
  <2>2. Ordered(w)
    BY <1>2
  <2>3. k + 1 \in 0 .. n /\ k + 1 \in 1 .. n /\ k \in Nat
    BY <1>0
  <2>4. \A i \in 1 .. k : t[i] = s[i]
    BY <1>0, <2>3
  <2>5. Ordered(f[x])
    BY <2>3
  <2>6. \A i \in 1 .. k : \A y \in Elements(f[t[i]]), z \in Elements(f[x]) : Before(y, z)
    <3>1. \A i \in 1 .. k : i \in 1 .. n /\ i < k + 1
      BY <2>3, <1>0
    <3>2. QED
      BY <2>3, <2>4, <3>1
  <2> HIDE DEF t, x, first
  <2>7. ListOf(t, E)
    BY <2>1 DEF ListOf
  <2>8. \A y : y \in Elements(w) <=> \E i \in 1 .. k : y \in Elements(f[t[i]])
    <3>1. \A y : y \in Elements(ReadOff(f, t)) <=> \E i \in 1 .. Len(t) : y \in Elements(f[t[i]])
      BY <2>7, ReadElements
    <3>2. QED
      BY <3>1, <2>1
  <2>9. ListOf(w, T)
    BY <2>7, ReadIsList
  <2>10. ListOf(f[x], T)
    BY <2>1 DEF Tells, ListOf
  <2>11. ReadOff(f, Append(t, x)) = Cat(w, f[x])
    BY <2>1, <2>7, ReadOneMore
  <2>12. Ordered(Cat(w, f[x]))
    <3> HIDE DEF w
    <3> DEFINE v == f[x]
    <3>1. \A y \in Elements(w), z \in Elements(v) : Before(y, z)
      BY <2>6, <2>8
    <3>2. ListOf(v, T) /\ Ordered(v)
      BY <2>5, <2>10
    <3> HIDE DEF v
    <3>3. Ordered(Cat(w, v))
      BY ONLY <2>2, <2>9, <3>1, <3>2, CatOrdered
    <3>4. QED
      BY <3>3 DEF v
  <2>13. QED
    BY <2>1, <2>3, <2>11, <2>12
<1> HIDE DEF G
<1>3. \A k \in 0 .. n : k \in G
  BY <1>0, <1>1, <1>2, BoundedInduction, Zenon
<1>4. n \in G
  BY <1>0, <1>3
<1>5. first(n) = s
  BY <1>0, SubSeqFull
<1> HIDE DEF first
<1>6. QED
  BY <1>4, <1>5 DEF G

(* A part of a spread list is spread, and so is the list without a mark. *)
LEMMA SpreadOfParts ==
  ASSUME NEW E, NEW a, NEW b, ListOf(a, E), ListOf(b, E), Spread(Cat(a, b))
  PROVE  Spread(a) /\ Spread(b)
<1> DEFINE m == Len(a)
           n == Len(b)
           c == Cat(a, b)
<1>1. /\ m \in Nat /\ n \in Nat /\ Len(c) = m + n
      /\ \A p \in 1 .. m + n : c[p] = IF p <= m THEN a[p] ELSE b[p - m]
  BY CatIs
<1> HIDE DEF c
<1>2. \A p, q \in 1 .. m + n : (p < q /\ c[p] = Mark /\ c[q] = Mark) => q - p >= 3
  BY <1>1 DEF Spread, c
<1> HIDE DEF m, n
<1>3. ASSUME NEW p \in 1 .. m, NEW q \in 1 .. m, p < q, a[p] = Mark, a[q] = Mark
      PROVE  q - p >= 3
  <2>1. p \in 1 .. m + n /\ q \in 1 .. m + n /\ c[p] = a[p] /\ c[q] = a[q]
    BY <1>1
  <2>2. QED
    BY <1>2, <1>3, <2>1
<1>4. ASSUME NEW p \in 1 .. n, NEW q \in 1 .. n, p < q, b[p] = Mark, b[q] = Mark
      PROVE  q - p >= 3
  <2> DEFINE P == m + p
             Q == m + q
  <2>1. /\ P \in 1 .. m + n /\ Q \in 1 .. m + n /\ ~(P <= m) /\ ~(Q <= m)
        /\ P - m = p /\ Q - m = q /\ P < Q /\ Q - P = q - p
    BY <1>1, <1>4
  <2> HIDE DEF P, Q
  <2>2. c[P] = b[p] /\ c[Q] = b[q]
    BY <1>1, <2>1
  <2>3. Q - P >= 3
    BY <1>2, <1>4, <2>1, <2>2
  <2>4. QED
    BY <2>1, <2>3
<1>5. QED
  BY <1>3, <1>4 DEF Spread, m, n

LEMMA SpreadWithout ==
  ASSUME NEW E, NEW a, NEW b, ListOf(a, E), ListOf(b, E), NEW y, ListOf(y, E), Len(y) <= 1,
         \A p \in 1 .. Len(y) : y[p] = Mark, Spread(Cat(a, Cat(y, b)))
  PROVE  Spread(Cat(a, b))
<1> DEFINE m == Len(a)
           n == Len(b)
           l == Len(y)
           c == Cat(a, b)
           d == Cat(y, b)
           e == Cat(a, d)
<1>0. ListOf(d, E)
  BY CatIsList
<1>1. /\ m \in Nat /\ n \in Nat /\ Len(c) = m + n
      /\ \A p \in 1 .. m + n : c[p] = IF p <= m THEN a[p] ELSE b[p - m]
  BY CatIs
<1>2. /\ l \in Nat /\ n \in Nat /\ Len(d) = l + n
      /\ \A p \in 1 .. l + n : d[p] = IF p <= l THEN y[p] ELSE b[p - l]
  BY CatIs
<1>3. /\ Len(e) = m + (l + n)
      /\ \A p \in 1 .. m + (l + n) : e[p] = IF p <= m THEN a[p] ELSE d[p - m]
  <2>1. Len(d) = l + n
    BY <1>2
  <2>2. ListOf(a, E)
    OBVIOUS
  <2> HIDE DEF d, l, n
  <2>3. /\ Len(e) = m + Len(d)
        /\ \A p \in 1 .. m + Len(d) : e[p] = IF p <= m THEN a[p] ELSE d[p - m]
    BY ONLY <1>0, <2>2, CatIs DEF m, e
  <2>4. QED
    BY ONLY <2>1, <2>3
<1>4. \A p, q \in 1 .. m + (l + n) : (p < q /\ e[p] = Mark /\ e[q] = Mark) => q - p >= 3
  <2>1. Spread(e)
    OBVIOUS
  <2> HIDE DEF e
  <2>2. QED
    BY <1>3, <2>1 DEF Spread
<1>5. l \in {0, 1} /\ \A p \in 1 .. l : y[p] = Mark
  <2>1. l \in Nat /\ l <= 1 /\ \A p \in 1 .. l : y[p] = Mark
    BY <1>2
  <2> HIDE DEF l
  <2>2. QED
    BY ONLY <2>1
<1> HIDE DEF m, n, l, c, d, e
<1>6. l = 1 => e[m + 1] = Mark
  <2>1. l = 1 => m + 1 \in 1 .. m + (l + n) /\ ~(m + 1 <= m) /\ (m + 1) - m = 1 /\ 1 \in 1 .. l + n /\ 1 \in 1 .. l
    BY <1>1
  <2>2. l = 1 => e[m + 1] = d[1] /\ d[1] = y[1]
    BY <1>1, <1>2, <1>3, <2>1
  <2>3. QED
    BY <1>5, <2>1, <2>2
<1>7. \A p \in 1 .. m + n : c[p] = IF p <= m THEN e[p] ELSE e[p + l]
  <2> TAKE p \in 1 .. m + n
  <2>1. CASE p <= m
    <3>1. p \in 1 .. m + (l + n)
      BY <1>1, <1>2
    <3>2. QED
      BY <1>1, <1>3, <2>1, <3>1
  <2>2. CASE ~(p <= m)
    <3> DEFINE q == p + l
               r == q - m
    <3>1. q \in 1 .. m + (l + n) /\ ~(q <= m) /\ r \in 1 .. l + n /\ ~(r <= l) /\ r - l = p - m
      BY <1>1, <1>2, <2>2
    <3>2. e[q] = d[q - m]
      BY <1>3, <3>1
    <3>3. d[r] = b[r - l]
      BY <1>2, <3>1
    <3>4. QED
      BY <1>1, <2>2, <3>1, <3>2, <3>3
  <2>3. QED
    BY <2>1, <2>2
<1>8. ASSUME NEW p \in 1 .. m + n, NEW q \in 1 .. m + n, p < q, c[p] = Mark, c[q] = Mark
      PROVE  q - p >= 3
  <2>1. CASE q <= m \/ l = 0
    <3>1. p \in 1 .. m + (l + n) /\ q \in 1 .. m + (l + n) /\ p + 0 = p /\ q + 0 = q /\ (q <= m => p <= m)
      BY <1>1, <1>2, <1>8
    <3>2. e[p] = c[p] /\ e[q] = c[q]
      BY <1>7, <2>1, <3>1
    <3>3. QED
      BY <1>4, <1>8, <3>1, <3>2
  <2>2. CASE p <= m /\ ~(q <= m) /\ l = 1
    <3>1. p \in 1 .. m + (l + n) /\ q + l \in 1 .. m + (l + n) /\ m + 1 \in 1 .. m + (l + n) /\ p < m + 1 /\ m + 1 < q + l
      BY <1>1, <1>2, <1>8, <2>2
    <3>2. e[p] = Mark /\ e[q + l] = Mark /\ e[m + 1] = Mark
      BY <1>6, <1>7, <1>8, <2>2
    <3>3. (m + 1) - p >= 3 /\ (q + l) - (m + 1) >= 3
      BY <1>4, <3>1, <3>2
    <3>4. QED
      BY <1>1, <1>8, <2>2, <3>3
  <2>3. CASE ~(p <= m) /\ ~(q <= m) /\ l = 1
    <3>1. p + l \in 1 .. m + (l + n) /\ q + l \in 1 .. m + (l + n) /\ p + l < q + l /\ (q + l) - (p + l) = q - p
      BY <1>1, <1>2, <1>8, <2>3
    <3>2. e[p + l] = Mark /\ e[q + l] = Mark
      BY <1>7, <1>8, <2>3
    <3>3. QED
      BY <1>4, <3>1, <3>2
  <2>4. QED
    BY <1>1, <1>5, <1>8, <2>1, <2>2, <2>3
<1>9. QED
  BY <1>1, <1>8 DEF Spread, c

(* Each kind of item, and of nodes, is one of the next. *)
LEMMA ItemsGrow == CharItem \subseteq FreshItem /\ FreshItem \subseteq AnyItem /\ CharItem \subseteq AnyItem
<1>1. Accent(<<>>) \in AccentItem
  BY DEF AccentItem, Accent
<1>2. QED
  BY <1>1 DEF FreshItem, AnyItem, NewAccent

LEMMA NodesGrow ==
  ASSUME NEW I, NEW J, I \subseteq J
  PROVE  NodesOf(I) \subseteq NodesOf(J)
<1>1. Seq(I) \subseteq Seq(J)
  OBVIOUS
<1> DEFINE A == Seq(I)
           B == Seq(J)
<1> HIDE DEF A, B
<1>2. [k : {"text"}, font : Int, h : Int, v : Int, items : A] \subseteq [k : {"text"}, font : Int, h : Int, v : Int, items : B]
  BY <1>1 DEF A, B
<1>3. QED
  BY <1>2 DEF NodesOf, TextNode, A, B

LEMMA AnyNodes ==
  ASSUME NEW I, I \subseteq AnyItem, NEW s, ListOf(s, NodesOf(I))
  PROVE  ListOf(s, AnyNode)
<1>1. NodesOf(I) \subseteq AnyNode
  BY NodesGrow DEF AnyNode
<1>2. QED
  BY <1>1, ListGrows

(* `Written' is what the nodes say with nothing for an accent. *)
LEMMA WrittenSays ==
  ASSUME ListOf(kids, AnyNode)
  PROVE  Written = Says(<<>>, kids)
<1> DEFINE f == NodeSays(<<>>)
           g == ItemSays(<<>>)
           Node(n) == IF kids[n].k = "text" THEN InItems(kids[n].items) ELSE <<>>
<1>1. ListOf(<<>>, Spot)
  BY Marks
<1>2. ASSUME NEW items, ListOf(items, AnyItem)
      PROVE  InItems(items) = ItemsSay(<<>>, items)
  <2>1. DOMAIN items = 1 .. Len(items)
    BY <1>2, LenProperties DEF ListOf
  <2>2. ASSUME NEW p \in DOMAIN items
        PROVE  PlacesOf(items[p].gs) = g[items[p]]
    <3> DEFINE x == items[p]
    <3>1. x \in AnyItem
      BY <1>2, <2>1, ElementIs
    <3> HIDE DEF x
    <3>2. ListOf(PlacesOf(x.gs), Spot)
      BY <3>1, ItemIs, PlacesAre
    <3>3. Cat(<<>>, PlacesOf(x.gs)) = PlacesOf(x.gs)
      BY <3>2, CatNothing
    <3>4. g[x] = PlacesOf(x.gs)
      BY <1>1, <3>1, <3>3, ItemIs, ItemsTell
    <3>5. QED
      BY <3>4 DEF x
  <2> HIDE DEF g
  <2>3. [p \in DOMAIN items |-> PlacesOf(items[p].gs)] = [p \in DOMAIN items |-> g[items[p]]]
    BY <2>2
  <2>4. QED
    BY <2>3 DEF InItems, ItemsSay, ReadOff, Told, g
<1>3. DOMAIN kids = 1 .. Len(kids)
  BY LenProperties DEF ListOf
<1>4. ASSUME NEW n \in DOMAIN kids
      PROVE  Node(n) = f[kids[n]]
  <2> DEFINE x == kids[n]
  <2>1. x \in AnyNode
    BY <1>3, <1>4, ElementIs
  <2> HIDE DEF x
  <2>2. CASE x.k = "text"
    <3>1. ListOf(x.items, AnyItem)
      BY <2>1, <2>2, NodeIs DEF AnyNode, ListOf
    <3>2. f[x] = ItemsSay(<<>>, x.items)
      BY <1>1, <2>1, <2>2, NodesTell
    <3>3. InItems(x.items) = ItemsSay(<<>>, x.items)
      BY <1>2, <3>1
    <3>4. QED
      BY <2>2, <3>2, <3>3 DEF x
  <2>3. CASE x.k # "text"
    <3>1. f[x] = <<>>
      BY <1>1, <2>1, <2>3, NodesTell
    <3>2. QED
      BY <2>3, <3>1 DEF x
  <2>4. QED
    BY <2>2, <2>3
<1> HIDE DEF f
<1>5. [n \in DOMAIN kids |-> Node(n)] = [n \in DOMAIN kids |-> f[kids[n]]]
  BY <1>4
<1>6. Written = FlattenSeq([n \in DOMAIN kids |-> Node(n)])
  BY DEF Written
<1>7. Says(<<>>, kids) = FlattenSeq([n \in DOMAIN kids |-> f[kids[n]]])
  BY DEF Says, ReadOff, Told, f
<1>8. QED
  BY <1>5, <1>6, <1>7

----------------------------------------------------------------------------
(* What make_node has made of the n-th node. *)
Written1(n) == {<<n, i>> : i \in {j \in DOMAIN src[n].chars : src[n].chars[j] # " "}}

(* make_node leaves a text its letters, each at its place. *)
LEMMA MadeIs ==
  ASSUME src \in Seq(WrittenText \cup OtherNode), NEW n \in 1 .. Len(src)
  PROVE  /\ Made(n) \in NodesOf(CharItem)
         /\ Made(n).k = src[n].k
         /\ src[n].k = "text" =>
              /\ ListOf(Made(n).items, CharItem)
              /\ Len(Made(n).items) = Len(src[n].chars)
              /\ DOMAIN src[n].chars = 1 .. Len(src[n].chars)
              /\ \A i \in 1 .. Len(src[n].chars) :
                   Made(n).items[i] = IF src[n].chars[i] = " " THEN Space
                                      ELSE Char(<<[n |-> n, i |-> i, c |-> src[n].chars[i]]>>)
<1>1. src[n] \in WrittenText \cup OtherNode /\ DOMAIN src = 1 .. Len(src) /\ n \in Nat
  OBVIOUS
<1>2. CASE src[n].k = "text"
  <2> DEFINE chars == src[n].chars
             l == Len(chars)
             At(i) == IF chars[i] = " " THEN Space ELSE Char(<<[n |-> n, i |-> i, c |-> chars[i]]>>)
             items == [i \in 1 .. l |-> At(i)]
  <2>1. src[n] \in WrittenText
    BY <1>1, <1>2 DEF OtherNode
  <2>2. chars \in Seq(STRING) /\ src[n].font \in Int /\ src[n].h \in Int /\ src[n].v \in Int
    BY <2>1 DEF WrittenText
  <2>3. DOMAIN chars = 1 .. l /\ l \in Nat /\ \A i \in 1 .. l : chars[i] \in STRING
    BY <2>2
  <2>4. Made(n) = [k |-> "text", font |-> src[n].font, h |-> src[n].h, v |-> src[n].v, items |-> items]
    BY <1>2, <2>3 DEF Made
  <2>5. ASSUME NEW i \in 1 .. l
        PROVE  At(i) \in CharItem
    <3>1. [n |-> n, i |-> i, c |-> chars[i]] \in Glyph
      BY <1>1, <2>3 DEF Glyph
    <3>2. Space \in CharItem
      BY DEF Space, Char, CharItem
    <3>3. Char(<<[n |-> n, i |-> i, c |-> chars[i]]>>) \in CharItem
      BY <3>1 DEF Char, CharItem
    <3>4. QED
      BY <3>2, <3>3
  <2>6. items \in [1 .. l -> CharItem] /\ \A i \in 1 .. l : items[i] = At(i)
    <3> HIDE DEF At
    <3>1. QED
      BY <2>5
  <2> HIDE DEF items
  <2>7. items \in Seq(CharItem) /\ Len(items) = l
    BY <2>3, <2>6, ListFromFunction
  <2>8. Made(n) \in TextNode(CharItem)
    BY <2>2, <2>4, <2>7 DEF TextNode
  <2>9. Made(n).items = items /\ Made(n).k = "text"
    BY <2>4
  <2>10. QED
    BY <1>2, <2>3, <2>6, <2>7, <2>8, <2>9 DEF NodesOf, ListOf
<1>3. CASE src[n].k # "text"
  <2>1. src[n] \in OtherNode
    BY <1>1, <1>3 DEF WrittenText
  <2>2. Made(n) = [k |-> src[n].k]
    BY <1>3 DEF Made
  <2>3. QED
    BY <1>3, <2>1, <2>2 DEF NodesOf, OtherNode
<1>4. QED
  BY <1>2, <1>3

(* A node says its letters in order, and mk for a tag. *)
LEMMA MadeSays ==
  ASSUME src \in Seq(WrittenText \cup OtherNode), NEW n \in 1 .. Len(src), NEW mk, ListOf(mk, Spot)
  PROVE  /\ src[n].k = "text" => /\ Ordered(NodeSays(mk)[Made(n)])
                                 /\ Elements(NodeSays(mk)[Made(n)]) = Written1(n)
         /\ src[n].k = "tag" => NodeSays(mk)[Made(n)] = mk
         /\ src[n].k \notin {"text", "tag"} => NodeSays(mk)[Made(n)] = <<>>
<1> DEFINE x == Made(n)
           f == ItemSays(mk)
<1>1. /\ x \in NodesOf(CharItem) /\ x.k = src[n].k
  BY MadeIs
<1>2. x \in AnyNode
  BY <1>1, NodesGrow, ItemsGrow DEF AnyNode
<1>3. CASE src[n].k = "text"
  <2> DEFINE items == x.items
             chars == src[n].chars
             l == Len(chars)
  <2>1. /\ ListOf(items, CharItem) /\ Len(items) = l /\ DOMAIN chars = 1 .. l
        /\ \A i \in 1 .. l : items[i] = IF chars[i] = " " THEN Space
                                        ELSE Char(<<[n |-> n, i |-> i, c |-> chars[i]]>>)
    BY <1>3, MadeIs
  <2>2. NodeSays(mk)[x] = ItemsSay(mk, items)
    <3> HIDE DEF x
    <3>1. QED
      BY <1>1, <1>2, <1>3, NodesTell DEF items
  <2>3. ListOf(items, AnyItem)
    <3> HIDE DEF items
    <3>1. QED
      BY <2>1, ListGrows, ItemsGrow
  <2> HIDE DEF x, items
  <2>4. ASSUME NEW i \in 1 .. l
        PROVE  f[items[i]] = IF chars[i] = " " THEN <<>> ELSE <<<<n, i>>>>
    <3> DEFINE y == items[i]
    <3>1. y \in AnyItem
      BY <2>1, <2>3, ElementIs
    <3>2. y = IF chars[i] = " " THEN Space ELSE Char(<<[n |-> n, i |-> i, c |-> chars[i]]>>)
      BY <2>1
    <3> HIDE DEF y
    <3>3. y.k # "accent" /\ y.gs = IF chars[i] = " " THEN <<>> ELSE <<[n |-> n, i |-> i, c |-> chars[i]]>>
      BY <3>2 DEF Space, Char
    <3>4. f[y] = PlacesOf(y.gs)
      BY <3>1, <3>3, ItemsTell
    <3>5. PlacesOf(<<[n |-> n, i |-> i, c |-> chars[i]]>>) = <<<<n, i>>>>
      BY DEF PlacesOf, Place
    <3>6. f[y] = IF chars[i] = " " THEN <<>> ELSE <<<<n, i>>>>
      BY <3>3, <3>4, <3>5, NoPlaces
    <3>7. QED
      BY <3>6 DEF y
  <2>5. ASSUME NEW i \in 1 .. l
        PROVE  /\ Ordered(f[items[i]])
               /\ \A y : y \in Elements(f[items[i]]) <=> (chars[i] # " " /\ y = <<n, i>>)
    <3>1. Ordered(<<>>) /\ Ordered(<<<<n, i>>>>)
      BY DEF Ordered
    <3>2. Elements(<<>>) = {} /\ Elements(<<<<n, i>>>>) = {<<n, i>>}
      BY DEF Elements
    <3>3. QED
      BY <2>4, <3>1, <3>2
  <2>6. Tells(f, AnyItem, Spot)
    BY ItemsTell
  <2> HIDE DEF f, chars, l
  <2>7. Ordered(ReadOff(f, items))
    <3>1. \A i \in 1 .. l : Ordered(f[items[i]])
      BY <2>5
    <3>2. ASSUME NEW i \in 1 .. l, NEW j \in 1 .. l, i < j,
                 NEW y \in Elements(f[items[i]]), NEW z \in Elements(f[items[j]])
          PROVE  Before(y, z)
      <4>1. y = <<n, i>> /\ z = <<n, j>>
        BY <2>5
      <4>2. QED
        BY <3>2, <4>1 DEF Before
    <3>3. QED
      BY <2>1, <2>3, <2>6, <3>1, <3>2, ReadOrdered
  <2>8. \A y : y \in Elements(ReadOff(f, items)) <=> \E i \in 1 .. l : (chars[i] # " " /\ y = <<n, i>>)
    <3>1. \A y : y \in Elements(ReadOff(f, items)) <=> \E i \in 1 .. Len(items) : y \in Elements(f[items[i]])
      BY <2>3, <2>6, ReadElements
    <3>2. QED
      BY <2>1, <2>5, <3>1
  <2>9. \A y : y \in Written1(n) <=> \E i \in 1 .. l : (chars[i] # " " /\ y = <<n, i>>)
    BY <2>1 DEF Written1, chars
  <2>10. Elements(ReadOff(f, items)) = Written1(n)
    BY ONLY <2>8, <2>9
  <2>11. QED
    BY <1>3, <2>2, <2>7, <2>10 DEF ItemsSay, f, x
<1>4. CASE src[n].k = "tag"
  <2> HIDE DEF x
  <2>1. NodeSays(mk)[x] = mk
    BY <1>1, <1>2, <1>4, NodesTell
  <2>2. QED
    BY <1>4, <2>1 DEF x
<1>5. CASE src[n].k \notin {"text", "tag"}
  <2>1. x.k \notin {"text", "tag", "accent"}
    <3>1. src[n].k # "accent"
      <4>1. ASSUME NEW w \in WrittenText \cup OtherNode
            PROVE  w.k # "accent"
        <5>1. w \in WrittenText => w.k = "text"
          BY DEF WrittenText
        <5>2. w \in OtherNode => w.k \in {"kern", "space", "push", "pop", "tag", "xxx", "bop"}
          BY DEF OtherNode
        <5>3. QED
          BY <5>1, <5>2
      <4>2. src[n] \in WrittenText \cup OtherNode
        OBVIOUS
      <4>3. QED
        BY <4>1, <4>2
    <3>2. QED
      BY <1>1, <1>5, <3>1
  <2> HIDE DEF x
  <2>2. NodeSays(mk)[x] = <<>>
    BY <1>2, <2>1, NodesTell
  <2>3. QED
    BY <1>5, <2>2 DEF x
<1>6. QED
  BY <1>3, <1>4, <1>5

(* A list in order has no entry twice. *)
LEMMA OrderedCounts ==
  ASSUME NEW s, ListOf(s, Spot), Ordered(s)
  PROVE  Len(s) = Cardinality(Elements(s))
<1> DEFINE n == Len(s)
           S == Elements(s)
<1>1. n \in Nat /\ DOMAIN s = 1 .. n /\ \A i \in 1 .. n : s[i] \in Spot
  BY LenProperties, ElementOfSeq DEF ListOf
<1>2. \A i \in 1 .. n : s[i] \in S
  BY DEF Elements
<1>3. s \in [1 .. n -> S]
  <2>1. s = [i \in 1 .. n |-> s[i]]
    BY <1>1, LenProperties DEF ListOf
  <2> HIDE DEF S, n
  <2>2. QED
    BY <1>2, <2>1
<1>4. ASSUME NEW i \in 1 .. n, NEW j \in 1 .. n, s[i] = s[j]
      PROVE  i = j
  <2>1. \A x \in Spot : ~Before(x, x)
    BY DEF Spot, Before
  <2>2. ~(i < j) /\ ~(j < i)
    BY <1>1, <1>4, <2>1 DEF Ordered
  <2>3. QED
    BY <2>2, <1>1
<1>5. \A x \in S : \E i \in 1 .. n : s[i] = x
  BY DEF Elements
<1> HIDE DEF S, n
<1>6. s \in Bijection(1 .. n, S)
  <2>1. DOMAIN s = 1 .. n
    BY <1>3
  <2>2. s \in Injection(1 .. n, S)
    BY <1>3, <1>4, <2>1 DEF Injection, IsInjective
  <2>3. s \in Surjection(1 .. n, S)
    BY <1>3, <1>5 DEF Surjection
  <2>4. QED
    BY <2>2, <2>3 DEF Bijection
<1>7. ExistsBijection(1 .. n, S)
  BY <1>6 DEF ExistsBijection
<1>8. Cardinality(S) = n
  BY <1>1, <1>7, FS_CountingElements
<1>9. QED
  BY <1>8 DEF n, S

(* Two entries that differ. *)
LEMMA TwoEntries ==
  ASSUME NEW E, NEW s, ListOf(s, E), NEW S, S \subseteq Elements(s), ~(Cardinality(S) <= 1)
  PROVE  Len(s) >= 2
<1>1. Len(s) \in Nat
  BY LenProperties DEF ListOf
<1>2. Cardinality({}) = 0
  BY FS_EmptySet
<1>3. S # {}
  BY <1>2
<1>4. PICK x : x \in S
  BY <1>3
<1>5. Cardinality({x}) = 1
  BY FS_Singleton
<1>6. S # {x}
  BY <1>5
<1>7. PICK y \in S : y # x
  BY <1>4, <1>6
<1>8. PICK i \in 1 .. Len(s), j \in 1 .. Len(s) : s[i] = x /\ s[j] = y
  BY <1>4, <1>7 DEF Elements
<1>9. i # j
  BY <1>7, <1>8
<1>10. QED
  BY <1>1, <1>8, <1>9

----------------------------------------------------------------------------
(* All the nodes of the document. *)
All == [n \in 1 .. Len(src) |-> Made(n)]
SrcIs == src \in Seq(WrittenText \cup OtherNode)

(* All of them are nodes, and say the letters of the document, each once   *)
(* and in order.                                                           *)
LEMMA AllIs ==
  ASSUME SrcIs
  PROVE  /\ ListOf(All, NodesOf(CharItem)) /\ ListOf(All, AnyNode)
         /\ Len(All) = Len(src) /\ Len(src) \in Nat
         /\ \A n \in 1 .. Len(src) : All[n] = Made(n)
<1>1. Len(src) \in Nat
  BY LenProperties DEF SrcIs
<1>2. \A n \in 1 .. Len(src) : Made(n) \in NodesOf(CharItem)
  BY MadeIs DEF SrcIs
<1>3. All \in [1 .. Len(src) -> NodesOf(CharItem)] /\ \A n \in 1 .. Len(src) : All[n] = Made(n)
  BY <1>2 DEF All
<1>4. All \in Seq(NodesOf(CharItem)) /\ Len(All) = Len(src)
  BY <1>1, <1>3, ListFromFunction
<1>5. ListOf(All, NodesOf(CharItem))
  BY <1>4 DEF ListOf
<1>6. ListOf(All, AnyNode)
  BY <1>5, AnyNodes, ItemsGrow
<1>7. QED
  BY <1>1, <1>3, <1>4, <1>5, <1>6

(* The letters are those of the texts. *)
LEMMA LettersAre ==
  ASSUME SrcIs
  PROVE  \A y : y \in Letters <=> \E n \in 1 .. Len(src) : src[n].k = "text" /\ y \in Written1(n)
<1>1. DOMAIN src = 1 .. Len(src)
  BY LenProperties DEF SrcIs
<1>2. Letters = UNION {Written1(n) : n \in Places("text")}
  BY DEF Letters, Written1
<1>3. Places("text") = {n \in 1 .. Len(src) : src[n].k = "text"}
  BY <1>1 DEF Places
<1>4. QED
  BY ONLY <1>2, <1>3

LEMMA WrittenOnes ==
  ASSUME NEW n
  PROVE  \A y \in Written1(n) : y[1] = n
<1> SUFFICES ASSUME NEW y \in Written1(n) PROVE y[1] = n
  OBVIOUS
<1>1. PICK i : y = <<n, i>>
  BY DEF Written1
<1>2. QED
  BY <1>1

LEMMA AllRead ==
  ASSUME SrcIs
  PROVE  /\ Ordered(Says(<<>>, All))
         /\ Elements(Says(<<>>, All)) = Letters
         /\ Len(Says(<<>>, All)) = Cardinality(Letters)
<1> DEFINE f == NodeSays(<<>>)
           N == Len(src)
<1>1. /\ ListOf(All, AnyNode) /\ Len(All) = N /\ N \in Nat
      /\ \A n \in 1 .. N : All[n] = Made(n)
  BY AllIs
<1>2. Tells(f, AnyNode, Spot)
  BY NodesTell, Marks
<1>3. ASSUME NEW n \in 1 .. N
      PROVE  /\ Ordered(f[All[n]])
             /\ \A y : y \in Elements(f[All[n]]) <=> src[n].k = "text" /\ y \in Written1(n)
  <2>1. ListOf(<<>>, Spot)
    BY Marks
  <2>2. Ordered(<<>>)
    BY DEF Ordered
  <2>3. Elements(<<>>) = {}
    BY DEF Elements
  <2>4. SrcIs /\ src \in Seq(WrittenText \cup OtherNode)
    BY DEF SrcIs
  <2>5. /\ src[n].k = "text" => Ordered(f[Made(n)]) /\ Elements(f[Made(n)]) = Written1(n)
        /\ src[n].k # "text" => f[Made(n)] = <<>>
    BY <2>1, <2>4, MadeSays
  <2>6. All[n] = Made(n)
    BY <1>1
  <2> HIDE DEF f
  <2>7. QED
    BY <2>2, <2>3, <2>5, <2>6
<1> HIDE DEF f, N
<1>4. Ordered(ReadOff(f, All))
  <2>1. \A n \in 1 .. Len(All) : Ordered(f[All[n]])
    BY <1>1, <1>3
  <2>2. ASSUME NEW i \in 1 .. Len(All), NEW j \in 1 .. Len(All), i < j,
               NEW x \in Elements(f[All[i]]), NEW y \in Elements(f[All[j]])
        PROVE  Before(x, y)
    <3>1. x[1] = i /\ y[1] = j
      BY <1>1, <1>3, WrittenOnes
    <3>2. QED
      BY <2>2, <3>1 DEF Before
  <2>3. QED
    BY <1>1, <1>2, <2>1, <2>2, ReadOrdered
<1>5. Elements(ReadOff(f, All)) = Letters
  <2>1. \A y : y \in Elements(ReadOff(f, All)) <=> \E n \in 1 .. Len(All) : y \in Elements(f[All[n]])
    BY <1>1, <1>2, ReadElements
  <2>2. \A y : y \in Letters <=> \E n \in 1 .. N : src[n].k = "text" /\ y \in Written1(n)
    BY LettersAre DEF N
  <2>3. QED
    BY <1>1, <1>3, <2>1, <2>2
<1>6. ListOf(ReadOff(f, All), Spot)
  BY <1>1, <1>2, ReadIsList
<1>7. Len(ReadOff(f, All)) = Cardinality(Letters)
  BY <1>4, <1>5, <1>6, OrderedCounts
<1>8. QED
  BY <1>4, <1>5, <1>7 DEF Says, f

(* Two accents between which the paper has two letters of its own. *)
LEMMA AllSpread ==
  ASSUME SrcIs, ~Stacked
  PROVE  Spread(Says(<<Mark>>, All))
<1> DEFINE f == NodeSays(<<Mark>>)
           N == Len(src)
           w == ReadOff(f, All)
           here(i) == Len(ReadOff(f, LeftOf(All, i)))
<1>1. /\ ListOf(All, AnyNode) /\ Len(All) = N /\ N \in Nat
      /\ \A n \in 1 .. N : All[n] = Made(n)
  BY AllIs
<1>2. Tells(f, AnyNode, Spot)
  BY NodesTell, Marks
<1>3. ASSUME NEW n \in 1 .. N
      PROVE  /\ src[n].k = "text" => Elements(f[All[n]]) = Written1(n)
             /\ src[n].k = "tag" => f[All[n]] = <<Mark>>
             /\ src[n].k \notin {"text", "tag"} => f[All[n]] = <<>>
  <2>1. ListOf(<<Mark>>, Spot)
    BY Marks
  <2>2. SrcIs /\ src \in Seq(WrittenText \cup OtherNode)
    BY DEF SrcIs
  <2>3. /\ src[n].k = "text" => Elements(f[Made(n)]) = Written1(n)
        /\ src[n].k = "tag" => f[Made(n)] = <<Mark>>
        /\ src[n].k \notin {"text", "tag"} => f[Made(n)] = <<>>
    BY <2>1, <2>2, MadeSays
  <2>4. All[n] = Made(n)
    BY <1>1
  <2> HIDE DEF f
  <2>5. QED
    BY <2>3, <2>4
<1> HIDE DEF f
<1>4. ASSUME NEW p \in 1 .. Len(w), w[p] = Mark
      PROVE  \E i \in Places("tag") : i \in 1 .. N /\ p = here(i) + 1 /\ f[All[i]] = <<Mark>>
  <2>1. PICK i \in 1 .. Len(All) : \E j \in 1 .. Len(f[All[i]]) : p = here(i) + j /\ w[p] = f[All[i]][j]
    <3>1. ListOf(All, AnyNode)
      BY <1>1
    <3>2. \A m \in 1 .. Len(w) : ComesFrom(f, All, m)
      BY ONLY <1>2, <3>1, ReadAt
    <3>3. ComesFrom(f, All, p)
      BY <3>2
    <3>4. QED
      BY <3>3 DEF ComesFrom
  <2> DEFINE v == f[All[i]]
  <2>2. PICK j \in 1 .. Len(v) : p = here(i) + j /\ w[p] = v[j]
    BY <2>1
  <2>3. i \in 1 .. N /\ i \in Nat /\ i # 0
    BY <1>1
  <2>4. /\ src[i].k = "text" => Elements(v) = Written1(i)
        /\ src[i].k = "tag" => v = <<Mark>>
        /\ src[i].k \notin {"text", "tag"} => v = <<>>
    BY <1>3, <2>3
  <2> HIDE DEF v, w, here
  <2>5. v[j] = Mark
    BY <1>4, <2>2
  <2>6. src[i].k # "text"
    <3>1. ASSUME src[i].k = "text"
          PROVE  FALSE
      <4>1. Mark \in Written1(i)
        BY <2>4, <2>5, <3>1 DEF Elements
      <4>2. Mark[1] = i
        BY <4>1, WrittenOnes
      <4>3. QED
        BY <2>3, <4>2 DEF Mark
    <3>2. QED
      BY <3>1
  <2>7. v # <<>>
    <3>1. ASSUME v = <<>>
          PROVE  FALSE
      <4>1. Len(v) = 0
        BY <3>1
      <4>2. QED
        BY <4>1
    <3>2. QED
      BY <3>1
  <2>8. src[i].k = "tag" /\ v = <<Mark>>
    BY <2>4, <2>6, <2>7
  <2>9. j = 1
    <3>1. Len(v) = 1
      BY <2>8
    <3>2. QED
      BY <3>1
  <2>10. i \in Places("tag")
    <3>1. DOMAIN src = 1 .. N
      BY LenProperties DEF SrcIs
    <3>2. QED
      BY <2>3, <2>8, <3>1 DEF Places
  <2>11. QED
    BY <2>2, <2>3, <2>8, <2>9, <2>10 DEF v
  (* Between two tags. *)
<1>5. ASSUME NEW i \in 1 .. N, NEW k \in 1 .. N, i < k, f[All[i]] = <<Mark>>
      PROVE  /\ here(i) \in Nat /\ here(k) \in Nat /\ here(k) >= here(i) + 1
             /\ ~(Cardinality(LettersIn(i, k)) <= 1) => here(k) >= here(i) + 3
  <2> DEFINE t == LeftOf(All, k)
             x == t[i]
             r == RightOf(t, i)
             a == ReadOff(f, LeftOf(t, i))
             b == ReadOff(f, r)
             y == f[x]
  <2>1. /\ ListOf(t, AnyNode) /\ Len(t) = k - 1 /\ \A m \in 1 .. k - 1 : t[m] = All[m]
    BY <1>1, LeftIs
  <2>2. i \in 1 .. k - 1 /\ i \in 1 .. Len(t) /\ k \in Nat /\ i \in Nat
    BY <1>1, <1>5, <2>1
  <2>3. y = <<Mark>>
    BY <1>5, <2>1, <2>2
  <2>4. LeftOf(t, i) = LeftOf(All, i)
    <3>1. /\ LeftOf(t, i) \in Seq(AnyNode) /\ Len(LeftOf(t, i)) = i - 1
          /\ \A m \in 1 .. i - 1 : LeftOf(t, i)[m] = t[m]
      <4> HIDE DEF t
      <4>1. QED
        BY <2>1, <2>2, LeftIs DEF ListOf
    <3>2. /\ LeftOf(All, i) \in Seq(AnyNode) /\ Len(LeftOf(All, i)) = i - 1
          /\ \A m \in 1 .. i - 1 : LeftOf(All, i)[m] = All[m]
      BY <1>1, LeftIs DEF ListOf
    <3>3. \A m \in 1 .. i - 1 : LeftOf(t, i)[m] = LeftOf(All, i)[m]
      <4>1. \A m \in 1 .. i - 1 : m \in 1 .. k - 1
        BY <2>2
      <4>2. QED
        BY ONLY <2>1, <3>1, <3>2, <4>1
    <3>4. QED
      BY ONLY <3>1, <3>2, <3>3, SeqEqual
  <2> HIDE DEF t
  <2>5. /\ ListOf(r, AnyNode) /\ Len(r) = Len(t) - i /\ \A m \in 1 .. Len(t) - i : r[m] = t[i + m]
    <3>1. ListOf(t, AnyNode)
      BY <2>1
    <3>2. QED
      BY ONLY <2>2, <3>1, RightIs
  <2>6. ReadOff(f, t) = Cat(a, Cat(y, b))
    BY <1>2, <2>1, <2>2, ReadParts
  <2>7. ListOf(a, Spot)
    BY <1>2, <2>1, <2>2, LeftIs, ReadIsList
  <2>8. ListOf(b, Spot)
    <3> HIDE DEF r
    <3>1. QED
      BY <1>2, <2>5, ReadIsList
  <2>9. ListOf(y, Spot) /\ Len(y) = 1
    BY <2>3, Marks
  <2> HIDE DEF y
  <2>10. ListOf(Cat(y, b), Spot) /\ Len(b) \in Nat /\ Len(Cat(y, b)) = 1 + Len(b)
    <3> HIDE DEF b
    <3>1. ListOf(Cat(y, b), Spot)
      BY <2>8, <2>9, CatIsList
    <3>2. ListOf(y, Spot)
      BY <2>9
    <3>3. Len(b) \in Nat /\ Len(Cat(y, b)) = Len(y) + Len(b)
      BY ONLY <2>8, <3>2, CatIs
    <3>4. QED
      BY <2>9, <3>1, <3>3
  <2>11. Len(a) \in Nat /\ Len(ReadOff(f, t)) = Len(a) + (1 + Len(b))
    <3> DEFINE c == Cat(y, b)
    <3>1. ListOf(c, Spot) /\ Len(c) = 1 + Len(b)
      BY <2>10
    <3> HIDE DEF a, b, c
    <3>2. Len(a) \in Nat /\ Len(Cat(a, c)) = Len(a) + Len(c)
      BY <2>7, <3>1, CatIs
    <3>3. QED
      BY <2>6, <3>1, <3>2 DEF c
  <2>12. here(k) = Len(ReadOff(f, t)) /\ here(i) = Len(a)
    BY <2>4 DEF t
  <2> HIDE DEF a
  <2>13. ASSUME ~(Cardinality(LettersIn(i, k)) <= 1)
         PROVE  Len(b) >= 2
    <3>1. ASSUME NEW g \in LettersIn(i, k)
          PROVE  g \in Elements(b)
      <4>1. g \in Letters /\ i < g[1] /\ g[1] < k
        BY <3>1 DEF LettersIn
      <4>2. PICK n \in 1 .. Len(src) : src[n].k = "text" /\ g \in Written1(n)
        BY <4>1, LettersAre
      <4>3. g[1] = n
        BY <4>2, WrittenOnes
      <4> DEFINE m == n - i
      <4>4. m \in 1 .. Len(t) - i /\ n \in 1 .. k - 1 /\ i + m = n
        BY <2>1, <2>2, <4>1, <4>3
      <4>5. r[m] = All[n]
        <5>1. r[m] = t[i + m]
          BY <2>5, <4>4
        <5> HIDE DEF m, r
        <5>2. QED
          BY <2>1, <4>4, <5>1
      <4>6. m \in 1 .. Len(r)
        BY <2>5, <4>4
      <4> HIDE DEF m, r
      <4>7. g \in Elements(f[r[m]])
        BY <1>3, <4>2, <4>5
      <4>8. \A z : z \in Elements(ReadOff(f, r)) <=> \E q \in 1 .. Len(r) : z \in Elements(f[r[q]])
        BY <1>2, <2>5, ReadElements
      <4>9. QED
        BY <4>6, <4>7, <4>8
    <3> DEFINE S == LettersIn(i, k)
    <3>2. S \subseteq Elements(b)
      BY <3>1
    <3> HIDE DEF S, b
    <3>3. QED
      BY <2>8, <2>13, <3>2, TwoEntries DEF S
  <2>14. QED
    BY <2>10, <2>11, <2>12, <2>13
<1>6. ASSUME NEW p \in 1 .. Len(w), NEW q \in 1 .. Len(w), p < q, w[p] = Mark, w[q] = Mark
      PROVE  q - p >= 3
  <2>1. PICK i \in Places("tag") : i \in 1 .. N /\ p = here(i) + 1 /\ f[All[i]] = <<Mark>>
    BY <1>4, <1>6
  <2>2. PICK k \in Places("tag") : k \in 1 .. N /\ q = here(k) + 1 /\ f[All[k]] = <<Mark>>
    BY <1>4, <1>6
  <2> HIDE DEF w, here
  <2>3. i < k
    <3>1. CASE k < i
      <4>1. here(i) \in Nat /\ here(k) \in Nat /\ here(i) >= here(k) + 1
        BY <1>5, <2>1, <2>2, <3>1
      <4>2. QED
        BY <1>6, <2>1, <2>2, <4>1
    <3>2. CASE k = i
      BY <1>6, <2>1, <2>2, <3>2
    <3>3. i \in Nat /\ k \in Nat
      BY <1>1, <2>1, <2>2
    <3>4. QED
      BY <3>1, <3>2, <3>3
  <2>4. ~(Cardinality(LettersIn(i, k)) <= 1)
    BY <2>1, <2>2, <2>3 DEF Stacked
  <2>5. here(i) \in Nat /\ here(k) \in Nat /\ here(k) >= here(i) + 3
    BY <1>5, <2>1, <2>2, <2>3, <2>4
  <2> DEFINE u == here(i)
             v == here(k)
  <2>6. p = u + 1 /\ q = v + 1 /\ u \in Nat /\ v \in Nat /\ v >= u + 3
    BY <2>1, <2>2, <2>5
  <2> HIDE DEF u, v
  <2>7. QED
    BY ONLY <2>6
<1>7. QED
  BY <1>6 DEF Spread, Says, w, f

(* A page goes up to the next one. *)
Firsts == Among([n \in 1 .. Len(src) |-> n], Bops)
Start(p) == IF p <= Len(Firsts) THEN Firsts[p] ELSE Len(src) + 1

(* The first nodes of the pages, in ascending order. *)
LEMMA FirstsAre ==
  ASSUME SrcIs
  PROVE  /\ Firsts \in Seq(Int) /\ Ascending(Firsts)
         /\ Len(Firsts) \in Nat /\ \A p \in 1 .. Len(Firsts) : Firsts[p] \in 1 .. Len(src) /\ Firsts[p] \in Bops
         /\ \A n \in Bops : n \in 1 .. Len(src) /\ \E p \in 1 .. Len(Firsts) : Firsts[p] = n
<1> DEFINE N == Len(src)
           all == [n \in 1 .. N |-> n]
           F == Among(all, Bops)
<1>1. N \in Nat /\ DOMAIN src = 1 .. N
  BY LenProperties DEF SrcIs
<1>2. all \in Seq(1 .. N) /\ Len(all) = N /\ \A n \in 1 .. N : all[n] = n
  <2>1. all \in [1 .. N -> 1 .. N] /\ \A n \in 1 .. N : all[n] = n
    OBVIOUS
  <2> HIDE DEF all, N
  <2>2. QED
    BY <1>1, <2>1, ListFromFunction
<1> HIDE DEF all, N
<1>3. all \in Seq(Int) /\ Ascending(all)
  <2>1. Ascending(all)
    BY <1>2 DEF Ascending
  <2>2. 1 .. N \subseteq Int
    OBVIOUS
  <2>3. QED
    BY <1>2, <2>1, <2>2
<1>4. Elements(all) = 1 .. N
  BY <1>2 DEF Elements
<1>5. Bops \subseteq 1 .. N
  BY <1>1 DEF Bops
<1>6. F \in Seq(1 .. N) /\ Elements(F) = Elements(all) \cap Bops
  BY <1>2, AmongProperties
<1>7. F \in Seq(Int)
  BY <1>3, AmongProperties
<1>8. Ascending(F)
  BY <1>3, AmongAscending
<1>9. Elements(F) = Bops
  BY <1>4, <1>5, <1>6
<1>10. Len(F) \in Nat /\ \A p \in 1 .. Len(F) : F[p] \in 1 .. N /\ F[p] \in Elements(F)
  BY <1>6, LenProperties, ElementOfSeq DEF Elements
<1>11. \A n \in Elements(F) : \E p \in 1 .. Len(F) : F[p] = n
  BY DEF Elements
<1>12. F = Firsts
  BY DEF Firsts, all, N
<1> HIDE DEF F
<1>13. \A n \in Bops : n \in 1 .. N /\ \E p \in 1 .. Len(F) : F[p] = n
  BY <1>5, <1>9, <1>11
<1>14. \A p \in 1 .. Len(F) : F[p] \in 1 .. N /\ F[p] \in Bops
  BY <1>9, <1>10
<1>15. QED
  BY <1>7, <1>8, <1>10, <1>12, <1>13, <1>14 DEF N

(* So the pages, one after the other, are all the nodes. *)
LEMMA PageUpToNext ==
  ASSUME SrcIs, NEW p \in 1 .. Len(Firsts)
  PROVE  /\ Start(p) \in 1 .. Len(src) /\ Start(p + 1) \in Start(p) + 1 .. Len(src) + 1
         /\ Page(Firsts[p]) = [n \in 1 .. Start(p + 1) - Start(p) |-> Made(Start(p) + n - 1)]
<1> DEFINE F == Firsts
           N == Len(src)
           first == F[p]
<1>1. /\ F \in Seq(Int) /\ Ascending(F) /\ Len(F) \in Nat
      /\ \A q \in 1 .. Len(F) : F[q] \in 1 .. N /\ F[q] \in Bops
      /\ \A n \in Bops : n \in 1 .. N /\ \E q \in 1 .. Len(F) : F[q] = n
  BY FirstsAre
<1>2. first \in 1 .. N /\ Start(p) = first /\ N \in Nat /\ p \in Nat
  <2>1. N \in Nat
    BY LenProperties DEF SrcIs
  <2> HIDE DEF N, F
  <2>2. p \in 1 .. Len(F)
    BY DEF F
  <2>3. QED
    BY <1>1, <2>1, <2>2 DEF Start, F
<1>3. PICK last \in first .. N :
        /\ Page(first) = [n \in 1 .. last - first + 1 |-> Made(first + n - 1)]
        /\ last + 1 > N \/ last + 1 \in Bops
        /\ first + 1 .. last \cap Bops = {}
  BY <1>2, PageIs DEF SrcIs
<1> DEFINE next == last + 1
<1>4. next \in first + 1 .. N + 1 /\ last - first + 1 = next - first
  BY <1>2, <1>3
<1>5. next \in Bops => \E q \in 1 .. Len(F) : F[q] = next /\ q > p
  <2>1. SUFFICES ASSUME next \in Bops PROVE \E q \in 1 .. Len(F) : F[q] = next /\ q > p
    OBVIOUS
  <2>2. PICK q \in 1 .. Len(F) : F[q] = next
    BY <1>1, <2>1
  <2>3. F[p] < F[q]
    BY <1>2, <1>4, <2>2
  <2>4. p < q
    <3> HIDE DEF F, next, first, N
    <3>1. p \in 1 .. Len(F)
      BY DEF F
    <3>2. QED
      BY <1>1, <2>3, <3>1, AscendingReflects
  <2>5. QED
    BY <1>2, <2>2, <2>4
<1>6. Start(p + 1) = next
  <2>1. CASE p = Len(F)
    <3>1. next \notin Bops
      BY <1>1, <1>5, <2>1
    <3>2. next > N
      BY <1>3, <3>1
    <3>3. next = N + 1
      BY <1>2, <1>4, <3>2
    <3>4. ~(p + 1 <= Len(F))
      BY <1>1, <2>1
    <3>5. QED
      BY <3>3, <3>4 DEF Start
  <2>2. CASE p # Len(F)
    <3>1. p + 1 \in 1 .. Len(F) /\ p < p + 1
      BY <1>1, <1>2, <2>2
    <3> DEFINE after == F[p + 1]
    <3>2. after \in Bops /\ after \in 1 .. N /\ first < after
      BY <1>1, <3>1 DEF Ascending
    <3> HIDE DEF after
    <3>3. after \notin first + 1 .. last
      BY <1>3, <3>2
    <3>4. next <= after
      BY <1>2, <1>3, <3>2, <3>3
    <3>5. next \in Bops
      BY <1>2, <1>3, <1>4, <3>2, <3>4
    <3>6. PICK q \in 1 .. Len(F) : F[q] = next /\ q > p
      BY <1>5, <3>5
    <3>7. q = p + 1 \/ p + 1 < q
      BY <1>2, <3>6
    <3>8. p + 1 < q => F[p + 1] < F[q]
      BY <1>1, <3>1, <3>6 DEF Ascending
    <3>9. next = after
      BY <1>2, <1>4, <3>2, <3>4, <3>6, <3>7, <3>8 DEF after
    <3>10. QED
      BY <3>1, <3>9 DEF Start, after
  <2>3. QED
    BY <2>1, <2>2
<1>7. QED
  BY <1>2, <1>3, <1>4, <1>6

LEMMA PagesAreAll ==
  ASSUME SrcIs, src # <<>>, src[1].k = "bop"
  PROVE  FlattenSeq(Pages) = All
<1> DEFINE F == Len(Firsts)
           N == Len(src)
           S == AnyNode
           first(p) == SubSeq(Pages, 1, p)
           G == {p \in 0 .. F : FlattenSeq(first(p)) = SubSeq(All, 1, Start(p + 1) - 1)}
<1>1. N \in Nat \ {0} /\ F \in Nat /\ DOMAIN src = 1 .. N
  <2>1. N \in Nat /\ DOMAIN src = 1 .. N
    BY LenProperties DEF SrcIs
  <2>2. N # 0
    BY EmptySeq, LenProperties DEF SrcIs
  <2>3. QED
    BY <2>1, <2>2, FirstsAre
<1>2. /\ ListOf(All, S) /\ Len(All) = N
      /\ \A n \in 1 .. N : All[n] = Made(n)
  BY AllIs
<1>3. Start(1) = 1 /\ F >= 1
  <2>1. 1 \in Bops
    BY <1>1 DEF Bops
  <2>2. PICK p \in 1 .. F : Firsts[p] = 1
    BY <2>1, FirstsAre
  <2>3. F >= 1 /\ 1 \in 1 .. F
    BY <1>1
  <2>4. Firsts[1] \in 1 .. N /\ (1 < p => Firsts[1] < Firsts[p])
    BY <2>3, FirstsAre DEF Ascending
  <2>5. Firsts[1] = 1
    BY <2>2, <2>4
  <2>6. QED
    BY <2>3, <2>5 DEF Start
<1>4. Start(F + 1) = N + 1
  BY <1>1 DEF Start
<1>5. ASSUME NEW p \in 1 .. F
      PROVE  /\ Start(p) \in 1 .. N + 1 /\ Start(p + 1) \in Start(p) .. N + 1
             /\ Page(Firsts[p]) \in Seq(S)
             /\ SubSeq(All, 1, Start(p + 1) - 1) = SubSeq(All, 1, Start(p) - 1) \o Page(Firsts[p])
  <2> DEFINE a == Start(p)
             b == Start(p + 1)
             t == Page(Firsts[p])
  <2>1. a \in 1 .. N /\ b \in a + 1 .. N + 1 /\ t = [n \in 1 .. b - a |-> Made(a + n - 1)]
    BY PageUpToNext
  <2> HIDE DEF a, b, t
  <2>2. a \in 1 .. N + 1 /\ b \in a .. N + 1 /\ b - a \in Nat
    BY <1>1, <2>1
  <2>3. ASSUME NEW n \in 1 .. b - a
        PROVE  a + n - 1 \in 1 .. N /\ Made(a + n - 1) = All[a + n - 1] /\ All[a + n - 1] \in S
    <3> DEFINE m == a + n - 1
    <3>1. m \in 1 .. N
      BY <1>1, <2>1
    <3> HIDE DEF m
    <3>2. Made(m) = All[m] /\ All[m] \in S
      <4>1. Made(m) = All[m]
        BY <1>2, <3>1
      <4>2. m \in 1 .. Len(All) /\ ListOf(All, S)
        BY <1>2, <3>1
      <4>3. All[m] \in S
        BY ONLY <4>2, ElementIs
      <4>4. QED
        BY <4>1, <4>3
    <3>3. QED
      BY <3>1, <3>2 DEF m
  <2>4. t \in [1 .. b - a -> S] /\ \A n \in 1 .. b - a : t[n] = All[a + n - 1]
    <3> HIDE DEF S
    <3>1. \A n \in 1 .. b - a : Made(a + n - 1) \in S /\ Made(a + n - 1) = All[a + n - 1]
      BY <2>3
    <3>2. QED
      BY <2>1, <3>1
  <2>5. t \in Seq(S) /\ SubSeq(All, 1, b - 1) = SubSeq(All, 1, a - 1) \o t
    <3>1. a \in 1 .. Len(All) + 1 /\ b \in a .. Len(All) + 1 /\ ListOf(All, S)
      BY <1>2, <2>2
    <3>2. QED
      BY ONLY <2>4, <3>1, UpToNext
  <2>6. QED
    BY <2>2, <2>5 DEF a, b, t
<1> HIDE DEF S, N
<1>6. /\ Pages \in Seq(Seq(S)) /\ Len(Pages) = F
      /\ \A p \in 1 .. F : Pages[p] = Page(Firsts[p])
  <2> DEFINE w == [p \in 1 .. F |-> Page(Firsts[p])]
  <2>1. Pages = w
    BY DEF Pages, Firsts
  <2>2. \A p \in 1 .. F : Page(Firsts[p]) \in Seq(S)
    BY <1>5
  <2>3. w \in [1 .. F -> Seq(S)] /\ \A p \in 1 .. F : w[p] = Page(Firsts[p])
    BY <2>2
  <2> HIDE DEF w, F
  <2>4. w \in Seq(Seq(S)) /\ Len(w) = F
    BY <1>1, <2>3, ListFromFunction
  <2>5. QED
    BY <2>1, <2>3, <2>4
<1> HIDE DEF F
<1>7. 0 \in G
  <2>1. first(0) = <<>> /\ 0 \in 0 .. F
    BY <1>1, <1>6
  <2>2. SubSeq(All, 1, Start(0 + 1) - 1) = <<>>
    BY <1>2, <1>3 DEF ListOf
  <2> HIDE DEF first
  <2>3. FlattenSeq(first(0)) = <<>>
    BY <2>1, FlattenNone
  <2>4. QED
    BY <2>1, <2>2, <2>3
<1>8. ASSUME NEW p \in 0 .. F - 1, p \in G
      PROVE  p + 1 \in G
  <2>1. p + 1 \in 0 .. F /\ p + 1 \in 1 .. F
    BY <1>1
  <2>2. p \in 0 .. Len(Pages) - 1
    BY <1>6
  <2>3. first(p) \in Seq(Seq(S)) /\ first(p + 1) = Append(first(p), Pages[p + 1])
    BY <1>6, <2>2, PrefixGrows
  <2>4. FlattenSeq(first(p)) = SubSeq(All, 1, Start(p + 1) - 1)
    BY <1>8
  <2>5. Pages[p + 1] = Page(Firsts[p + 1]) /\ Page(Firsts[p + 1]) \in Seq(S)
    BY <1>5, <1>6, <2>1
  <2>6. SubSeq(All, 1, Start((p + 1) + 1) - 1) = SubSeq(All, 1, Start(p + 1) - 1) \o Page(Firsts[p + 1])
    BY <1>5, <2>1
  <2> HIDE DEF first
  <2> DEFINE x == Pages[p + 1]
  <2>7. x \in Seq(S)
    BY <2>5
  <2> HIDE DEF x
  <2>8. FlattenSeq(Append(first(p), x)) = FlattenSeq(first(p)) \o x
    BY <2>3, <2>7, FlattenAppend
  <2>9. FlattenSeq(first(p + 1)) = SubSeq(All, 1, Start((p + 1) + 1) - 1)
    BY ONLY <2>3, <2>4, <2>5, <2>6, <2>8 DEF x
  <2>10. QED
    BY <2>1, <2>9
<1> HIDE DEF G
<1>9. \A p \in 0 .. F : p \in G
  BY <1>1, <1>7, <1>8, BoundedInduction, Zenon
<1>10. F \in G
  BY <1>1, <1>9
<1>11. first(F) = Pages
  BY <1>6, SubSeqFull
<1>12. SubSeq(All, 1, Start(F + 1) - 1) = All
  <2>1. Start(F + 1) - 1 = Len(All)
    BY <1>1, <1>2, <1>4
  <2>2. QED
    BY <1>2, <2>1, SubSeqFull DEF ListOf
<1> HIDE DEF first
<1>13. QED
  BY <1>10, <1>11, <1>12 DEF G

(* The list l says what the list ks said, or that without one accent. *)
SaysSame(l, ks) == \A mk \in {<<>>, <<Mark>>} : Says(mk, l) = Says(mk, ks)
SaysLess(l, ks) ==
  /\ Says(<<>>, l) = Says(<<>>, ks)
  /\ Spread(Says(<<Mark>>, ks)) => Spread(Says(<<Mark>>, l))

(* The first is a case of the second. *)
LEMMA SameIsLess ==
  ASSUME NEW l, NEW ks, SaysSame(l, ks)
  PROVE  SaysLess(l, ks)
  BY DEF SaysSame, SaysLess

LEMMA TwoMarks ==
  ASSUME NEW mk \in {<<>>, <<Mark>>}
  PROVE  ListOf(mk, Spot)
  BY Marks

(* A text given other items is a text. *)
LEMMA TextWith ==
  ASSUME NEW I, NEW J, NEW n \in TextNode(I), NEW items, ListOf(items, J)
  PROVE  /\ [n EXCEPT !.items = items] \in TextNode(J) /\ [n EXCEPT !.items = items] \in NodesOf(J)
         /\ [n EXCEPT !.items = items].k = "text" /\ [n EXCEPT !.items = items].items = items
<1> DEFINE t == [n EXCEPT !.items = items]
<1>1. t = [k |-> n.k, font |-> n.font, h |-> n.h, v |-> n.v, items |-> items]
  BY DEF TextNode
<1>2. n.k = "text" /\ n.font \in Int /\ n.h \in Int /\ n.v \in Int
  BY DEF TextNode
<1>3. items \in Seq(J)
  BY DEF ListOf
<1> HIDE DEF t
<1>4. t \in TextNode(J) /\ t.k = "text" /\ t.items = items
  BY <1>1, <1>2, <1>3 DEF TextNode
<1>5. t \in NodesOf(J)
  BY <1>4 DEF NodesOf
<1>6. QED
  BY <1>4, <1>5 DEF t

(* What a node at its place is and says. *)
LEMMA AtPlace ==
  ASSUME NEW I, I \subseteq AnyItem, NEW ks, ListOf(ks, NodesOf(I)), NEW n, NEW mk, ListOf(mk, Spot),
         NEW x, x = ks[n]
  PROVE  /\ n \in 1 .. Len(ks) => x \in NodesOf(I) /\ x \in AnyNode
         /\ IsText(ks, n) => /\ x \in TextNode(I) /\ ListOf(x.items, I) /\ ListOf(x.items, AnyItem)
                             /\ NodeSays(mk)[x] = ItemsSay(mk, x.items)
         /\ IsControl(ks, n) => NodeSays(mk)[x] = <<>>
         /\ IsAccent(ks, n) => x = Accent(<<>>) /\ NodeSays(mk)[x] = mk
<1>1. n \in 1 .. Len(ks) => x \in NodesOf(I)
  BY ElementIs
<1>2. NodesOf(I) \subseteq AnyNode
  BY NodesGrow DEF AnyNode
<1>3. ASSUME IsText(ks, n)
      PROVE  /\ x \in TextNode(I) /\ ListOf(x.items, I) /\ ListOf(x.items, AnyItem)
             /\ NodeSays(mk)[x] = ItemsSay(mk, x.items)
  <2>1. n \in 1 .. Len(ks) /\ x.k = "text"
    BY <1>3 DEF IsText
  <2>2. x \in NodesOf(I) /\ x \in AnyNode
    BY <1>1, <1>2, <2>1
  <2>3. x \in TextNode(I) /\ ListOf(x.items, I)
    BY <2>1, <2>2, NodeIs DEF ListOf
  <2>4. ListOf(x.items, AnyItem)
    BY <2>3, ListGrows
  <2>5. NodeSays(mk)[x] = ItemsSay(mk, x.items)
    BY <2>1, <2>2, NodesTell
  <2>6. QED
    BY <2>3, <2>4, <2>5
<1>4. ASSUME IsControl(ks, n)
      PROVE  NodeSays(mk)[x] = <<>>
  <2>1. n \in 1 .. Len(ks) /\ x.k \notin {"text", "tag", "accent"}
    BY <1>4 DEF IsControl
  <2>2. x \in AnyNode
    BY <1>1, <1>2, <2>1
  <2>3. QED
    BY <2>1, <2>2, NodesTell
<1>5. ASSUME IsAccent(ks, n)
      PROVE  x = Accent(<<>>) /\ NodeSays(mk)[x] = mk
  <2>1. n \in 1 .. Len(ks) /\ x.k = "accent"
    BY <1>5 DEF IsAccent
  <2>2. x \in NodesOf(I) /\ x \in AnyNode
    BY <1>1, <1>2, <2>1
  <2>3. x = Accent(<<>>)
    BY <2>1, <2>2, NodeIs
  <2>4. NodeSays(mk)[x] = mk
    BY <2>1, <2>2, NodesTell
  <2>5. QED
    BY <2>3, <2>4
<1>6. QED
  BY <1>1, <1>2, <1>3, <1>4, <1>5

(* A text says what its items say. *)
LEMMA TextSays ==
  ASSUME NEW ks, ListOf(ks, AnyNode), NEW n, IsText(ks, n), NEW mk, ListOf(mk, Spot), NEW x, x = ks[n]
  PROVE  NodeSays(mk)[x] = ItemsSay(mk, x.items)
<1>1. n \in 1 .. Len(ks) /\ x.k = "text"
  BY DEF IsText
<1>2. x \in AnyNode
  BY <1>1, ElementIs
<1>3. QED
  BY <1>1, <1>2, NodesTell

(* Items put after one another, and a new accent among them. *)
LEMMA ItemsSayJoined ==
  ASSUME NEW mk, ListOf(mk, Spot), NEW a, NEW b, ListOf(a, AnyItem), ListOf(b, AnyItem)
  PROVE  ItemsSay(mk, Cat(a, b)) = Cat(ItemsSay(mk, a), ItemsSay(mk, b))
<1>1. Tells(ItemSays(mk), AnyItem, Spot)
  BY ItemsTell
<1>2. QED
  BY <1>1, ReadJoined DEF ItemsSay

LEMMA NewAccentSays ==
  ASSUME NEW mk, ListOf(mk, Spot)
  PROVE  /\ ListOf(<<Accent(<<>>)>>, FreshItem) /\ ListOf(<<Accent(<<>>)>>, AnyItem)
         /\ ItemsSay(mk, <<Accent(<<>>)>>) = mk
<1> DEFINE a == Accent(<<>>)
<1>1. a \in FreshItem /\ a \in AnyItem /\ a.k = "accent" /\ a.gs = <<>>
  <2>1. a \in FreshItem /\ a.k = "accent" /\ a.gs = <<>>
    BY DEF FreshItem, NewAccent, Accent
  <2>2. QED
    BY <2>1, ItemsGrow
<1> HIDE DEF a
<1>2. ItemsSay(mk, <<a>>) = ItemSays(mk)[a]
  BY <1>1, ItemsTell, ReadOne DEF ItemsSay
<1>3. ItemSays(mk)[a] = Cat(mk, PlacesOf(<<>>))
  BY <1>1, ItemsTell
<1>4. Cat(mk, <<>>) = mk
  BY CatNothing
<1>5. ItemsSay(mk, <<a>>) = mk
  BY <1>2, <1>3, <1>4, NoPlaces
<1>6. ListOf(<<a>>, FreshItem) /\ ListOf(<<a>>, AnyItem)
  BY <1>1 DEF ListOf
<1>7. QED
  BY <1>5, <1>6 DEF a

----------------------------------------------------------------------------
(* remove_bop_nodes: the nodes that go say nothing. *)
LEMMA BopsOut ==
  ASSUME NEW ks, ListOf(ks, NodesOf(CharItem)), NEW l, l = Among(ks, {n \in Elements(ks) : n.k # "bop"})
  PROVE  ListOf(l, NodesOf(CharItem)) /\ SaysSame(l, ks)
<1> DEFINE S == {n \in Elements(ks) : n.k # "bop"}
<1>1. ListOf(ks, AnyNode)
  BY AnyNodes, ItemsGrow
<1>2. \A i \in 1 .. Len(ks) : ks[i] \in S \/ ks[i].k = "bop"
  BY DEF Elements
<1>3. l = Among(ks, S)
  OBVIOUS
<1> HIDE DEF S
<1>4. ListOf(l, NodesOf(CharItem))
  BY <1>3, AmongProperties DEF ListOf
<1>5. ASSUME NEW mk \in {<<>>, <<Mark>>}
      PROVE  Says(mk, l) = Says(mk, ks)
  <2> DEFINE f == NodeSays(mk)
  <2>1. ListOf(mk, Spot)
    BY TwoMarks
  <2>2. Tells(f, AnyNode, Spot)
    BY <2>1, NodesTell
  <2>3. ASSUME NEW i \in 1 .. Len(ks), ks[i].k = "bop"
        PROVE  f[ks[i]] = <<>>
    <3> DEFINE x == ks[i]
    <3>1. x \in AnyNode /\ x.k \notin {"text", "tag", "accent"}
      BY <1>1, <2>3, ElementIs
    <3> HIDE DEF x
    <3>2. f[x] = <<>>
      BY <2>1, <3>1, NodesTell
    <3>3. QED
      BY <3>2 DEF x
  <2>4. \A i \in 1 .. Len(ks) : ks[i] \in S \/ f[ks[i]] = <<>>
    BY <1>2, <2>3
  <2> HIDE DEF f
  <2>5. ReadOff(f, Among(ks, S)) = ReadOff(f, ks)
    BY <1>1, <2>2, <2>4, ReadAmong
  <2>6. QED
    BY <1>3, <2>5 DEF Says, f
<1>6. QED
  BY <1>4, <1>5 DEF SaysSame

(* remove_control_nodes, where it takes out a run of controls. *)
LEMMA RunOut ==
  ASSUME NEW ks, ListOf(ks, NodesOf(CharItem)), NEW p \in 1 .. Len(ks), NEW q \in p .. Len(ks),
         \A r \in p .. q : IsControl(ks, r), NEW l, l = Without(ks, p, q)
  PROVE  ListOf(l, NodesOf(CharItem)) /\ SaysSame(l, ks)
<1>1. ListOf(ks, AnyNode)
  BY AnyNodes, ItemsGrow
<1>2. ListOf(l, NodesOf(CharItem))
  BY WithoutIs
<1>3. ASSUME NEW mk \in {<<>>, <<Mark>>}
      PROVE  Says(mk, l) = Says(mk, ks)
  <2> DEFINE f == NodeSays(mk)
  <2>1. ListOf(mk, Spot)
    BY TwoMarks
  <2>2. Tells(f, AnyNode, Spot)
    BY <2>1, NodesTell
  <2>3. \A r \in p .. q : f[ks[r]] = <<>>
    BY <2>1, AtPlace, ItemsGrow
  <2> HIDE DEF f
  <2>4. ReadOff(f, Without(ks, p, q)) = ReadOff(f, ks)
    BY <1>1, <2>2, <2>3, SilentOut
  <2>5. QED
    BY <2>4 DEF Says, f
<1>4. QED
  BY <1>2, <1>3 DEF SaysSame

(* remove_control_nodes, where it adds a text to the one before the run. *)
LEMMA OneWordSays ==
  ASSUME NEW ks, ListOf(ks, NodesOf(CharItem)), NEW p \in 1 .. Len(ks), NEW q \in p + 1 .. Len(ks),
         IsText(ks, p), IsText(ks, q), \A r \in p + 1 .. q - 1 : IsControl(ks, r),
         NEW l, l = [Without(ks, p + 1, q) EXCEPT ![p] = Joined(ks[p], ks[q])]
  PROVE  ListOf(l, NodesOf(CharItem)) /\ SaysSame(l, ks)
<1> DEFINE I == CharItem
           y == ks[p]
           z == ks[q]
           x == Joined(y, z)
           c == Cat(y.items, z.items)
<1>1. ListOf(ks, AnyNode) /\ I \subseteq AnyItem
  BY AnyNodes, ItemsGrow
<1>2. /\ y \in TextNode(I) /\ ListOf(y.items, I) /\ ListOf(y.items, AnyItem)
      /\ z \in TextNode(I) /\ ListOf(z.items, I) /\ ListOf(z.items, AnyItem)
  BY <1>1, Marks, AtPlace
<1>3. ListOf(c, I)
  <2> HIDE DEF y, z
  <2>1. QED
    BY <1>2, CatIsList
<1>4. x = [y EXCEPT !.items = c]
  BY DEF Joined, Cat
<1> HIDE DEF I, x, c, y, z
<1>5. x \in TextNode(I) /\ x \in NodesOf(I) /\ x.k = "text" /\ x.items = c
  BY <1>2, <1>3, <1>4, TextWith
<1>6. ListOf(l, NodesOf(I)) /\ Spliced(l, ks, p, q, x)
  <2>1. l = [Without(ks, p + 1, q) EXCEPT ![p] = x]
    BY DEF x, y, z
  <2>2. ListOf(ks, NodesOf(I))
    BY DEF I
  <2>3. QED
    BY <1>5, <2>1, <2>2, SplicedAtFirst
<1>7. x \in AnyNode /\ ListOf(l, AnyNode)
  <2>1. NodesOf(I) \subseteq AnyNode
    BY <1>1, NodesGrow DEF AnyNode
  <2>2. QED
    BY <1>5, <1>6, <2>1, ListGrows
<1>8. ASSUME NEW mk \in {<<>>, <<Mark>>}
      PROVE  Says(mk, l) = Says(mk, ks)
  <2> DEFINE f == NodeSays(mk)
  <2>1. ListOf(mk, Spot)
    BY TwoMarks
  <2>2. Tells(f, AnyNode, Spot)
    BY <2>1, NodesTell
  <2>3. f[y] = ItemsSay(mk, y.items) /\ f[z] = ItemsSay(mk, z.items)
    BY <1>1, <2>1, AtPlace DEF y, z, I
  <2>4. \A r \in p + 1 .. q - 1 : f[ks[r]] = <<>>
    BY <1>1, <2>1, AtPlace DEF I
  <2>5. f[x] = ItemsSay(mk, c)
    BY <1>5, <1>7, <2>1, NodesTell
  <2>6. ItemsSay(mk, c) = Cat(ItemsSay(mk, y.items), ItemsSay(mk, z.items))
    BY <1>2, <2>1, ItemsSayJoined DEF c
  <2> HIDE DEF f
  <2>7. ReadOff(f, SubSeq(ks, p, q)) = Cat(f[y], f[z])
    BY <1>1, <2>2, <2>4, ReadTwo DEF y, z
  <2>8. f[x] = ReadOff(f, SubSeq(ks, p, q))
    BY <2>3, <2>5, <2>6, <2>7
  <2>9. q \in p .. Len(ks)
    BY LenProperties DEF ListOf
  <2>10. ReadOff(f, l) = ReadOff(f, ks)
    BY <1>1, <1>6, <1>7, <2>2, <2>8, <2>9, SplicedSame
  <2>11. QED
    BY <2>10 DEF Says, f
<1>9. QED
  BY <1>6, <1>8 DEF SaysSame, I

(* A tag, an accent or another special is freed. *)
LEMMA OneOut ==
  ASSUME NEW ks, ListOf(ks, AnyNode), NEW n \in 1 .. Len(ks), ks[n].k \in {"tag", "accent", "xxx"},
         NEW l, l = Unlink(ks, n)
  PROVE  SaysLess(l, ks)
<1> DEFINE x == ks[n]
<1>1. x \in AnyNode
  BY ElementIs
<1>2. ASSUME NEW mk, ListOf(mk, Spot)
      PROVE  /\ NodeSays(mk)[x] \in {mk, <<>>} /\ ListOf(NodeSays(mk)[x], Spot)
             /\ ListOf(Says(mk, LeftOf(ks, n)), Spot) /\ ListOf(Says(mk, RightOf(ks, n)), Spot)
             /\ Says(mk, ks) = Cat(Says(mk, LeftOf(ks, n)), Cat(NodeSays(mk)[x], Says(mk, RightOf(ks, n))))
             /\ Says(mk, l) = Cat(Says(mk, LeftOf(ks, n)), Says(mk, RightOf(ks, n)))
  <2> DEFINE f == NodeSays(mk)
  <2>1. Tells(f, AnyNode, Spot)
    BY <1>2, NodesTell
  <2>2. x.k \in {"tag", "accent", "xxx"}
    OBVIOUS
  <2>3. f[x] \in {mk, <<>>}
    <3> HIDE DEF x
    <3>1. x.k \in {"tag", "accent"} => f[x] = mk
      BY <1>1, <1>2, NodesTell
    <3>2. x.k = "xxx" => f[x] = <<>>
      BY <1>1, <1>2, NodesTell
    <3>3. QED
      BY <2>2, <3>1, <3>2
  <2>4. ListOf(f[x], Spot)
    BY <1>2, <2>3, Marks
  <2> HIDE DEF f
  <2>5. ListOf(LeftOf(ks, n), AnyNode) /\ ListOf(RightOf(ks, n), AnyNode)
    BY LeftIs, RightIs
  <2>6. ListOf(ReadOff(f, LeftOf(ks, n)), Spot) /\ ListOf(ReadOff(f, RightOf(ks, n)), Spot)
    BY <2>1, <2>5, ReadIsList
  <2>7. ReadOff(f, ks) = Cat(ReadOff(f, LeftOf(ks, n)), Cat(f[x], ReadOff(f, RightOf(ks, n))))
    BY <2>1, ReadParts
  <2>8. ReadOff(f, Unlink(ks, n)) = Cat(ReadOff(f, LeftOf(ks, n)), ReadOff(f, RightOf(ks, n)))
    BY <2>1, ReadUnlink
  <2>9. QED
    BY <2>3, <2>4, <2>6, <2>7, <2>8 DEF Says, f
<1> HIDE DEF x
<1>3. Says(<<>>, l) = Says(<<>>, ks)
  <2> DEFINE a == Says(<<>>, LeftOf(ks, n))
             b == Says(<<>>, RightOf(ks, n))
  <2>1. /\ NodeSays(<<>>)[x] = <<>> /\ ListOf(b, Spot)
        /\ Says(<<>>, ks) = Cat(a, Cat(NodeSays(<<>>)[x], b)) /\ Says(<<>>, l) = Cat(a, b)
    BY <1>2, Marks
  <2> HIDE DEF a, b
  <2>2. Cat(<<>>, b) = b
    BY <2>1, CatNothing
  <2>3. QED
    BY <2>1, <2>2
<1>4. ASSUME Spread(Says(<<Mark>>, ks))
      PROVE  Spread(Says(<<Mark>>, l))
  <2> DEFINE mk == <<Mark>>
             a == Says(mk, LeftOf(ks, n))
             b == Says(mk, RightOf(ks, n))
             y == NodeSays(mk)[x]
  <2>1. ListOf(mk, Spot) /\ Len(<<>>) = 0 /\ Len(mk) = 1 /\ mk[1] = Mark
    BY Marks
  <2> HIDE DEF mk
  <2>2. /\ y \in {mk, <<>>} /\ ListOf(y, Spot) /\ ListOf(a, Spot) /\ ListOf(b, Spot)
        /\ Says(mk, ks) = Cat(a, Cat(y, b)) /\ Says(mk, l) = Cat(a, b)
    BY <1>2, <2>1
  <2> HIDE DEF a, b, y
  <2>3. Len(y) <= 1 /\ \A p \in 1 .. Len(y) : y[p] = Mark
    <3>1. CASE y = mk
      <4>1. Len(y) = 1 /\ y[1] = Mark
        BY <2>1, <3>1
      <4>2. QED
        BY <4>1
    <3>2. CASE y = <<>>
      <4>1. Len(y) = 0
        BY <2>1, <3>2
      <4>2. QED
        BY <4>1
    <3>3. QED
      BY <2>2, <3>1, <3>2
  <2>4. Spread(Cat(a, Cat(y, b)))
    BY <1>4, <2>2 DEF mk
  <2>5. Spread(Cat(a, b))
    BY <2>2, <2>3, <2>4, SpreadWithout
  <2>6. QED
    BY <2>2, <2>5 DEF mk
<1>5. QED
  BY <1>3, <1>4 DEF SaysLess

(* replace_xxx_nodes: an accent says what its tag said, and what is lost   *)
(* with the last child of the root is no glyph.                            *)
LEMMA ElementsSay ==
  ASSUME NEW ks, ListOf(ks, NodesOf(CharItem)), NEW l, l = WithElements(ks)
  PROVE  ListOf(l, NodesOf(FreshItem)) /\ SaysLess(l, ks)
<1> DEFINE N == Len(ks)
           e == [n \in 1 .. N |-> IF ks[n].k = "tag" THEN Accent(<<>>) ELSE ks[n]]
<1>1. ListOf(ks, AnyNode) /\ N \in Nat
  BY AnyNodes, ItemsGrow, LenProperties DEF ListOf
<1>2. ASSUME NEW n \in 1 .. N
      PROVE  (IF ks[n].k = "tag" THEN Accent(<<>>) ELSE ks[n]) \in NodesOf(FreshItem)
  <2>1. Accent(<<>>) \in NodesOf(FreshItem)
    BY DEF NodesOf, NewAccent
  <2>2. ks[n] \in NodesOf(FreshItem)
    <3>1. ks[n] \in NodesOf(CharItem)
      BY ElementIs
    <3>2. QED
      BY <3>1, ItemsGrow, NodesGrow
  <2>3. QED
    BY <2>1, <2>2
<1>3. /\ ListOf(e, NodesOf(FreshItem)) /\ Len(e) = N
      /\ \A n \in 1 .. N : e[n] = IF ks[n].k = "tag" THEN Accent(<<>>) ELSE ks[n]
  <2>1. /\ e \in [1 .. N -> NodesOf(FreshItem)]
        /\ \A n \in 1 .. N : e[n] = IF ks[n].k = "tag" THEN Accent(<<>>) ELSE ks[n]
    BY <1>2
  <2> HIDE DEF e
  <2>2. QED
    BY <1>1, <2>1, ListFromFunction DEF ListOf
<1>4. l = IF ks # <<>> /\ ks[N].k \in {"tag", "xxx"} THEN Unlink(e, N) ELSE e
  BY DEF WithElements
<1> HIDE DEF e
<1>5. ListOf(e, AnyNode)
  BY <1>3, AnyNodes, ItemsGrow
<1>6. ASSUME NEW mk \in {<<>>, <<Mark>>}
      PROVE  Says(mk, e) = Says(mk, ks)
  <2> DEFINE f == NodeSays(mk)
  <2>1. ListOf(mk, Spot)
    BY TwoMarks
  <2>2. ASSUME NEW n \in 1 .. N
        PROVE  f[e[n]] = f[ks[n]]
    <3> DEFINE x == ks[n]
               y == e[n]
    <3>1. x \in AnyNode /\ y \in AnyNode /\ y = IF x.k = "tag" THEN Accent(<<>>) ELSE x
      BY <1>1, <1>3, <1>5, ElementIs
    <3> HIDE DEF x, y
    <3>2. x.k = "tag" => f[x] = mk
      BY <2>1, <3>1, NodesTell
    <3>3. x.k = "tag" => y.k = "accent"
      BY <3>1 DEF Accent
    <3>4. x.k = "tag" => f[y] = mk
      BY <2>1, <3>1, <3>3, NodesTell
    <3>5. f[y] = f[x]
      BY <3>1, <3>2, <3>4
    <3>6. QED
      BY <3>5 DEF x, y
  <2> HIDE DEF f
  <2>3. ReadOff(f, e) = ReadOff(f, ks)
    BY <1>1, <1>3, <1>5, <2>2, ReadAlike
  <2>4. QED
    BY <2>3 DEF Says, f
<1>7. CASE ks # <<>> /\ ks[N].k \in {"tag", "xxx"}
  <2>1. l = Unlink(e, N)
    BY <1>4, <1>7
  <2>2. N \in 1 .. Len(e) /\ N \in 1 .. N
    <3>1. N # 0
      BY <1>7, EmptySeq DEF ListOf
    <3>2. QED
      BY <1>1, <1>3, <3>1
  <2>3. e[N].k \in {"accent", "xxx"}
    <3>1. e[N] = IF ks[N].k = "tag" THEN Accent(<<>>) ELSE ks[N]
      BY <1>3, <2>2
    <3>2. Accent(<<>>).k = "accent"
      BY DEF Accent
    <3>3. QED
      BY <1>7, <3>1, <3>2
  <2>4. ListOf(l, NodesOf(FreshItem))
    BY <1>3, <2>1, <2>2, UnlinkedIs
  <2>5. SaysLess(l, e)
    BY <1>5, <2>1, <2>2, <2>3, OneOut
  <2>6. SaysLess(l, ks)
    BY <1>6, <2>5 DEF SaysLess
  <2>7. QED
    BY <2>4, <2>6
<1>8. CASE ~(ks # <<>> /\ ks[N].k \in {"tag", "xxx"})
  BY <1>3, <1>4, <1>6, <1>8, SameIsLess DEF SaysSame
<1>9. QED
  BY <1>7, <1>8

(* The passes of the accents: the node x in the place of those from the    *)
(* p-th to the q-th.                                                       *)
LEMMA OneForSome ==
  ASSUME NEW ks, ListOf(ks, NodesOf(FreshItem)), NEW p \in 1 .. Len(ks), NEW q \in p .. Len(ks),
         NEW x \in TextNode(FreshItem), NEW l, ListOf(l, NodesOf(FreshItem)), Spliced(l, ks, p, q, x),
         \A mk \in {<<>>, <<Mark>>} : ItemsSay(mk, x.items) = ReadOff(NodeSays(mk), SubSeq(ks, p, q))
  PROVE  SaysSame(l, ks)
<1>1. ListOf(ks, AnyNode) /\ ListOf(l, AnyNode)
  BY AnyNodes, ItemsGrow
<1>2. x \in AnyNode /\ x.k = "text"
  <2>1. x \in NodesOf(FreshItem) /\ x.k = "text"
    BY DEF NodesOf, TextNode
  <2>2. QED
    BY <2>1, ItemsGrow, NodesGrow DEF AnyNode
<1>3. ASSUME NEW mk \in {<<>>, <<Mark>>}
      PROVE  Says(mk, l) = Says(mk, ks)
  <2> DEFINE f == NodeSays(mk)
  <2>1. ListOf(mk, Spot)
    BY TwoMarks
  <2>2. Tells(f, AnyNode, Spot)
    BY <2>1, NodesTell
  <2>3. f[x] = ItemsSay(mk, x.items)
    BY <1>2, <2>1, NodesTell
  <2>4. f[x] = ReadOff(f, SubSeq(ks, p, q))
    BY <2>3
  <2> HIDE DEF f
  <2>5. ReadOff(f, l) = ReadOff(f, ks)
    BY <1>1, <1>2, <2>2, <2>4, SplicedSame
  <2>6. QED
    BY <2>5 DEF Says, f
<1>4. QED
  BY <1>3 DEF SaysSame

(* merge_accent_tags1. *)
LEMMA GatheredSays ==
  ASSUME NEW ks, ListOf(ks, NodesOf(FreshItem)), NEW n, Between(ks, n), NEW l, l = Gathered(ks, n)
  PROVE  ListOf(l, NodesOf(FreshItem)) /\ SaysSame(l, ks)
<1> DEFINE I == FreshItem
           y == ks[n]
           a == ks[n + 1]
           z == ks[n + 2]
           c == Cat(Cat(y.items, <<a>>), z.items)
           x == [y EXCEPT !.items = c]
<1>1. ListOf(ks, AnyNode) /\ I \subseteq AnyItem /\ ListOf(ks, NodesOf(I))
  BY AnyNodes, ItemsGrow
<1>2. IsText(ks, n) /\ IsAccent(ks, n + 1) /\ IsText(ks, n + 2)
  BY DEF Between
<1>3. /\ Len(ks) \in Nat /\ n \in 1 .. Len(ks) /\ n \in Nat /\ n + 1 \in 1 .. Len(ks) /\ n + 2 \in 1 .. Len(ks)
  BY <1>2, LenProperties DEF IsText, IsAccent, ListOf
<1>4. /\ y \in TextNode(I) /\ ListOf(y.items, I) /\ ListOf(y.items, AnyItem)
      /\ a = Accent(<<>>)
      /\ z \in TextNode(I) /\ ListOf(z.items, I) /\ ListOf(z.items, AnyItem)
  BY <1>1, <1>2, Marks, AtPlace
<1> HIDE DEF I, y, a, z
<1>5. ListOf(<<a>>, I) /\ ListOf(<<a>>, AnyItem)
  BY <1>4, NewAccentSays, Marks DEF I
<1>6. ListOf(Cat(y.items, <<a>>), I) /\ ListOf(Cat(y.items, <<a>>), AnyItem)
  BY <1>4, <1>5, CatIsList
<1>7. ListOf(c, I)
  BY <1>4, <1>6, CatIsList
<1>8. l = [Without(ks, n + 1, n + 2) EXCEPT ![n] = x]
  <2> DEFINE w == Without(ks, n + 1, n + 2)
  <2>1. l = [w EXCEPT ![n].items = @ \o <<ks[n + 1]>> \o ks[n + 2].items]
    BY DEF Gathered
  <2>2. w[n] = ks[n]
    <3> DEFINE r == n + 1
               q == n + 2
    <3>1. r \in 1 .. Len(ks) /\ q \in r .. Len(ks) /\ n \in 1 .. r - 1
      BY <1>3
    <3> HIDE DEF r, q
    <3>2. Lacks(Without(ks, r, q), ks, r, q)
      BY <1>1, <3>1, WithoutIs
    <3>3. QED
      BY <3>1, <3>2 DEF Lacks, r, q
  <2> HIDE DEF w
  <2>3. [w EXCEPT ![n].items = @ \o <<ks[n + 1]>> \o ks[n + 2].items]
          = [w EXCEPT ![n] = [w[n] EXCEPT !.items = w[n].items \o <<ks[n + 1]>> \o ks[n + 2].items]]
    OBVIOUS
  <2>4. QED
    BY <2>1, <2>2, <2>3 DEF x, c, y, a, z, Cat, w
<1>9. x \in TextNode(I) /\ x \in NodesOf(I) /\ x.k = "text" /\ x.items = c
  <2> HIDE DEF c
  <2>1. QED
    BY <1>4, <1>7, TextWith
<1> HIDE DEF x
<1>10. ListOf(l, NodesOf(I)) /\ Spliced(l, ks, n, n + 2, x)
  <2> DEFINE q == n + 2
  <2>1. q \in n + 1 .. Len(ks) /\ l = [Without(ks, n + 1, q) EXCEPT ![n] = x]
    BY <1>3, <1>8
  <2> HIDE DEF q
  <2>2. ListOf(l, NodesOf(I)) /\ Spliced(l, ks, n, q, x)
    BY <1>1, <1>3, <1>9, <2>1, SplicedAtFirst
  <2>3. QED
    BY <2>2 DEF q
<1>11. ASSUME NEW mk \in {<<>>, <<Mark>>}
       PROVE  ItemsSay(mk, x.items) = ReadOff(NodeSays(mk), SubSeq(ks, n, n + 2))
  <2> DEFINE f == NodeSays(mk)
             Y == ItemsSay(mk, y.items)
             Z == ItemsSay(mk, z.items)
  <2>1. ListOf(mk, Spot)
    BY TwoMarks
  <2>2. Tells(f, AnyNode, Spot)
    BY <2>1, NodesTell
  <2>3. f[y] = Y /\ f[a] = mk /\ f[z] = Z
    <3>1. y = ks[n] /\ a = ks[n + 1] /\ z = ks[n + 2]
      BY DEF y, a, z
    <3>2. ListOf(ks, NodesOf(I)) /\ I \subseteq AnyItem
      BY <1>1
    <3>3. f[y] = Y
      BY ONLY <1>1, <1>2, <2>1, <3>1, TextSays
    <3>4. f[a] = mk
      BY ONLY <1>2, <2>1, <3>1, <3>2, AtPlace
    <3>5. f[z] = Z
      BY ONLY <1>1, <1>2, <2>1, <3>1, TextSays
    <3>6. QED
      BY <3>3, <3>4, <3>5
  <2>4. ItemsSay(mk, c) = Cat(Cat(Y, mk), Z)
    <3>1. ItemsSay(mk, <<a>>) = mk
      BY <1>4, <2>1, NewAccentSays
    <3>2. ItemsSay(mk, Cat(y.items, <<a>>)) = Cat(Y, mk)
      BY <1>4, <1>5, <2>1, <3>1, ItemsSayJoined
    <3> DEFINE u == Cat(y.items, <<a>>)
    <3>3. ListOf(u, AnyItem)
      BY <1>6
    <3> HIDE DEF u
    <3>4. ItemsSay(mk, Cat(u, z.items)) = Cat(ItemsSay(mk, u), Z)
      BY <1>4, <2>1, <3>3, ItemsSayJoined
    <3>5. QED
      BY <3>2, <3>4 DEF u
  <2>5. ListOf(Y, Spot) /\ ListOf(Z, Spot)
    BY <1>4, <2>1, ItemsTell, ReadIsList DEF ItemsSay
  <2> DEFINE m == n + 1
             q == n + 2
  <2>6. /\ n \in 1 .. Len(ks) /\ q \in n .. Len(ks) /\ m \in 1 .. Len(ks) /\ q \in m + 1 .. Len(ks)
        /\ m + 1 .. q - 1 = {} /\ n + 1 = m /\ a = ks[m] /\ z = ks[q] /\ y = ks[n]
    BY <1>3 DEF a, z, y
  <2> HIDE DEF f, Y, Z, q
  <2>7. ReadOff(f, SubSeq(ks, n, q)) = Cat(f[y], ReadOff(f, SubSeq(ks, m, q)))
    BY <1>1, <2>2, <2>6, ReadFirst
  <2> HIDE DEF m
  <2>8. ReadOff(f, SubSeq(ks, m, q)) = Cat(f[a], f[z])
    <3>1. \A i \in m + 1 .. q - 1 : f[ks[i]] = <<>>
      BY <2>6
    <3>2. QED
      BY <1>1, <2>2, <2>6, <3>1, ReadTwo
  <2>9. Cat(Y, Cat(mk, Z)) = Cat(Cat(Y, mk), Z)
    BY <2>1, <2>5, CatRegroups
  <2>10. ItemsSay(mk, x.items) = ReadOff(f, SubSeq(ks, n, q))
    BY <1>9, <2>3, <2>4, <2>7, <2>8, <2>9
  <2>11. QED
    BY <2>10 DEF f, q
<1>12. SaysSame(l, ks)
  <2> DEFINE q == n + 2
  <2>1. q \in n .. Len(ks)
    BY <1>3
  <2>2. /\ Spliced(l, ks, n, q, x)
        /\ \A mk \in {<<>>, <<Mark>>} : ItemsSay(mk, x.items) = ReadOff(NodeSays(mk), SubSeq(ks, n, q))
    BY <1>10, <1>11
  <2> HIDE DEF q
  <2>3. QED
    BY <1>1, <1>3, <1>9, <1>10, <2>1, <2>2, OneForSome DEF I
<1>13. QED
  BY <1>10, <1>12 DEF I

(* merge_accent_tags2. *)
LEMMA InFrontSays ==
  ASSUME NEW ks, ListOf(ks, NodesOf(FreshItem)), NEW n, InFront(ks, n), NEW l, l = PutInFront(ks, n)
  PROVE  ListOf(l, NodesOf(FreshItem)) /\ SaysSame(l, ks)
<1> DEFINE I == FreshItem
           a == ks[n]
           z == ks[n + 1]
           c == Cat(<<a>>, z.items)
           x == [z EXCEPT !.items = c]
<1>1. ListOf(ks, AnyNode) /\ I \subseteq AnyItem /\ ListOf(ks, NodesOf(I))
  BY AnyNodes, ItemsGrow
<1>2. IsAccent(ks, n) /\ IsText(ks, n + 1)
  BY DEF InFront
<1>3. Len(ks) \in Nat /\ n \in 1 .. Len(ks) /\ n \in Nat /\ n + 1 \in 1 .. Len(ks) /\ n \in 1 .. Len(ks) - 1
  <2>1. Len(ks) \in Nat
    BY LenProperties DEF ListOf
  <2>2. n \in 1 .. Len(ks) /\ n + 1 \in 1 .. Len(ks)
    BY <1>2 DEF IsText, IsAccent
  <2>3. QED
    BY <2>1, <2>2
<1>4. a = Accent(<<>>)
  BY <1>1, <1>2, Marks, AtPlace
<1>5. z \in TextNode(I) /\ ListOf(z.items, I) /\ ListOf(z.items, AnyItem)
  BY <1>1, <1>2, Marks, AtPlace
<1> HIDE DEF I, a, z
<1>6. ListOf(<<a>>, I) /\ ListOf(<<a>>, AnyItem)
  BY <1>4, NewAccentSays, Marks DEF I
<1>7. ListOf(c, I)
  BY <1>5, <1>6, CatIsList
<1>8. l = [Unlink(ks, n) EXCEPT ![n] = x]
  <2> DEFINE w == Unlink(ks, n)
  <2>1. l = [w EXCEPT ![n].items = <<ks[n]>> \o @]
    BY DEF PutInFront
  <2>2. w[n] = ks[n + 1]
    <3>1. n \in n .. Len(ks) - 1
      BY <1>3
    <3>2. \A i \in n .. Len(ks) - 1 : w[i] = ks[i + 1]
      BY <1>1, <1>3, UnlinkedIs
    <3> HIDE DEF w
    <3>3. QED
      BY <3>1, <3>2
  <2> HIDE DEF w
  <2>3. [w EXCEPT ![n].items = <<ks[n]>> \o @] = [w EXCEPT ![n] = [w[n] EXCEPT !.items = <<ks[n]>> \o w[n].items]]
    OBVIOUS
  <2>4. QED
    BY <2>1, <2>2, <2>3 DEF x, c, a, z, Cat, w
<1>9. x \in TextNode(I) /\ x \in NodesOf(I) /\ x.items = c
  <2> HIDE DEF c
  <2>1. QED
    BY <1>5, <1>7, TextWith
<1> HIDE DEF x
<1>10. ListOf(l, NodesOf(I)) /\ Spliced(l, ks, n, n + 1, x)
  BY <1>1, <1>3, <1>8, <1>9, SplicedAtLast
<1>11. ASSUME NEW mk \in {<<>>, <<Mark>>}
       PROVE  ItemsSay(mk, x.items) = ReadOff(NodeSays(mk), SubSeq(ks, n, n + 1))
  <2> DEFINE f == NodeSays(mk)
             Z == ItemsSay(mk, z.items)
  <2>1. ListOf(mk, Spot)
    BY TwoMarks
  <2>2. Tells(f, AnyNode, Spot)
    BY <2>1, NodesTell
  <2> DEFINE m == n + 1
  <2>3. f[a] = mk /\ f[z] = Z
    <3>1. a = ks[n] /\ z = ks[m] /\ IsAccent(ks, n) /\ IsText(ks, m)
      BY <1>2 DEF a, z
    <3>2. ListOf(ks, NodesOf(I)) /\ I \subseteq AnyItem
      BY <1>1
    <3> HIDE DEF m
    <3>3. f[a] = mk
      BY ONLY <2>1, <3>1, <3>2, AtPlace
    <3>4. f[z] = Z
      BY ONLY <1>1, <2>1, <3>1, TextSays
    <3>5. QED
      BY <3>3, <3>4
  <2>5. ItemsSay(mk, <<a>>) = mk
    BY <1>4, <2>1, NewAccentSays
  <2>6. ItemsSay(mk, c) = Cat(mk, Z)
    BY <1>5, <1>6, <2>1, <2>5, ItemsSayJoined
  <2> DEFINE q == n + 1
  <2>7. n \in 1 .. Len(ks) /\ q \in n + 1 .. Len(ks) /\ n + 1 .. q - 1 = {} /\ a = ks[n] /\ z = ks[q]
    BY <1>3 DEF a, z
  <2> HIDE DEF f, Z, q
  <2>8. ReadOff(f, SubSeq(ks, n, q)) = Cat(f[a], f[z])
    <3>1. \A i \in n + 1 .. q - 1 : f[ks[i]] = <<>>
      BY <2>7
    <3>2. QED
      BY <1>1, <2>2, <2>7, <3>1, ReadTwo
  <2>9. ItemsSay(mk, x.items) = ReadOff(f, SubSeq(ks, n, q))
    BY <1>9, <2>3, <2>6, <2>8
  <2>10. QED
    BY <2>9 DEF f, q
<1>12. SaysSame(l, ks)
  <2> DEFINE q == n + 1
  <2>1. q \in n .. Len(ks)
    BY <1>3
  <2>2. /\ Spliced(l, ks, n, q, x)
        /\ \A mk \in {<<>>, <<Mark>>} : ItemsSay(mk, x.items) = ReadOff(NodeSays(mk), SubSeq(ks, n, q))
    BY <1>10, <1>11
  <2> HIDE DEF q
  <2>3. QED
    BY <1>1, <1>3, <1>9, <1>10, <2>1, <2>2, OneForSome DEF I
<1>13. QED
  BY <1>10, <1>12 DEF I

(* What a character says; a space says nothing. *)
LEMMA CharSays ==
  ASSUME NEW mk, ListOf(mk, Spot), NEW x \in AnyItem, x.k # "accent"
  PROVE  /\ ItemSays(mk)[x] = PlacesOf(x.gs) /\ ItemsSay(mk, <<x>>) = PlacesOf(x.gs)
         /\ ListOf(PlacesOf(x.gs), Spot)
<1>1. Tells(ItemSays(mk), AnyItem, Spot) /\ ItemSays(mk)[x] = PlacesOf(x.gs)
  BY ItemsTell
<1>2. ItemsSay(mk, <<x>>) = ItemSays(mk)[x]
  BY <1>1, ReadOne DEF ItemsSay
<1>3. ListOf(PlacesOf(x.gs), Spot)
  BY ItemIs, PlacesAre
<1>4. QED
  BY <1>1, <1>2, <1>3

LEMMA SpaceSays ==
  ASSUME NEW mk, ListOf(mk, Spot)
  PROVE  Space \in CharItem /\ Space \in AnyItem /\ ItemSays(mk)[Space] = <<>>
<1>1. Space \in CharItem /\ Space.k # "accent" /\ Space.gs = <<>>
  BY DEF Space, Char, CharItem
<1>2. Space \in AnyItem
  BY <1>1, ItemsGrow
<1>3. ItemSays(mk)[Space] = PlacesOf(<<>>)
  BY <1>1, <1>2, CharSays
<1>4. QED
  BY <1>1, <1>2, <1>3, NoPlaces

LEMMA TwoGlyphs ==
  ASSUME NEW a \in Seq(Glyph), NEW b \in Seq(Glyph), Len(a) = 1, Len(b) = 1
  PROVE  a \o b \in Seq(Glyph) /\ Len(a \o b) = 2
<1> DEFINE G == Glyph
<1>1. a \in Seq(G) /\ b \in Seq(G)
  OBVIOUS
<1> HIDE DEF G
<1>2. a \o b \in Seq(G)
  BY <1>1
<1>3. Len(a \o b) = Len(a) + Len(b)
  BY <1>1, ConcatProperties
<1>4. QED
  BY <1>2, <1>3 DEF G

(* A character of at most two glyphs. *)
LEMMA CharOfGlyphs ==
  ASSUME NEW gs \in Seq(Glyph), Len(gs) <= 2
  PROVE  Char(gs) \in CharItem /\ Char(gs).k # "accent" /\ Char(gs).gs = gs
<1>1. gs \in {g \in Seq(Glyph) : Len(g) <= 2}
  OBVIOUS
<1> DEFINE G == {g \in Seq(Glyph) : Len(g) <= 2}
<1> HIDE DEF G
<1>2. [k |-> "char", gs |-> gs] \in [k : {"char", "stray"}, gs : G]
  BY <1>1 DEF G
<1>3. CharItem = [k : {"char", "stray"}, gs : G]
  BY DEF CharItem, G
<1>4. Char(gs) \in CharItem
  BY <1>2, <1>3 DEF Char
<1>5. QED
  BY <1>4 DEF Char

(* utf8_trim leaves one character of a text: all it says. *)
LEMMA TrimmedIs ==
  ASSUME NEW items, ListOf(items, CharItem), Len(Trim(items)) = 1
  PROVE  \E p \in 1 .. Len(items) : /\ Trim(items) = <<items[p]>>
                                    /\ \A q \in 1 .. Len(items) : q # p => items[q] = Space
<1> DEFINE N == Len(items)
           kept == {p \in 1 .. N : items[p] # Space}
           Low(p) == \A q \in kept : p <= q
           High(p) == \A q \in kept : q <= p
           a == CHOOSE p \in kept : Low(p)
           b == CHOOSE p \in kept : High(p)
<1>1. N \in Nat /\ items \in Seq(CharItem)
  BY LenProperties DEF ListOf
<1>2. Trim(items) = IF kept = {} THEN <<>> ELSE SubSeq(items, a, b)
  BY DEF Trim
<1>3. kept # {}
  <2>1. Len(<<>>) = 0
    OBVIOUS
  <2> HIDE DEF kept, a, b
  <2>2. QED
    BY <1>2, <2>1
<1>4. a \in kept /\ Low(a)
  <2>1. kept \in SUBSET Nat
    BY <1>1
  <2> HIDE DEF kept
  <2>2. \E p \in kept : Low(p)
    BY <1>3, <2>1, LeastNatural
  <2>3. QED
    BY <2>2
<1>5. b \in kept /\ High(b)
  <2> DEFINE T == {n \in 0 .. N : N - n \in kept}
  <2>1. T \in SUBSET Nat
    BY <1>1
  <2>2. PICK p : p \in kept
    BY <1>3
  <2>3. p \in 1 .. N
    BY <2>2
  <2>4. N - (N - p) = p /\ N - p \in 0 .. N
    BY <1>1, <2>3
  <2>5. N - p \in T
    BY <2>2, <2>4
  <2>6. \E n \in T : \A m \in T : n <= m
    <3> HIDE DEF T
    <3>1. QED
      BY <2>1, <2>5, LeastNatural
  <2>7. PICK n \in T : \A m \in T : n <= m
    BY <2>6
  <2>8. N - n \in kept
    BY <2>7
  <2>9. ASSUME NEW q \in kept
        PROVE  q <= N - n
    <3>1. q \in 1 .. N
      OBVIOUS
    <3>2. N - (N - q) = q /\ N - q \in 0 .. N
      BY <1>1, <3>1
    <3>3. N - q \in T
      BY <3>2
    <3>4. n <= N - q
      <4> HIDE DEF T, N
      <4>1. QED
        BY <2>7, <3>3
    <3>5. q \in Int /\ N \in Int /\ n \in Int
      <4>1. n \in 0 .. N
        OBVIOUS
      <4>2. QED
        BY <1>1, <3>1, <4>1
    <3> HIDE DEF N
    <3>6. QED
      BY ONLY <3>4, <3>5
  <2>10. \E x \in kept : High(x)
    BY <2>8, <2>9
  <2> HIDE DEF kept, High
  <2>11. QED
    BY <2>10
<1> HIDE DEF a, b
<1>6. a \in 1 .. N /\ b \in 1 .. N /\ a <= b
  BY <1>4, <1>5
<1>7. Trim(items) = SubSeq(items, a, b)
  BY <1>2, <1>3
<1> HIDE DEF N
<1>8. SubSeq(items, a, b) \in Seq(CharItem) /\ Len(SubSeq(items, a, b)) = b - a + 1 /\ SubSeq(items, a, b)[1] = items[a]
  BY <1>1, <1>6 DEF N
<1>9. b = a
  BY <1>6, <1>7, <1>8
<1>10. Trim(items) = <<items[a]>>
  <2> DEFINE s == SubSeq(items, a, b)
             x == items[a]
  <2>1. s \in Seq(CharItem) /\ Len(s) = 1 /\ s[1] = x
    BY <1>7, <1>8
  <2> HIDE DEF s, x
  <2>2. s = <<x>>
    BY <2>1
  <2>3. QED
    BY <1>7, <2>2 DEF s, x
<1>11. ASSUME NEW q \in 1 .. N, q # a
       PROVE  items[q] = Space
  <2>1. CASE q \in kept
    <3>1. a <= q /\ q <= b
      BY <1>4, <1>5, <2>1
    <3>2. QED
      BY <1>6, <1>9, <1>11, <3>1
  <2>2. CASE q \notin kept
    BY <2>2
  <2>3. QED
    BY <2>1, <2>2
<1>12. QED
  BY <1>6, <1>10, <1>11 DEF N

LEMMA TrimmedSays ==
  ASSUME NEW items, ListOf(items, CharItem), Len(Trim(items)) = 1
  PROVE  \E x \in CharItem : /\ Trim(items) = <<x>>
                             /\ \A mk \in {<<>>, <<Mark>>} : ItemsSay(mk, items) = PlacesOf(x.gs)
<1>1. PICK p \in 1 .. Len(items) : /\ Trim(items) = <<items[p]>>
                                   /\ \A q \in 1 .. Len(items) : q # p => items[q] = Space
  BY TrimmedIs
<1> DEFINE x == items[p]
           N == Len(items)
<1>2. x \in CharItem /\ N \in Nat /\ p \in Nat
  BY ElementIs, LenProperties DEF ListOf
<1>3. x \in AnyItem /\ x.k # "accent" /\ ListOf(items, AnyItem)
  <2>1. x.k # "accent"
    BY <1>2 DEF CharItem
  <2>2. QED
    BY <1>2, <2>1, ItemsGrow, ListGrows
<1> HIDE DEF x
<1>4. ASSUME NEW mk \in {<<>>, <<Mark>>}
      PROVE  ItemsSay(mk, items) = PlacesOf(x.gs)
  <2> DEFINE f == ItemSays(mk)
             y == f[x]
             u == p - 1
             v == p + 1
  <2>1. ListOf(mk, Spot)
    BY TwoMarks
  <2>2. Tells(f, AnyItem, Spot) /\ f[Space] = <<>>
    BY <2>1, ItemsTell, SpaceSays
  <2>3. y = PlacesOf(x.gs) /\ ListOf(y, Spot)
    BY <1>3, <2>1, CharSays
  <2> HIDE DEF f, y
  <2>4. ReadOff(f, items) = Cat(ReadOff(f, LeftOf(items, p)), Cat(y, ReadOff(f, RightOf(items, p))))
    BY <1>3, <2>2, ReadParts DEF x, y
  <2>5. /\ \A i \in 1 .. u : f[items[i]] = <<>>
        /\ \A i \in v .. N : f[items[i]] = <<>>
        /\ u \in Int /\ v \in Int /\ 1 <= v /\ u <= N /\ N \in Int /\ 1 \in Int /\ 1 <= 1 /\ N <= N
    <3>1. \A i \in 1 .. u : i \in 1 .. N /\ i # p
      BY <1>2
    <3>2. \A i \in v .. N : i \in 1 .. N /\ i # p
      BY <1>2
    <3>3. u \in Int /\ v \in Int /\ 1 <= v /\ u <= N /\ N \in Int /\ 1 \in Int /\ 1 <= 1 /\ N <= N
      BY <1>2
    <3>4. QED
      BY <1>1, <2>2, <3>1, <3>2, <3>3
  <2> HIDE DEF u, v
  <2>6. ReadOff(f, SubSeq(items, 1, u)) = <<>>
    BY <1>3, <2>2, <2>5, ReadSilent DEF N
  <2>7. ReadOff(f, SubSeq(items, v, N)) = <<>>
    BY <1>3, <2>2, <2>5, ReadSilent DEF N
  <2>8. ReadOff(f, items) = Cat(<<>>, Cat(y, <<>>))
    BY <2>4, <2>6, <2>7 DEF LeftOf, RightOf, u, v, N
  <2>9. Cat(y, <<>>) = y /\ Cat(<<>>, y) = y
    BY <2>3, CatNothing
  <2>10. ReadOff(f, items) = y
    BY <2>8, <2>9
  <2>11. QED
    BY <2>3, <2>10 DEF ItemsSay, f
<1>5. QED
  BY <1>1, <1>2, <1>4 DEF x

(* remove_xxx_node_before. *)
LEMMA TagBeforeOut ==
  ASSUME NEW ks, ListOf(ks, NodesOf(CharItem)), NEW n \in Int, n <= Len(ks) + 1, NEW l, l = WithoutTagBefore(ks, n)
  PROVE  /\ ListOf(l, NodesOf(CharItem)) /\ SaysLess(l, ks)
         /\ Len(l) \in Len(ks) - 1 .. Len(ks)
<1>1. ListOf(ks, AnyNode) /\ Len(ks) \in Nat
  BY AnyNodes, ItemsGrow, LenProperties DEF ListOf
<1>2. CASE TagsBefore(ks, n) = {}
  <2>1. l = ks
    BY <1>2 DEF WithoutTagBefore
  <2>2. QED
    BY <1>1, <2>1 DEF SaysLess
<1>3. CASE TagsBefore(ks, n) # {}
  <2> DEFINE m == CHOOSE m \in TagsBefore(ks, n) : TRUE
  <2>1. m \in TagsBefore(ks, n)
    BY <1>3
  <2>2. l = Unlink(ks, m)
    BY <1>3 DEF WithoutTagBefore
  <2> HIDE DEF m
  <2>3. m \in 1 .. Len(ks) /\ ks[m].k \in {"tag", "accent", "xxx"}
    BY <1>1, <2>1 DEF TagsBefore
  <2>4. ListOf(l, NodesOf(CharItem)) /\ Len(l) = Len(ks) - 1
    BY <2>2, <2>3, UnlinkedIs
  <2>5. SaysLess(l, ks)
    BY <1>1, <2>2, <2>3, OneOut
  <2>6. QED
    BY <1>1, <2>4, <2>5
<1>4. QED
  BY <1>2, <1>3

(* make_accent: of the two texts one is freed and the other is given the   *)
(* letter, which says what both have said.                                 *)
LEMMA LargeAccentSays ==
  ASSUME NEW ks, ListOf(ks, NodesOf(CharItem)), NEW n \in 1 .. Len(ks), NEW m \in n + 1 .. Len(ks),
         IsText(ks, n), IsText(ks, m), \A i \in n + 1 .. m - 1 : IsControl(ks, i),
         NEW l \in MakeAccent(ks, n, m)
  PROVE  /\ ListOf(l, NodesOf(CharItem)) /\ SaysLess(l, ks)
         /\ Len(l) \in Len(ks) - 2 .. Len(ks)
<1> DEFINE I == CharItem
           y == ks[n]
           z == ks[m]
           d == Composed(ks, n, m)
<1>1. ListOf(ks, AnyNode) /\ I \subseteq AnyItem /\ Len(ks) \in Nat /\ m \in Int /\ m \in 1 .. Len(ks)
  BY AnyNodes, ItemsGrow, LenProperties DEF ListOf
<1>2. /\ y \in TextNode(I) /\ ListOf(y.items, I) /\ z \in TextNode(I) /\ ListOf(z.items, I)
      /\ y \in AnyNode /\ z \in AnyNode
  <2>1. y \in TextNode(I) /\ ListOf(y.items, I) /\ z \in TextNode(I) /\ ListOf(z.items, I)
    BY <1>1, Marks, AtPlace
  <2>2. y \in AnyNode /\ z \in AnyNode
    BY <1>1, ElementIs
  <2>3. QED
    BY <2>1, <2>2
<1>3. ASSUME AccentBefore(ks, n, m) \/ AccentAfter(ks, n, m)
      PROVE  ListOf(d, NodesOf(I)) /\ SaysSame(d, ks) /\ Len(d) = Len(ks) - 1
  <2> DEFINE p == Pair(ks, n, m)
  <2>1. Len(Trim(y.items)) = 1 /\ Len(Trim(z.items)) = 1
    BY <1>3 DEF AccentBefore, AccentAfter, Single
  <2> HIDE DEF I
  <2>2. PICK a \in I : /\ Trim(y.items) = <<a>>
                       /\ \A mk \in {<<>>, <<Mark>>} : ItemsSay(mk, y.items) = PlacesOf(a.gs)
    <3> HIDE DEF y
    <3>1. QED
      BY <1>2, <2>1, TrimmedSays DEF I
  <2>3. PICK b \in I : /\ Trim(z.items) = <<b>>
                       /\ \A mk \in {<<>>, <<Mark>>} : ItemsSay(mk, z.items) = PlacesOf(b.gs)
    <3> HIDE DEF z
    <3>1. QED
      BY <1>2, <2>1, TrimmedSays DEF I
  <2>4. p[1] = a /\ p[2] = b
    <3>1. p = <<a>> \o <<b>>
      BY <2>2, <2>3 DEF Pair
    <3> HIDE DEF p
    <3>2. QED
      BY <3>1
  <2>5. Len(a.gs) = 1 /\ Len(b.gs) = 1
    <3>1. Known(p[2], p[1]) \/ Known(p[1], p[2])
      BY <1>3 DEF AccentBefore, AccentAfter
    <3> HIDE DEF p
    <3>2. QED
      BY <2>4, <3>1 DEF Known
  <2> DEFINE gs == a.gs \o b.gs
             c == Char(gs)
             x == [z EXCEPT !.items = <<c>>]
  <2>6. a.gs \in Seq(Glyph) /\ b.gs \in Seq(Glyph)
    BY DEF I, CharItem
  <2>7. gs \in Seq(Glyph) /\ Len(gs) = 2
    <3> DEFINE A == a.gs
               B == b.gs
    <3>1. A \in Seq(Glyph) /\ B \in Seq(Glyph) /\ Len(A) = 1 /\ Len(B) = 1
      BY <2>5, <2>6
    <3> HIDE DEF A, B
    <3>2. A \o B \in Seq(Glyph) /\ Len(A \o B) = 2
      BY ONLY <3>1, TwoGlyphs
    <3>3. QED
      BY <3>2 DEF A, B
  <2>8. c \in I /\ c.k # "accent" /\ c.gs = gs
    <3> HIDE DEF gs
    <3>1. Len(gs) <= 2 /\ gs \in Seq(Glyph)
      BY <2>7
    <3>2. QED
      BY <3>1, CharOfGlyphs DEF I
  <2>9. c \in AnyItem /\ ListOf(<<c>>, I)
    <3> HIDE DEF c
    <3>1. QED
      BY <1>1, <2>8 DEF ListOf
  <2>10. d = Unlink([ks EXCEPT ![m] = x], n)
    <3>1. d = Unlink([ks EXCEPT ![m].items = <<Char(p[1].gs \o p[2].gs)>>], n)
      BY DEF Composed
    <3>2. [ks EXCEPT ![m].items = <<Char(p[1].gs \o p[2].gs)>>] = [ks EXCEPT ![m].items = <<c>>]
      BY <2>4
    <3> HIDE DEF c, d
    <3>3. [ks EXCEPT ![m].items = <<c>>] = [ks EXCEPT ![m] = x]
      OBVIOUS
    <3>4. QED
      BY <3>1, <3>2, <3>3
  <2> HIDE DEF c, d, z, y
  <2>11. x \in NodesOf(I) /\ x.k = "text" /\ x.items = <<c>>
    BY <1>2, <2>9, TextWith
  <2>12. x \in AnyNode
    BY <1>1, <2>11, NodesGrow DEF AnyNode
  <2> HIDE DEF x
  <2>13. ListOf(d, NodesOf(I)) /\ Len(d) = Len(ks) - 1
    <3> DEFINE e == [ks EXCEPT ![m] = x]
    <3>1. ListOf(ks, NodesOf(I))
      BY DEF I
    <3>2. e = [ks EXCEPT ![m] = x]
      OBVIOUS
    <3>3. d = Unlink(e, n)
      BY <2>10
    <3> HIDE DEF e
    <3>4. ListOf(e, NodesOf(I)) /\ Changed(e, ks, m, x)
      BY <1>1, <2>11, <3>1, <3>2, ChangedIs
    <3>5. Len(e) = Len(ks)
      BY <3>4 DEF Changed
    <3>6. n \in 1 .. Len(e)
      BY <3>5
    <3>7. ListOf(Unlink(e, n), NodesOf(I)) /\ Len(Unlink(e, n)) = Len(e) - 1
      BY <3>4, <3>6, UnlinkedIs
    <3>8. QED
      BY <3>3, <3>5, <3>7
  <2>14. ASSUME NEW mk \in {<<>>, <<Mark>>}
         PROVE  Says(mk, d) = Says(mk, ks)
    <3> DEFINE f == NodeSays(mk)
    <3>0. ListOf(ks, AnyNode)
      BY <1>1
    <3>1. ListOf(mk, Spot)
      BY TwoMarks
    <3>2. Tells(f, AnyNode, Spot)
      BY <3>1, NodesTell
    <3>3. y = ks[n] /\ z = ks[m]
      BY DEF y, z
    <3>4. f[y] = PlacesOf(a.gs)
      <4>1. f[y] = ItemsSay(mk, y.items)
        BY ONLY <3>0, <3>1, <3>3, IsText(ks, n), TextSays DEF f
      <4>2. QED
        BY <2>2, <4>1
    <3>5. f[z] = PlacesOf(b.gs)
      <4>1. f[z] = ItemsSay(mk, z.items)
        BY ONLY <3>0, <3>1, <3>3, IsText(ks, m), TextSays DEF f
      <4>2. QED
        BY <2>3, <4>1
    <3>6. f[x] = ItemsSay(mk, <<c>>)
      BY <2>11, <2>12, <3>1, NodesTell
    <3>7. ItemsSay(mk, <<c>>) = PlacesOf(gs)
      BY <2>8, <2>9, <3>1, CharSays
    <3>8. PlacesOf(gs) = Cat(PlacesOf(a.gs), PlacesOf(b.gs))
      <4> DEFINE A == a.gs
                 B == b.gs
      <4>1. A \in Seq(Glyph) /\ B \in Seq(Glyph)
        BY <2>6
      <4> HIDE DEF A, B
      <4>2. PlacesOf(A \o B) = Cat(PlacesOf(A), PlacesOf(B))
        BY <4>1, PlacesJoined
      <4>3. QED
        BY <4>2 DEF A, B
    <3>9. \A i \in n + 1 .. m - 1 : f[ks[i]] = <<>>
      <4>1. ListOf(ks, NodesOf(I))
        BY DEF I
      <4>2. QED
        BY <1>1, <3>1, <4>1, AtPlace
    <3> HIDE DEF f, gs
    <3>10. f[x] = Cat(f[y], f[z])
      BY <3>4, <3>5, <3>6, <3>7, <3>8
    <3>11. ReadOff(f, d) = ReadOff(f, ks)
      BY <1>1, <2>10, <2>12, <3>2, <3>3, <3>9, <3>10, ReadFreed
    <3>12. QED
      BY <3>11 DEF Says, f
  <2>15. QED
    BY <2>13, <2>14 DEF SaysSame
<1> HIDE DEF d
<1>4. CASE (AccentBefore(ks, n, m) \/ AccentAfter(ks, n, m)) /\ l = d
  BY <1>1, <1>3, <1>4, SameIsLess DEF I
<1>5. CASE (AccentBefore(ks, n, m) \/ AccentAfter(ks, n, m)) /\ l = WithoutTagBefore(d, m - 1)
  <2>1. ListOf(d, NodesOf(CharItem)) /\ SaysSame(d, ks) /\ Len(d) = Len(ks) - 1
    BY <1>3, <1>5
  <2>2. m - 1 \in Int /\ m - 1 <= Len(d) + 1
    BY <1>1, <2>1
  <2>3. ListOf(l, NodesOf(CharItem)) /\ SaysLess(l, d) /\ Len(l) \in Len(d) - 1 .. Len(d)
    <3> DEFINE k == m - 1
    <3>1. k \in Int /\ k <= Len(d) + 1 /\ l = WithoutTagBefore(d, k)
      BY <1>5, <2>2
    <3> HIDE DEF k
    <3>2. QED
      BY <2>1, <3>1, TagBeforeOut
  <2>4. SaysLess(l, ks)
    BY <2>1, <2>3 DEF SaysSame, SaysLess
  <2>5. QED
    BY <1>1, <2>1, <2>3, <2>4
<1>6. CASE l = ks
  BY <1>1, <1>6 DEF SaysLess
<1>7. \/ (AccentBefore(ks, n, m) \/ AccentAfter(ks, n, m)) /\ l = d
      \/ (AccentBefore(ks, n, m) \/ AccentAfter(ks, n, m)) /\ l = WithoutTagBefore(d, m - 1)
      \/ l = ks
  BY DEF MakeAccent, d
<1>8. QED
  BY <1>4, <1>5, <1>6, <1>7

(* What every list of children after remove_page_nodes says, and, until    *)
(* transform_accent_tags takes letters, between which accents two are.     *)
Early == {"bop", "large", "control", "xxx", "tags1", "tags2"}
Late == {"accent", "merge", "done"}

(* The letters of the document, each once, and in their order but for      *)
(* stacked accents.                                                        *)
Reads(s) == Len(s) = Cardinality(Letters) /\ Elements(s) = Letters /\ (~Stacked => Ordered(s))
Faithful(ks) == Reads(Says(<<>>, ks)) /\ (~Stacked => Spread(Says(<<Mark>>, ks)))

(* transform_large_accent_pattern has met a text and, since, controls.     *)
PatternFound(ks, c, f) ==
  /\ f.state \in 0 .. 3
  /\ f.state >= 2 => /\ f.text1 \in 1 .. c - 1 /\ IsText(ks, f.text1)
                     /\ \A i \in f.text1 + 1 .. c - 1 : IsControl(ks, i)

(* What transform_accent_tags has still to look at.                        *)
Well(items) == ListOf(items, FreshItem) /\ (~Stacked => Spread(ItemsSay(<<Mark>>, items)))
Untried(ks, c, w, n) == IF n = c THEN SubSeq(ks[n].items, w[2], Len(ks[n].items)) ELSE ks[n].items
WalkWell(ks, c, w) ==
  /\ c \in 0 .. Len(ks) /\ w[1] = c /\ w[2] \in Nat \ {0}
  /\ \A n \in 1 .. c : IsText(ks, n) => Well(Untried(ks, c, w, n))

(* What holds of the list of children while a pass runs, until             *)
(* transform_accent_tags has gone on from a freed node.                    *)
GlyphsAt(pass, ks, c, f, w) ==
  /\ ListOf(ks, NodesOf(ItemsAt(pass)))
  /\ IF pass \in Early THEN Faithful(ks) ELSE Reads(Says(<<>>, ks))
  /\ pass = "large" => PatternFound(ks, c, f)
  /\ pass = "accent" => WalkWell(ks, c, w)

(* The inductive invariant of GlyphsStay: before remove_page_nodes the     *)
(* pages hold all nodes, and after it the list of children says all        *)
(* letters.                                                                *)
GlyphsInv ==
  /\ SrcIs
  /\ pc = "page" => FlattenSeq(kids) = All
  /\ pc \in {"page", "bop"} => fsm.state = 0
  /\ pc # "accent" => cursor \in Nat \ {0}
  /\ stale => pc \in Late
  /\ (pc # "page" /\ ~stale) => GlyphsAt(pc, kids, cursor, fsm, walk)

(* What a step has to leave. *)
GlyphsStep ==
  /\ src' = src /\ pc' # "page"
  /\ pc' = "bop" => fsm'.state = 0
  /\ pc' # "accent" => cursor' \in Nat \ {0}
  /\ stale' => pc' \in Late
  /\ ~stale' => GlyphsAt(pc', kids', cursor', fsm', walk')

(* The letters are those of src, which no step changes; so a step has to   *)
(* leave only this of the invariant.                                       *)
LEMMA GlyphsStepKeeps == GlyphsInv /\ GlyphsStep => GlyphsInv'
<1> SUFFICES ASSUME GlyphsInv, GlyphsStep PROVE GlyphsInv'
  OBVIOUS
<1>1. src' = src /\ SrcIs
  BY DEF GlyphsStep, GlyphsInv
<1>2. SrcIs'
  BY <1>1 DEF SrcIs
<1>3. Letters' = Letters
  BY <1>1 DEF Letters, Places
<1>4. Stacked' = Stacked
  BY <1>1, <1>3 DEF Stacked, LettersIn, Places
<1>5. ~stale' => GlyphsAt(pc, kids, cursor, fsm, walk)'
  BY <1>3, <1>4 DEF GlyphsStep, GlyphsAt, Faithful, Reads, WalkWell, Well, Untried, PatternFound
<1>6. pc' # "page" /\ (pc' = "bop" => fsm'.state = 0) /\ (pc' # "accent" => cursor' \in Nat \ {0})
  BY DEF GlyphsStep
<1>7. stale' => pc' \in Late
  BY DEF GlyphsStep
<1>8. QED
  BY <1>2, <1>5, <1>6, <1>7 DEF GlyphsInv

(* The invariant gives what is said of `Written'. *)
LEMMA InvIsGlyphsKept == GlyphsInv => GlyphsKept
<1> SUFFICES ASSUME GlyphsInv, pc # "page", ~stale
             PROVE  /\ Len(Written) = Cardinality(Letters) /\ Elements(Written) = Letters
                    /\ ~Stacked => \A p \in 1 .. Len(Written) - 1 : Before(Written[p], Written[p + 1])
  BY DEF GlyphsKept, NoneLost, InOrder
<1>1. GlyphsAt(pc, kids, cursor, fsm, walk)
  BY DEF GlyphsInv
<1>2. ListOf(kids, AnyNode)
  <2>1. ListOf(kids, NodesOf(ItemsAt(pc)))
    BY <1>1 DEF GlyphsAt
  <2>2. ItemsAt(pc) \subseteq AnyItem
    BY ItemsGrow DEF ItemsAt
  <2>3. QED
    BY <2>1, <2>2, AnyNodes
<1>3. Written = Says(<<>>, kids)
  BY <1>2, WrittenSays
<1>4. Reads(Written)
  BY <1>1, <1>3 DEF GlyphsAt, Faithful
<1>5. ListOf(Written, Spot)
  BY <1>2, <1>3, Marks, NodesTell, ReadIsList DEF Says
<1>6. ASSUME ~Stacked, NEW p \in 1 .. Len(Written) - 1
      PROVE  Before(Written[p], Written[p + 1])
  <2> DEFINE q == p + 1
             r == Written
  <2>1. Len(r) \in Nat
    BY <1>5, LenProperties DEF ListOf
  <2>2. p \in 1 .. Len(r) /\ q \in 1 .. Len(r) /\ p < q
    BY <2>1
  <2>3. Ordered(r)
    BY <1>4, <1>6 DEF Reads
  <2> HIDE DEF q, r
  <2>4. Before(r[p], r[q])
    BY <2>2, <2>3 DEF Ordered
  <2>5. QED
    BY <2>4 DEF r, q
<1>7. QED
  BY <1>4, <1>6 DEF Reads

----------------------------------------------------------------------------
(* The list without an accent is still faithful. *)
LEMMA LessIsFaithful ==
  ASSUME NEW ks, NEW l, Faithful(ks), SaysLess(l, ks)
  PROVE  Faithful(l)
  BY DEF Faithful, SaysLess

(* The first pages.                                                        *)
LEMMA AllIsFaithful == SrcIs => ListOf(All, NodesOf(CharItem)) /\ Faithful(All)
<1> SUFFICES ASSUME SrcIs PROVE ListOf(All, NodesOf(CharItem)) /\ Faithful(All)
  OBVIOUS
<1>1. ListOf(All, NodesOf(CharItem))
  BY AllIs
<1>2. Reads(Says(<<>>, All))
  BY AllRead DEF Reads
<1>3. QED
  BY <1>1, <1>2, AllSpread DEF Faithful

(* remove_page_nodes and remove_bop_nodes. *)
LEMMA GlyphsPageStep == GlyphsInv /\ (RemovePageNodes \/ RemoveBopNodes) => GlyphsStep
<1> SUFFICES ASSUME GlyphsInv, RemovePageNodes \/ RemoveBopNodes PROVE GlyphsStep
  OBVIOUS
<1>1. CASE RemovePageNodes
  <2>1. /\ pc = "page" /\ pc' = "bop" /\ src' = src /\ cursor' = cursor /\ fsm' = fsm
        /\ kids' = FlattenSeq(kids)
    BY <1>1 DEF RemovePageNodes, accentVars
  <2>2. kids' = All /\ fsm.state = 0 /\ cursor \in Nat \ {0} /\ SrcIs
    BY <2>1 DEF GlyphsInv
  <2>3. ListOf(kids', NodesOf(ItemsAt("bop"))) /\ Faithful(kids')
    BY <2>2, AllIsFaithful DEF ItemsAt
  <2>4. GlyphsAt("bop", kids', cursor', fsm', walk')
    BY <2>3 DEF GlyphsAt, Early
  <2>5. ~stale'
    BY <1>1, <2>1 DEF RemovePageNodes, accentVars, GlyphsInv, Late
  <2>6. QED
    BY <2>1, <2>2, <2>4, <2>5 DEF GlyphsStep
<1>2. CASE RemoveBopNodes
  <2> DEFINE S == {n \in Elements(kids) : n.k # "bop"}
  <2>1. /\ pc = "bop" /\ pc' = "large" /\ src' = src /\ cursor' = cursor /\ fsm' = fsm /\ stale' = stale
        /\ kids' = Among(kids, S)
    BY <1>2 DEF RemoveBopNodes, accentVars
  <2>2. fsm.state = 0 /\ cursor \in Nat \ {0} /\ ~stale
    BY <2>1 DEF GlyphsInv, Late
  <2>3. GlyphsAt("large", kids', cursor', fsm', walk')
    <3>1. GlyphsAt("bop", kids, cursor, fsm, walk)
      BY <2>1, <2>2 DEF GlyphsInv
    <3>2. ListOf(kids, NodesOf(CharItem)) /\ Faithful(kids)
      BY <3>1 DEF GlyphsAt, Early, ItemsAt
    <3>3. ListOf(kids', NodesOf(CharItem)) /\ SaysLess(kids', kids)
      BY <2>1, <3>2, BopsOut, SameIsLess
    <3>4. Faithful(kids')
      BY <3>2, <3>3, LessIsFaithful
    <3>5. PatternFound(kids', cursor', fsm')
      BY <2>1, <2>2 DEF PatternFound
    <3>6. QED
      BY <3>3, <3>4, <3>5 DEF GlyphsAt, Early, ItemsAt
  <2> HIDE DEF S
  <2>4. QED
    BY <2>1, <2>2, <2>3 DEF GlyphsStep
<1>3. QED
  BY <1>1, <1>2

(* transform_large_accent_pattern. *)
LEMMA PatternGoesOn ==
  ASSUME NEW ks, NEW c \in 1 .. Len(ks), Len(ks) \in Nat, NEW f, PatternFound(ks, c, f),
         ~(f.state = 3 /\ IsText(ks, c)),
         NEW g, NEW state, state = NextState(f.state, ks, c),
         g = [state |-> state, text1 |-> IF state = 2 /\ f.state = 1 THEN c ELSE f.text1]
  PROVE  PatternFound(ks, c + 1, g)
<1> DEFINE a == f.state
           x == ks[c].k
           d == c + 1
           t == g.text1
<1>1. /\ a \in 0 .. 3 /\ c \in Nat /\ d \in Nat /\ d - 1 = c /\ c >= 1
      /\ g.state = state /\ t = IF state = 2 /\ a = 1 THEN c ELSE f.text1
  BY DEF PatternFound
<1>2. a >= 2 => /\ f.text1 \in 1 .. c - 1 /\ IsText(ks, f.text1)
                /\ \A i \in f.text1 + 1 .. c - 1 : IsControl(ks, i)
  BY DEF PatternFound
<1>3. /\ IsControl(ks, c) <=> x \in {"kern", "space", "push", "pop"}
      /\ IsText(ks, c) <=> x = "text"
  BY DEF IsControl, IsText
<1>4. state = CASE a = 0 /\ x = "push" -> 1
                [] a = 1 /\ x = "text" -> 2
                [] a = 2 /\ x = "pop" -> 3
                [] a > 0 /\ ~IsControl(ks, c) /\ ~(a = 1 /\ x = "text") -> 0
                [] OTHER -> a
  BY DEF NextState
<1> HIDE DEF a, x, d, t
<1>5. CASE a = 0
  <2>1. state \in {0, 1}
    BY <1>4, <1>5
  <2>2. QED
    BY <1>1, <2>1 DEF PatternFound, d
<1>6. CASE a = 1
  <2>1. CASE x = "text"
    <3>0. state = 2
      BY <1>4, <1>6, <2>1
    <3>1. state = 2 /\ t = c
      BY <1>1, <1>6, <3>0
    <3>2. t \in 1 .. d - 1 /\ IsText(ks, t) /\ \A i \in t + 1 .. d - 1 : IsControl(ks, i)
      BY <1>1, <1>3, <2>1, <3>1
    <3>3. QED
      BY <1>1, <3>1, <3>2 DEF PatternFound, d, t
  <2>2. CASE x # "text"
    <3>1. state \in {0, 1}
      BY <1>4, <1>6, <2>2
    <3>2. QED
      BY <1>1, <3>1 DEF PatternFound, d
  <2>3. QED
    BY <2>1, <2>2
<1>7. CASE a \in {2, 3}
  <2>1. CASE ~IsControl(ks, c)
    <3>1. x # "pop" /\ x # "push"
      BY <1>3, <2>1
    <3>2. state = 0
      BY <1>4, <1>7, <2>1, <3>1
    <3>3. QED
      BY <1>1, <3>2 DEF PatternFound, d
  <2>2. CASE IsControl(ks, c)
    <3>1. state \in {2, 3}
      BY <1>4, <1>7, <2>2
    <3>2. t = f.text1
      BY <1>1, <1>7
    <3>3. t \in 1 .. d - 1 /\ IsText(ks, t) /\ \A i \in t + 1 .. c - 1 : IsControl(ks, i)
      BY <1>1, <1>2, <1>7, <3>2
    <3>4. \A i \in t + 1 .. d - 1 : i \in t + 1 .. c - 1 \/ i = c
      BY <1>1, <3>3
    <3>5. \A i \in t + 1 .. d - 1 : IsControl(ks, i)
      BY <2>2, <3>3, <3>4
    <3>6. QED
      BY <1>1, <3>1, <3>3, <3>5 DEF PatternFound, d, t
  <2>3. QED
    BY <2>1, <2>2
<1>8. QED
  BY <1>1, <1>5, <1>6, <1>7

(* The passes over the large accents keep the letters. *)
LEMMA GlyphsLargeStep ==
  GlyphsInv /\ (LookForPattern \/ MakeLargeAccent \/ LargeAccentsMade) => GlyphsStep
<1> SUFFICES ASSUME GlyphsInv, LookForPattern \/ MakeLargeAccent \/ LargeAccentsMade PROVE GlyphsStep
  OBVIOUS
<1>0. pc = "large" /\ src' = src /\ ~stale /\ ~stale' /\ cursor \in Nat \ {0}
  <2>1. pc = "large" /\ src' = src /\ stale' = stale
    BY DEF LookForPattern, MakeLargeAccent, LargeAccentsMade, PatternComplete, Runs, Ends, accentVars
  <2>2. QED
    BY <2>1 DEF GlyphsInv, Late
<1>1. ListOf(kids, NodesOf(CharItem)) /\ Faithful(kids) /\ PatternFound(kids, cursor, fsm) /\ Len(kids) \in Nat
  <2>1. GlyphsAt("large", kids, cursor, fsm, walk)
    BY <1>0 DEF GlyphsInv
  <2>2. ListOf(kids, NodesOf(CharItem)) /\ Faithful(kids) /\ PatternFound(kids, cursor, fsm)
    BY <2>1 DEF GlyphsAt, Early, ItemsAt
  <2>3. QED
    BY <2>2, LenProperties DEF ListOf
<1>2. CASE LookForPattern
  <2> DEFINE state == NextState(fsm.state, kids, cursor)
             g == [state |-> state, text1 |-> IF state = 2 /\ fsm.state = 1 THEN cursor ELSE fsm.text1]
  <2>1. /\ pc' = pc /\ kids' = kids /\ cursor' = cursor + 1 /\ cursor <= Len(kids) /\ fsm' = g
        /\ ~(fsm.state = 3 /\ IsText(kids, cursor))
    BY <1>2 DEF LookForPattern, PatternComplete, Runs, GoOn
  <2>2. GlyphsAt("large", kids', cursor', fsm', walk')
    <3>1. cursor \in 1 .. Len(kids)
      BY <1>0, <1>1, <2>1, <2>2
    <3> HIDE DEF state
    <3>2. PatternFound(kids, cursor + 1, g)
      BY <1>1, <2>1, <3>1, PatternGoesOn DEF state
    <3> HIDE DEF g
    <3>3. QED
      BY <1>1, <2>1, <3>2 DEF GlyphsAt, Early, ItemsAt
  <2> HIDE DEF g
  <2>3. QED
    BY <1>0, <2>1, <2>2 DEF GlyphsStep
<1>3. CASE MakeLargeAccent
  <2> DEFINE l == kids'
             d == cursor + 1 - (Len(kids) - Len(l))
  <2>1. /\ pc' = pc /\ cursor' = d /\ fsm' = [state |-> 0, text1 |-> 0]
        /\ l \in MakeAccent(kids, fsm.text1, cursor) /\ fsm.state = 3 /\ IsText(kids, cursor) /\ cursor <= Len(kids)
    BY <1>3 DEF MakeLargeAccent, PatternComplete, Runs
  <2>2. ListOf(l, NodesOf(CharItem)) /\ SaysLess(l, kids) /\ d \in Nat \ {0}
    <3> DEFINE n == fsm.text1
    <3>1. n \in 1 .. cursor - 1 /\ IsText(kids, n) /\ \A i \in n + 1 .. cursor - 1 : IsControl(kids, i)
      BY <1>1, <2>1 DEF PatternFound
    <3>2. n \in 1 .. Len(kids) /\ cursor \in n + 1 .. Len(kids) /\ cursor >= 2
      BY <1>0, <1>1, <2>1, <3>1
    <3>3. l \in MakeAccent(kids, n, cursor)
      BY <2>1
    <3> HIDE DEF n, l
    <3>4. ListOf(l, NodesOf(CharItem)) /\ SaysLess(l, kids) /\ Len(l) \in Len(kids) - 2 .. Len(kids)
      BY <1>1, <2>1, <3>1, <3>2, <3>3, LargeAccentSays
    <3>5. d \in Nat \ {0}
      BY <1>0, <1>1, <3>2, <3>4
    <3>6. QED
      BY <3>4, <3>5
  <2>3. Faithful(kids')
    <3> HIDE DEF d
    <3>1. QED
      BY <1>1, <2>2, LessIsFaithful
  <2> HIDE DEF d
  <2>4. GlyphsAt("large", kids', cursor', fsm', walk')
    BY <2>1, <2>2, <2>3 DEF GlyphsAt, Early, ItemsAt, PatternFound
  <2>5. QED
    BY <1>0, <2>1, <2>2, <2>4 DEF GlyphsStep
<1>4. CASE LargeAccentsMade
  <2>1. pc' = "control" /\ cursor' = 1 /\ kids' = kids
    BY <1>4 DEF LargeAccentsMade, Ends
  <2>2. GlyphsAt("control", kids', cursor', fsm', walk')
    BY <1>1, <2>1 DEF GlyphsAt, Early, ItemsAt
  <2>3. QED
    BY <1>0, <2>1, <2>2 DEF GlyphsStep
<1>5. QED
  BY <1>2, <1>3, <1>4

(* The run of controls that starts at the cursor ends before something     *)
(* else.                                                                   *)
LEMMA RunIs ==
  ASSUME Len(kids) \in Nat, NEW c \in 1 .. Len(kids), IsControl(kids, c)
  PROVE  /\ LastOfRun(c) \in c .. Len(kids) /\ ~IsControl(kids, LastOfRun(c) + 1)
         /\ \A r \in c .. LastOfRun(c) : IsControl(kids, r)
<1> DEFINE Is(q) == ~IsControl(kids, q + 1) /\ \A r \in c .. q : IsControl(kids, r)
           T == {q \in c .. Len(kids) : ~IsControl(kids, q + 1)}
<1>2. T \in SUBSET Nat /\ Len(kids) \in T
  BY DEF IsControl
<1>3. PICK q \in T : \A m \in T : q <= m
  <2> HIDE DEF T
  <2>1. QED
    BY <1>2, LeastNatural
<1>4. ASSUME NEW r \in c .. q
      PROVE  IsControl(kids, r)
  <2>1. CASE r = c
    BY <2>1
  <2>2. CASE r # c
    <3> DEFINE a == r - 1
    <3>1. a \in c .. Len(kids) /\ a + 1 = r /\ a < q /\ a \in Nat /\ q \in Nat
      BY <1>2, <1>3, <2>2
    <3> HIDE DEF a
    <3>2. a \notin T
      BY <1>3, <3>1
    <3>3. QED
      BY <3>1, <3>2
  <2>3. QED
    BY <2>1, <2>2
<1>5. q \in c .. Len(kids) /\ Is(q)
  BY <1>3, <1>4
<1>6. LastOfRun(c) = CHOOSE x \in c .. Len(kids) : Is(x)
  BY DEF LastOfRun
<1> HIDE DEF Is
<1>7. LastOfRun(c) \in c .. Len(kids) /\ Is(LastOfRun(c))
  BY <1>5, <1>6
<1>8. QED
  BY <1>7 DEF Is

(* The steps of remove_control_nodes. *)
LEMMA GlyphsControlStep ==
  GlyphsInv /\ (PassOther \/ RemoveRun \/ JoinOverRun \/ ControlsRemoved) => GlyphsStep
<1> SUFFICES ASSUME GlyphsInv, PassOther \/ RemoveRun \/ JoinOverRun \/ ControlsRemoved PROVE GlyphsStep
  OBVIOUS
<1>0. pc = "control" /\ src' = src /\ ~stale /\ ~stale' /\ cursor \in Nat \ {0}
  <2>1. pc = "control" /\ src' = src /\ stale' = stale
    BY DEF PassOther, RemoveRun, JoinOverRun, ControlsRemoved, Runs, Ends, Kept, accentVars
  <2>2. QED
    BY <2>1 DEF GlyphsInv, Late
<1>1. ListOf(kids, NodesOf(CharItem)) /\ Faithful(kids) /\ Len(kids) \in Nat
  <2>1. GlyphsAt("control", kids, cursor, fsm, walk)
    BY <1>0 DEF GlyphsInv
  <2>2. ListOf(kids, NodesOf(CharItem)) /\ Faithful(kids)
    BY <2>1 DEF GlyphsAt, Early, ItemsAt
  <2>3. QED
    BY <2>2, LenProperties DEF ListOf
<1>2. ASSUME cursor' \in Nat \ {0}, ListOf(kids', NodesOf(CharItem)), SaysLess(kids', kids), pc' \in {"control", "xxx"}
      PROVE  GlyphsStep
  <2>1. Faithful(kids')
    BY <1>1, <1>2, LessIsFaithful
  <2>2. GlyphsAt(pc', kids', cursor', fsm', walk')
    BY <1>2, <2>1 DEF GlyphsAt, Early, ItemsAt
  <2>3. QED
    BY <1>0, <1>2, <2>2 DEF GlyphsStep
<1>3. CASE PassOther
  <2>1. pc' = pc /\ kids' = kids /\ cursor' = cursor + 1
    BY <1>3 DEF PassOther, GoOn, Kept
  <2>2. SaysLess(kids', kids)
    BY <2>1 DEF SaysLess
  <2>3. QED
    BY <1>0, <1>1, <1>2, <2>1, <2>2
<1> DEFINE q == LastOfRun(cursor)
<1>4. CASE RemoveRun
  <2>1. pc' = pc /\ cursor' = cursor /\ IsControl(kids, cursor) /\ kids' = Without(kids, cursor, q)
    BY <1>4 DEF RemoveRun, Kept
  <2>2. cursor \in 1 .. Len(kids)
    BY <2>1 DEF IsControl
  <2>3. q \in cursor .. Len(kids) /\ \A r \in cursor .. q : IsControl(kids, r)
    BY <1>1, <2>1, <2>2, RunIs
  <2> HIDE DEF q
  <2>4. ListOf(kids', NodesOf(CharItem)) /\ SaysSame(kids', kids)
    BY <1>1, <2>1, <2>2, <2>3, RunOut
  <2>5. QED
    BY <1>0, <1>2, <2>1, <2>4, SameIsLess
<1>5. CASE JoinOverRun
  <2> DEFINE p == cursor - 1
             m == q + 1
  <2>1. /\ pc' = pc /\ cursor' = cursor /\ IsControl(kids, cursor) /\ IsText(kids, p) /\ IsText(kids, m)
        /\ kids' = [Without(kids, cursor, m) EXCEPT ![p] = Joined(kids[p], kids[m])]
    <3>1. /\ pc' = pc /\ cursor' = cursor /\ IsControl(kids, cursor) /\ IsText(kids, p) /\ IsText(kids, m)
          /\ kids' = [Without(kids, cursor, m) EXCEPT ![p] = Joined(@, kids[m])]
      BY <1>5 DEF JoinOverRun, Kept
    <3>2. p \in 1 .. Len(kids) /\ m \in 1 .. Len(kids) /\ cursor \in 1 .. Len(kids)
      BY <3>1 DEF IsText, IsControl
    <3>3. q \in cursor .. Len(kids)
      BY <1>1, <3>1, <3>2, RunIs
    <3> HIDE DEF q
    <3>4. cursor \in 1 .. Len(kids) /\ m \in cursor .. Len(kids) /\ p \in 1 .. cursor - 1
      BY <1>1, <3>2, <3>3
    <3> HIDE DEF p, m
    <3>5. Lacks(Without(kids, cursor, m), kids, cursor, m)
      BY <1>1, <3>4, WithoutIs
    <3>6. Without(kids, cursor, m)[p] = kids[p]
      BY <3>4, <3>5 DEF Lacks
    <3>7. QED
      BY <3>1, <3>6
  <2>2. p \in 1 .. Len(kids) /\ m \in 1 .. Len(kids) /\ cursor \in 1 .. Len(kids)
    BY <2>1 DEF IsText, IsControl
  <2>3. q \in cursor .. Len(kids) /\ \A r \in cursor .. q : IsControl(kids, r)
    BY <1>1, <2>1, <2>2, RunIs
  <2> HIDE DEF q
  <2>4. m \in p + 1 .. Len(kids) /\ p + 1 = cursor /\ m - 1 = q
    BY <1>0, <1>1, <2>2, <2>3
  <2> HIDE DEF p, m
  <2>5. \A r \in p + 1 .. m - 1 : IsControl(kids, r)
    BY <2>3, <2>4
  <2>6. kids' = [Without(kids, p + 1, m) EXCEPT ![p] = Joined(kids[p], kids[m])]
    BY <2>1, <2>4
  <2>7. ListOf(kids', NodesOf(CharItem)) /\ SaysSame(kids', kids)
    BY ONLY <1>1, <2>1, <2>2, <2>4, <2>5, <2>6, OneWordSays
  <2>8. QED
    BY <1>0, <1>2, <2>1, <2>7, SameIsLess
<1>6. CASE ControlsRemoved
  <2>1. pc' = "xxx" /\ cursor' = 1 /\ kids' = kids
    BY <1>6 DEF ControlsRemoved, Ends
  <2>2. SaysLess(kids', kids)
    BY <2>1 DEF SaysLess
  <2>3. QED
    BY <1>1, <1>2, <2>1, <2>2
<1>7. QED
  BY <1>3, <1>4, <1>5, <1>6

(* The tags become accents, which go into the texts.                       *)
LEMMA GlyphsTagsStep ==
  GlyphsInv /\ (ReplaceTags \/ GatherAround \/ PassUngathered \/ Gathering \/ PutBeforeText \/ PassNotInFront)
    => GlyphsStep
<1> SUFFICES ASSUME GlyphsInv,
                    ReplaceTags \/ GatherAround \/ PassUngathered \/ Gathering \/ PutBeforeText \/ PassNotInFront
             PROVE  GlyphsStep
  OBVIOUS
<1>0. pc \in {"xxx", "tags1", "tags2"} /\ src' = src /\ ~stale /\ ~stale' /\ cursor \in Nat \ {0}
  <2>1. pc \in {"xxx", "tags1", "tags2"} /\ src' = src /\ stale' = stale
    BY DEF ReplaceTags, GatherAround, PassUngathered, Gathering, PutBeforeText, PassNotInFront,
           Runs, Ends, Kept, accentVars
  <2>2. QED
    BY <2>1 DEF GlyphsInv, Late
<1>1. Faithful(kids) /\ ListOf(kids, NodesOf(ItemsAt(pc)))
  <2>1. GlyphsAt(pc, kids, cursor, fsm, walk)
    BY <1>0 DEF GlyphsInv
  <2>2. QED
    BY <1>0, <2>1 DEF GlyphsAt, Early
<1>2. ASSUME cursor' \in Nat \ {0}, ListOf(kids', NodesOf(FreshItem)), SaysLess(kids', kids), pc' \in {"tags1", "tags2"}
      PROVE  GlyphsStep
  <2>1. Faithful(kids')
    BY <1>1, <1>2, LessIsFaithful
  <2>2. GlyphsAt(pc', kids', cursor', fsm', walk')
    BY <1>2, <2>1 DEF GlyphsAt, Early, ItemsAt
  <2>3. QED
    BY <1>0, <1>2, <2>2 DEF GlyphsStep
<1>3. CASE ReplaceTags
  <2>1. pc = "xxx" /\ pc' = "tags1" /\ kids' = WithElements(kids) /\ cursor' = cursor
    BY <1>3 DEF ReplaceTags
  <2>2. ListOf(kids, NodesOf(CharItem))
    BY <1>1, <2>1 DEF ItemsAt
  <2>3. ListOf(kids', NodesOf(FreshItem)) /\ SaysLess(kids', kids)
    BY <2>1, <2>2, ElementsSay
  <2>4. QED
    BY <1>0, <1>2, <2>1, <2>3
<1>4. ASSUME pc \in {"tags1", "tags2"}
      PROVE  ListOf(kids, NodesOf(FreshItem))
  BY <1>1, <1>4 DEF ItemsAt
<1>5. CASE GatherAround
  <2>1. pc = "tags1" /\ pc' = pc /\ cursor' = cursor /\ Between(kids, cursor) /\ kids' = Gathered(kids, cursor)
    BY <1>5 DEF GatherAround, Runs, Kept
  <2>2. ListOf(kids', NodesOf(FreshItem)) /\ SaysSame(kids', kids)
    BY <1>4, <2>1, GatheredSays
  <2>3. QED
    BY <1>0, <1>2, <2>1, <2>2, SameIsLess
<1>6. CASE PutBeforeText
  <2>1. pc = "tags2" /\ pc' = pc /\ cursor' = cursor + 1 /\ InFront(kids, cursor) /\ kids' = PutInFront(kids, cursor)
    BY <1>6 DEF PutBeforeText, Runs, GoOn, Kept
  <2>2. ListOf(kids', NodesOf(FreshItem)) /\ SaysSame(kids', kids)
    BY <1>4, <2>1, InFrontSays
  <2>3. QED
    BY <1>0, <1>2, <2>1, <2>2, SameIsLess
<1>7. CASE PassUngathered \/ PassNotInFront \/ Gathering
  <2>1. /\ pc \in {"tags1", "tags2"} /\ pc' \in {"tags1", "tags2"} /\ kids' = kids
        /\ cursor' = cursor + 1 \/ cursor' = 1
    BY <1>7 DEF PassUngathered, PassNotInFront, Gathering, Runs, Ends, GoOn, Kept
  <2>2. SaysLess(kids', kids)
    BY <2>1 DEF SaysLess
  <2>3. QED
    BY <1>0, <1>2, <1>4, <2>1, <2>2
<1>8. QED
  BY <1>3, <1>5, <1>6, <1>7

(* The walk goes on in what is left of a text. *)
LEMMA WellBehind ==
  ASSUME NEW t, Well(t), NEW d \in 0 .. Len(t)
  PROVE  Well(RightOf(t, d))
<1> DEFINE g == ItemSays(<<Mark>>)
           b == RightOf(t, d)
           a == SubSeq(t, 1, d)
<1>1. ListOf(t, FreshItem) /\ ListOf(t, AnyItem) /\ Len(t) \in Nat
  BY ListGrows, ItemsGrow, LenProperties DEF Well, ListOf
<1>2. Tells(g, AnyItem, Spot)
  BY ItemsTell, Marks
<1>3. ListOf(b, FreshItem)
  <2> DEFINE p == d + 1
             n == Len(t)
  <2>1. p \in Int /\ n \in Int /\ 1 <= p /\ n <= Len(t)
    BY <1>1
  <2>2. b = SubSeq(t, p, n)
    BY DEF RightOf
  <2> HIDE DEF p, n, b
  <2>3. QED
    BY <1>1, <2>1, <2>2, SegmentIs
<1>4. ListOf(a, AnyItem)
  <2>1. d \in Int /\ 1 \in Int /\ 1 <= 1 /\ d <= Len(t)
    BY <1>1
  <2>2. QED
    BY <1>1, <2>1, SegmentIs
<1>5. ASSUME ~Stacked
      PROVE  Spread(ItemsSay(<<Mark>>, b))
  <2> HIDE DEF a, b
  <2>1. ReadOff(g, t) = Cat(ReadOff(g, a), ReadOff(g, b))
    <3>1. 0 \in 0 .. Len(t) /\ RightOf(t, 0) = t /\ a = SubSeq(t, 0 + 1, d)
      <4>1. RightOf(t, 0) = SubSeq(t, 1, Len(t))
        BY DEF RightOf
      <4>2. QED
        BY <1>1, <4>1, WholeIs DEF a
    <3> HIDE DEF g
    <3>2. ReadOff(g, RightOf(t, 0)) = Cat(ReadOff(g, SubSeq(t, 0 + 1, d)), ReadOff(g, RightOf(t, d)))
      BY <1>1, <1>2, <3>1, ReadRest
    <3>3. QED
      BY <3>1, <3>2 DEF b
  <2>2. ListOf(ReadOff(g, a), Spot) /\ ListOf(ReadOff(g, b), Spot)
    <3>1. ListOf(b, AnyItem)
      BY <1>3, ListGrows, ItemsGrow
    <3> HIDE DEF g
    <3>2. QED
      BY <1>2, <1>4, <3>1, ReadIsList
  <2>3. Spread(ReadOff(g, t))
    BY <1>5 DEF Well, ItemsSay
  <2> HIDE DEF g
  <2>4. Spread(ReadOff(g, b))
    BY <2>1, <2>2, <2>3, SpreadOfParts
  <2>5. QED
    BY <2>4 DEF ItemsSay, g
<1>6. QED
  BY <1>3, <1>5 DEF Well

(* The w-th item of the c-th node. *)
AtItem(ks, c, w) == IsText(ks, c) /\ w \in 1 .. Len(ks[c].items)

(* What a text of the list is. *)
LEMMA TextIs ==
  ASSUME NEW ks, ListOf(ks, AnyNode), NEW n, IsText(ks, n), NEW x, x = ks[n]
  PROVE  /\ n \in 1 .. Len(ks) /\ x \in AnyNode /\ x.k = "text"
         /\ ListOf(x.items, AnyItem) /\ Len(x.items) \in Nat
<1>1. ListOf(ks, NodesOf(AnyItem)) /\ AnyItem \subseteq AnyItem /\ ListOf(<<>>, Spot)
  BY Marks DEF AnyNode
<1>2. n \in 1 .. Len(ks) /\ x.k = "text"
  BY DEF IsText
<1>3. x \in AnyNode /\ ListOf(x.items, AnyItem)
  BY <1>1, <1>2, AtPlace
<1>4. QED
  BY <1>2, <1>3, LenProperties DEF ListOf

(* The engine calls the pass for the node before: what it has still to     *)
(* look at is as it was.                                                   *)
LEMMA CallWell ==
  ASSUME NEW ks, NEW c \in Nat \ {0}, NEW w, WalkWell(ks, c, w),
         NEW l, ListOf(l, AnyNode), Len(l) = Len(ks), \A n \in 1 .. c - 1 : l[n] = ks[n]
  PROVE  WalkWell(l, c - 1, <<c - 1, 1>>)
<1> DEFINE b == c - 1
           v == <<b, 1>>
<1>1. Len(l) \in Nat /\ b \in 0 .. Len(l)
  <2>1. Len(l) \in Nat
    BY LenProperties DEF ListOf
  <2>2. c \in 0 .. Len(ks)
    BY DEF WalkWell
  <2>3. QED
    BY <2>1, <2>2
<1>2. ASSUME NEW n \in 1 .. b, IsText(l, n)
      PROVE  Well(Untried(l, b, v, n))
  <2> DEFINE x == l[n]
             s == x.items
  <2>1. x = ks[n] /\ IsText(ks, n)
    BY <1>1, <1>2 DEF IsText, WalkWell
  <2>2. n \in 1 .. c /\ n # c
    BY <1>1
  <2>3. Well(Untried(ks, c, w, n))
    BY <2>1, <2>2 DEF WalkWell
  <2>4. Untried(ks, c, w, n) = s
    BY <2>1, <2>2 DEF Untried
  <2>5. ListOf(s, AnyItem)
    BY <1>2, TextIs
  <2>6. SubSeq(s, 1, Len(s)) = s
    BY <2>5, WholeIs
  <2>7. Untried(l, b, v, n) = s
    BY <2>6 DEF Untried
  <2>8. QED
    BY <2>3, <2>4, <2>7
<1>3. v[1] = b /\ v[2] = 1
  OBVIOUS
<1> HIDE DEF v, b
<1>4. WalkWell(l, b, v)
  BY <1>1, <1>2, <1>3 DEF WalkWell
<1>5. QED
  BY <1>4 DEF v, b

(* The c-th of the nodes l is a text; behind its w-th item it has what is  *)
(* behind the k-th place after in the text of ks.                          *)
Ahead(l, ks, c, w, k) ==
  /\ ListOf(l, AnyNode) /\ Len(l) = Len(ks)
  /\ \A n \in 1 .. c - 1 : l[n] = ks[n]
  /\ AtItem(l, c, w)
  /\ k \in 0 .. Len(ks[c].items) - w
  /\ RightOf(l[c].items, w) = RightOf(ks[c].items, w + k)

(* The walk goes on behind the w-th item, from which k items have been     *)
(* taken.                                                                  *)
LEMMA GoOnWell ==
  ASSUME NEW ks, ListOf(ks, AnyNode), NEW c \in Nat \ {0}, NEW a, WalkWell(ks, c, a), NEW w, w = a[2], AtItem(ks, c, w),
         NEW l, NEW k, Ahead(l, ks, c, w, k)
  PROVE  WalkWell(l, c, <<c, w + 1>>)
<1> DEFINE y == l[c].items
           s == ks[c].items
           d == w + 1
           v == <<c, d>>
           t == SubSeq(s, w, Len(s))
           r == SubSeq(s, d + k, Len(s))
<1>1. /\ c \in 1 .. Len(l) /\ w \in Nat \ {0}
      /\ Len(s) \in Nat /\ w \in 1 .. Len(s) /\ k \in 0 .. Len(s) - w /\ ListOf(s, AnyItem)
  <2>1. c \in 1 .. Len(l)
    BY DEF Ahead, AtItem, IsText
  <2>2. w \in 1 .. Len(s) /\ k \in 0 .. Len(s) - w /\ w \in Nat \ {0}
    BY DEF Ahead, AtItem, WalkWell
  <2>3. IsText(ks, c)
    BY DEF AtItem
  <2>4. Len(s) \in Nat /\ ListOf(s, AnyItem)
    BY <2>3, TextIs
  <2>5. QED
    BY <2>1, <2>2, <2>4
<1>2. Well(t)
  <2>1. c \in 1 .. c
    OBVIOUS
  <2>2. Well(Untried(ks, c, a, c))
    BY <2>1 DEF WalkWell, AtItem
  <2>3. QED
    BY <2>2 DEF Untried
<1>3. SubSeq(y, d, Len(y)) = r
  <2>1. RightOf(y, w) = RightOf(s, w + k)
    BY DEF Ahead
  <2>2. w + k + 1 = d + k
    BY <1>1
  <2> HIDE DEF d
  <2>3. RightOf(s, w + k) = SubSeq(s, d + k, Len(s))
    BY <2>2 DEF RightOf
  <2>4. RightOf(y, w) = SubSeq(y, d, Len(y))
    BY DEF RightOf, d
  <2>5. QED
    BY <2>1, <2>3, <2>4
<1>4. Well(r)
  <2> DEFINE q == d + k
             e == q - w
  <2>1. w \in 1 .. Len(s) + 1 /\ q \in w .. Len(s) + 1
    BY <1>1, SMTT(30)
  <2>2. Len(t) = Len(s) - w + 1
    <3> DEFINE n == Len(s)
    <3>1. n \in Nat /\ w \in Int /\ 1 <= w /\ w <= n + 1 /\ s \in Seq(AnyItem) /\ n <= Len(s)
      BY <1>1 DEF ListOf
    <3>2. t = SubSeq(s, w, n)
      OBVIOUS
    <3> HIDE DEF n, s, t
    <3>3. Len(SubSeq(s, w, n)) = n - w + 1
      BY <3>1, SubSeqProperties
    <3>4. QED
      BY <3>2, <3>3 DEF n
  <2>3. e \in 0 .. Len(t)
    <3> DEFINE n == Len(s)
               m == Len(t)
    <3>1. n \in Int /\ w \in Int /\ k \in Int /\ 0 <= k /\ k <= n - w /\ m = n - w + 1 /\ e = k + 1
      BY <1>1, <2>2
    <3> HIDE DEF n, m, e
    <3>2. e \in 0 .. m
      BY ONLY <3>1
    <3>3. QED
      BY <3>2 DEF m
  <2>4. r = SubSeq(s, q, Len(s))
    OBVIOUS
  <2> HIDE DEF d, q, r, s
  <2>5. SubSeq(s, q, Len(s)) = RightOf(t, e)
    BY <1>1, <2>1, SuffixIs DEF e, t
  <2> HIDE DEF t, e
  <2>6. Well(RightOf(t, e))
    BY <1>2, <2>3, WellBehind
  <2>7. QED
    BY <2>4, <2>5, <2>6
<1>5. ASSUME NEW n \in 1 .. c, IsText(l, n)
      PROVE  Well(Untried(l, c, v, n))
  <2>1. CASE n = c
    <3>1. Untried(l, c, v, n) = SubSeq(y, d, Len(y))
      BY <2>1 DEF Untried
    <3>2. QED
      BY <1>3, <1>4, <3>1
  <2>2. CASE n # c
    <3>1. n \in 1 .. c - 1
      BY <2>2
    <3>2. l[n] = ks[n] /\ IsText(ks, n)
      BY <1>5, <3>1 DEF Ahead, IsText
    <3>3. Well(Untried(ks, c, a, n))
      BY <3>2 DEF WalkWell
    <3>4. Untried(l, c, v, n) = Untried(ks, c, a, n)
      BY <2>2, <3>2 DEF Untried
    <3>5. QED
      BY <3>3, <3>4
  <2>3. QED
    BY <2>1, <2>2
<1>6. v[1] = c /\ v[2] = d /\ d \in Nat \ {0} /\ c \in 0 .. Len(l)
  BY <1>1
<1> HIDE DEF v, d
<1>7. WalkWell(l, c, v)
  BY <1>5, <1>6 DEF WalkWell
<1>8. QED
  BY <1>7 DEF v, d

(* What is read before the w-th item of the c-th node, and after it. *)
Upto(ks, c, w) ==
  Cat(ReadOff(NodeSays(<<>>), LeftOf(ks, c)), ReadOff(ItemSays(<<>>), LeftOf(ks[c].items, w)))
After(ks, c, w) ==
  Cat(ReadOff(ItemSays(<<>>), RightOf(ks[c].items, w)), ReadOff(NodeSays(<<>>), RightOf(ks, c)))

(* Items and nodes say spots. *)
LEMMA Tellers ==
  /\ Tells(ItemSays(<<>>), AnyItem, Spot) /\ Tells(NodeSays(<<>>), AnyNode, Spot)
  /\ \A x \in AnyItem : ItemSays(<<>>)[x] = PlacesOf(x.gs) /\ ListOf(PlacesOf(x.gs), Spot)
<1>1. ListOf(<<>>, Spot)
  BY Marks
<1>2. Tells(ItemSays(<<>>), AnyItem, Spot) /\ Tells(NodeSays(<<>>), AnyNode, Spot)
  BY <1>1, ItemsTell, NodesTell
<1>3. ASSUME NEW x \in AnyItem
      PROVE  ItemSays(<<>>)[x] = PlacesOf(x.gs) /\ ListOf(PlacesOf(x.gs), Spot)
  <2>1. ListOf(PlacesOf(x.gs), Spot) /\ x.k \in {"char", "stray", "accent"}
    BY ItemIs, PlacesAre
  <2>2. Cat(<<>>, PlacesOf(x.gs)) = PlacesOf(x.gs)
    BY <2>1, CatNothing
  <2>3. ItemSays(<<>>)[x] = PlacesOf(x.gs)
    BY <1>1, <2>1, <2>2, ItemsTell
  <2>4. QED
    BY <2>1, <2>3
<1>4. QED
  BY <1>2, <1>3

LEMMA SidesAre ==
  ASSUME NEW ks, ListOf(ks, AnyNode), NEW c, NEW w, AtItem(ks, c, w)
  PROVE  /\ ListOf(ReadOff(NodeSays(<<>>), LeftOf(ks, c)), Spot) /\ ListOf(ReadOff(NodeSays(<<>>), RightOf(ks, c)), Spot)
         /\ ListOf(ReadOff(ItemSays(<<>>), LeftOf(ks[c].items, w)), Spot)
         /\ ListOf(ReadOff(ItemSays(<<>>), RightOf(ks[c].items, w)), Spot)
         /\ ListOf(Upto(ks, c, w), Spot) /\ ListOf(After(ks, c, w), Spot)
<1> DEFINE x == ks[c]
           s == x.items
           f == NodeSays(<<>>)
           g == ItemSays(<<>>)
<1>1. IsText(ks, c) /\ w \in 1 .. Len(s)
  BY DEF AtItem
<1>2. c \in 1 .. Len(ks) /\ ListOf(s, AnyItem)
  BY <1>1, TextIs
<1>3. Tells(g, AnyItem, Spot) /\ Tells(f, AnyNode, Spot)
  BY Tellers
<1> HIDE DEF f, g
<1>4. ListOf(LeftOf(ks, c), AnyNode) /\ ListOf(RightOf(ks, c), AnyNode)
  BY <1>2, LeftIs, RightIs
<1>5. ListOf(LeftOf(s, w), AnyItem) /\ ListOf(RightOf(s, w), AnyItem)
  <2> HIDE DEF s
  <2>1. QED
    BY <1>1, <1>2, LeftIs, RightIs
<1>6. ListOf(ReadOff(f, LeftOf(ks, c)), Spot)
  BY <1>3, <1>4, ReadIsList
<1>7. ListOf(ReadOff(f, RightOf(ks, c)), Spot)
  BY <1>3, <1>4, ReadIsList
<1>8. ListOf(ReadOff(g, LeftOf(s, w)), Spot)
  BY <1>3, <1>5, ReadIsList
<1>9. ListOf(ReadOff(g, RightOf(s, w)), Spot)
  BY <1>3, <1>5, ReadIsList
<1>10. ListOf(Cat(ReadOff(f, LeftOf(ks, c)), ReadOff(g, LeftOf(s, w))), Spot)
  BY <1>6, <1>8, CatIsList
<1>11. ListOf(Cat(ReadOff(g, RightOf(s, w)), ReadOff(f, RightOf(ks, c))), Spot)
  BY <1>7, <1>9, CatIsList
<1>12. QED
  BY <1>6, <1>7, <1>8, <1>9, <1>10, <1>11 DEF Upto, After, f, g

(* What the list says, around an item. *)
LEMMA PlaceSays ==
  ASSUME NEW ks, ListOf(ks, AnyNode), NEW c, NEW w, AtItem(ks, c, w), NEW x, x = ks[c].items[w]
  PROVE  /\ x \in AnyItem
         /\ Says(<<>>, ks) = Cat(Upto(ks, c, w), Cat(PlacesOf(x.gs), After(ks, c, w)))
<1> DEFINE t == ks[c]
           s == t.items
           f == NodeSays(<<>>)
           g == ItemSays(<<>>)
           a == ReadOff(f, LeftOf(ks, c))
           d == ReadOff(f, RightOf(ks, c))
           b == ReadOff(g, LeftOf(s, w))
           e == ReadOff(g, RightOf(s, w))
           y == PlacesOf(x.gs)
<1>1. IsText(ks, c) /\ w \in 1 .. Len(s)
  BY DEF AtItem
<1>2. c \in 1 .. Len(ks) /\ ListOf(s, AnyItem)
  BY <1>1, TextIs
<1>3. Tells(g, AnyItem, Spot) /\ Tells(f, AnyNode, Spot)
  BY Tellers
<1>4. x \in AnyItem
  <2>1. x = s[w]
    OBVIOUS
  <2> HIDE DEF s
  <2>2. QED
    BY <1>1, <1>2, <2>1, ElementIs
<1>5. g[x] = y /\ ListOf(y, Spot)
  BY <1>4, Tellers
<1>6. f[t] = ReadOff(g, s)
  <2>1. ListOf(<<>>, Spot) /\ t = ks[c]
    BY Marks
  <2> HIDE DEF t
  <2>2. NodeSays(<<>>)[t] = ItemsSay(<<>>, t.items)
    BY <1>1, <2>1, TextSays
  <2>3. QED
    BY <2>2 DEF ItemsSay
<1>7. ListOf(a, Spot) /\ ListOf(b, Spot) /\ ListOf(d, Spot) /\ ListOf(e, Spot)
  BY SidesAre
<1>8. x = s[w] /\ t = ks[c]
  OBVIOUS
<1> HIDE DEF f, g, t, y
<1>9. ReadOff(f, ks) = Cat(a, Cat(f[t], d))
  BY <1>2, <1>3, <1>8, ReadParts
<1>10. ReadOff(g, s) = Cat(b, Cat(g[x], e))
  <2> HIDE DEF s
  <2>1. QED
    BY <1>1, <1>2, <1>3, <1>8, ReadParts
<1> HIDE DEF a, b, d, e, s
<1>11. Cat(a, Cat(Cat(b, Cat(y, e)), d)) = Cat(Cat(a, b), Cat(y, Cat(e, d)))
  BY <1>5, <1>7, FourParts
<1>12. ReadOff(f, ks) = Cat(Cat(a, b), Cat(y, Cat(e, d)))
  BY <1>5, <1>6, <1>9, <1>10, <1>11
<1>13. QED
  BY <1>4, <1>12 DEF Says, Upto, After, a, b, d, e, s, t, f, g, y

(* The n-th node is given other items, and nothing else changes. *)
ItemsOut(l, ks, n, items) ==
  /\ ListOf(l, AnyNode) /\ Len(l) = Len(ks)
  /\ \A i \in 1 .. Len(ks) : i # n => l[i] = ks[i]
  /\ IsText(l, n) /\ l[n].items = items
  /\ LeftOf(l, n) = LeftOf(ks, n) /\ RightOf(l, n) = RightOf(ks, n)

LEMMA ItemsChanged ==
  ASSUME NEW ks, ListOf(ks, AnyNode), NEW n, IsText(ks, n), NEW items, ListOf(items, AnyItem),
         NEW l, l = [ks EXCEPT ![n].items = items]
  PROVE  ItemsOut(l, ks, n, items)
<1> DEFINE t == ks[n]
           x == [t EXCEPT !.items = items]
<1>1. n \in 1 .. Len(ks) /\ t \in AnyNode /\ t.k = "text"
  BY TextIs
<1>2. t \in TextNode(AnyItem)
  BY <1>1, NodeIs DEF AnyNode
<1>3. l = [ks EXCEPT ![n] = x]
  OBVIOUS
<1> HIDE DEF t
<1>4. x \in NodesOf(AnyItem) /\ x.k = "text" /\ x.items = items
  BY <1>2, TextWith
<1>5. x \in AnyNode
  BY <1>4 DEF AnyNode
<1> HIDE DEF x
<1>6. ListOf(l, AnyNode) /\ Changed(l, ks, n, x)
  BY <1>1, <1>3, <1>5, ChangedIs
<1>7. LeftOf(l, n) = LeftOf(ks, n) /\ RightOf(l, n) = RightOf(ks, n)
  BY <1>1, <1>6, ChangedSides
<1>8. Len(l) = Len(ks) /\ l[n] = x /\ \A i \in 1 .. Len(ks) : i # n => l[i] = ks[i]
  BY <1>6 DEF Changed
<1>9. QED
  BY <1>1, <1>4, <1>6, <1>7, <1>8 DEF ItemsOut, IsText

(* transform_accent_tags takes a character: from l is missing what ks says *)
(* with it, the first thing after the accent or, when another accent is    *)
(* next, a later one.                                                      *)
Blocked(ks, c, w) == w < Len(ks[c].items) /\ ks[c].items[w + 1].k = "accent"
Took(l, ks, c, w, G, k) ==
  /\ Ahead(l, ks, c, w, k)
  /\ l[c].items[w] = ks[c].items[w]
  /\ Upto(l, c, w) = Upto(ks, c, w)
  /\ \E V1, V2 : /\ ListOf(V1, Spot) /\ ListOf(V2, Spot)
                 /\ After(ks, c, w) = Cat(V1, Cat(G, V2)) /\ After(l, c, w) = Cat(V1, V2)
                 /\ ~Blocked(ks, c, w) => V1 = <<>>

(* The character comes out of the accent's own text: the item after the    *)
(* accent.                                                                 *)
LEMMA TakenOwn ==
  ASSUME NEW ks, ListOf(ks, AnyNode), NEW c \in Nat \ {0}, NEW w, AtItem(ks, c, w),
         NEW v \in 1 .. Len(ks[c].items), v = w + 1, NEW x, x = ks[c].items[v],
         NEW l, l = WithoutChar(ks, <<c, v>>)
  PROVE  Took(l, ks, c, w, PlacesOf(x.gs), 1)
<1> DEFINE s == ks[c].items
           u == Unlink(s, v)
           f == NodeSays(<<>>)
           g == ItemSays(<<>>)
           d == ReadOff(f, RightOf(ks, c))
           e == ReadOff(g, RightOf(s, v))
           G == PlacesOf(x.gs)
<1>1. IsText(ks, c) /\ w \in 1 .. Len(s)
  BY DEF AtItem
<1>2. c \in 1 .. Len(ks) /\ ListOf(s, AnyItem) /\ Len(s) \in Nat
  BY <1>1, TextIs
<1>3. Tells(g, AnyItem, Spot)
  BY Tellers
<1>4. x = s[v] /\ v \in 1 .. Len(s) /\ w \in Nat
  BY <1>1
<1>5. l = [ks EXCEPT ![c].items = u]
  BY DEF WithoutChar
<1> HIDE DEF s
<1>6. /\ ListOf(u, AnyItem) /\ w \in 1 .. Len(u) /\ u[w] = s[w]
      /\ LeftOf(u, w) = LeftOf(s, w) /\ RightOf(u, w) = RightOf(s, v)
  <2>1. u = Unlink(s, v) /\ v = w + 1 /\ ListOf(s, AnyItem) /\ w \in 1 .. Len(s) /\ v \in 1 .. Len(s)
    BY <1>1, <1>2, <1>4
  <2> HIDE DEF u
  <2>2. QED
    BY ONLY <2>1, UnlinkSides
<1> HIDE DEF u
<1>7. ItemsOut(l, ks, c, u)
  BY <1>1, <1>5, <1>6, ItemsChanged
<1>8. x \in AnyItem
  <2>1. s[v] \in AnyItem
    BY ONLY <1>2, <1>4, ElementIs
  <2>2. QED
    BY <1>4, <2>1
<1>9. g[x] = G /\ ListOf(G, Spot)
  BY <1>8, Tellers
<1>10. ReadOff(g, RightOf(s, w)) = Cat(g[x], e) /\ ListOf(e, Spot)
  <2> HIDE DEF g
  <2>1. QED
    BY <1>2, <1>3, <1>4, NextRead
<1>11. ListOf(d, Spot)
  BY SidesAre
<1>12. Ahead(l, ks, c, w, 1)
  <2>1. ListOf(l, AnyNode) /\ Len(l) = Len(ks) /\ IsText(l, c) /\ l[c].items = u
    BY <1>7 DEF ItemsOut
  <2>2. \A n \in 1 .. c - 1 : l[n] = ks[n]
    <3>1. \A n \in 1 .. c - 1 : n \in 1 .. Len(ks) /\ n # c
      BY <1>2
    <3>2. QED
      BY <1>7, <3>1 DEF ItemsOut
  <2>3. 1 \in 0 .. Len(s) - w
    BY <1>2, <1>4
  <2>4. RightOf(l[c].items, w) = RightOf(s, w + 1)
    BY <1>6, <2>1
  <2>5. AtItem(l, c, w)
    BY <1>6, <2>1 DEF AtItem
  <2>6. QED
    BY <2>1, <2>2, <2>3, <2>4, <2>5 DEF Ahead, s
<1>13. l[c].items = u /\ LeftOf(l, c) = LeftOf(ks, c) /\ RightOf(l, c) = RightOf(ks, c)
  BY <1>7 DEF ItemsOut
<1>14. Upto(l, c, w) = Upto(ks, c, w)
  BY <1>6, <1>13 DEF Upto, s
<1>15. After(ks, c, w) = Cat(Cat(G, e), d)
  BY <1>9, <1>10 DEF After, s
<1>16. After(l, c, w) = Cat(e, d)
  BY <1>6, <1>13 DEF After
<1> HIDE DEF G, e, d
<1>17. ListOf(Cat(e, d), Spot)
  BY <1>10, <1>11, CatIsList
<1>18. Cat(Cat(G, e), d) = Cat(G, Cat(e, d))
  BY <1>9, <1>10, <1>11, CatRegroups
<1>19. ListOf(Cat(G, Cat(e, d)), Spot)
  BY <1>9, <1>17, CatIsList
<1> DEFINE V == Cat(e, d)
<1>20. After(ks, c, w) = Cat(<<>>, Cat(G, V)) /\ After(l, c, w) = Cat(<<>>, V) /\ ListOf(V, Spot) /\ ListOf(<<>>, Spot)
  BY <1>15, <1>16, <1>17, <1>18, <1>19, CatNothing, Marks
<1> HIDE DEF V
<1>21. l[c].items[w] = ks[c].items[w]
  BY <1>6, <1>13 DEF s
<1>22. QED
  BY <1>12, <1>14, <1>20, <1>21 DEF Took, G

(* It is the first one of the next text, if the accent is the last of its  *)
(* own or another accent follows it.                                       *)
LEMMA TakenFromNext ==
  ASSUME NEW ks, ListOf(ks, AnyNode), NEW c \in Nat \ {0}, NEW w, AtItem(ks, c, w),
         NEW n, n = c + 1, IsText(ks, n), 1 \in 1 .. Len(ks[n].items), NEW x, x = ks[n].items[1],
         w = Len(ks[c].items) \/ Blocked(ks, c, w),
         NEW l, l = WithoutChar(ks, <<n, 1>>)
  PROVE  Took(l, ks, c, w, PlacesOf(x.gs), 0) /\ l[c] = ks[c]
<1> DEFINE s == ks[c].items
           y == ks[n]
           z == y.items
           u == Unlink(z, 1)
           yl == l[n]
           f == NodeSays(<<>>)
           g == ItemSays(<<>>)
           a == ReadOff(g, RightOf(s, w))
           e == ReadOff(g, u)
           d == ReadOff(f, RightOf(ks, n))
           G == PlacesOf(x.gs)
<1>1. IsText(ks, c) /\ w \in 1 .. Len(s)
  BY DEF AtItem
<1>2. c \in 1 .. Len(ks) /\ ListOf(s, AnyItem) /\ Len(s) \in Nat
  BY <1>1, TextIs
<1>3. n \in 1 .. Len(ks) /\ ListOf(z, AnyItem) /\ x = z[1] /\ 1 \in 1 .. Len(z)
  BY TextIs
<1>4. Tells(g, AnyItem, Spot) /\ Tells(f, AnyNode, Spot) /\ ListOf(<<>>, Spot)
  BY Tellers, Marks
<1>5. l = [ks EXCEPT ![n].items = u]
  BY DEF WithoutChar
<1> HIDE DEF z
<1>6. ListOf(u, AnyItem) /\ ReadOff(g, z) = Cat(g[x], e) /\ ListOf(g[x], Spot) /\ ListOf(e, Spot)
  <2> HIDE DEF g
  <2>1. QED
    BY <1>3, <1>4, UnlinkFirst
<1> HIDE DEF u, e
<1>7. ItemsOut(l, ks, n, u)
  BY <1>5, <1>6, ItemsChanged
<1>8. ListOf(l, AnyNode) /\ Len(l) = Len(ks) /\ IsText(l, n) /\ yl.items = u /\ RightOf(l, n) = RightOf(ks, n)
  BY <1>7 DEF ItemsOut
<1>9. l[c] = ks[c] /\ \A i \in 1 .. c - 1 : l[i] = ks[i]
  <2>1. c # n /\ \A i \in 1 .. c - 1 : i \in 1 .. Len(ks) /\ i # n
    BY <1>2
  <2>2. QED
    BY <1>2, <1>7, <2>1 DEF ItemsOut
<1>10. x \in AnyItem
  <2>1. z[1] \in AnyItem
    BY ONLY <1>3, ElementIs
  <2>2. QED
    BY <1>3, <2>1
<1>11. g[x] = G /\ ListOf(G, Spot)
  BY <1>10, Tellers
<1>12. ListOf(a, Spot)
  BY SidesAre
<1>13. f[y] = ReadOff(g, z) /\ f[yl] = e
  <2>1. y = ks[n] /\ yl = l[n]
    OBVIOUS
  <2> HIDE DEF y, yl
  <2>2. NodeSays(<<>>)[y] = ItemsSay(<<>>, y.items)
    BY <1>4, <2>1, TextSays
  <2>3. NodeSays(<<>>)[yl] = ItemsSay(<<>>, yl.items)
    BY <1>4, <1>8, <2>1, TextSays
  <2>4. QED
    BY <1>8, <2>2, <2>3 DEF ItemsSay, z, e
<1>14. ReadOff(f, RightOf(ks, c)) = Cat(f[y], d) /\ ListOf(d, Spot)
  <2>1. y = ks[n] /\ c \in Nat
    OBVIOUS
  <2> HIDE DEF f, y
  <2>2. QED
    BY <1>3, <1>4, <2>1, NextRead
<1>15. ReadOff(f, RightOf(l, c)) = Cat(f[yl], d)
  <2>1. yl = l[n] /\ c \in Nat /\ n \in 1 .. Len(l)
    BY <1>3, <1>8
  <2> HIDE DEF f, yl
  <2>2. ReadOff(f, RightOf(l, c)) = Cat(f[yl], ReadOff(f, RightOf(l, n)))
    BY <1>4, <1>8, <2>1, NextRead
  <2>3. QED
    BY <1>8, <2>2
<1>16. LeftOf(l, c) = LeftOf(ks, c)
  <2>1. c \in 1 .. Len(l) /\ c \in 1 .. Len(ks)
    BY <1>2, <1>8
  <2>2. ListOf(ks, AnyNode) /\ ListOf(l, AnyNode) /\ \A i \in 1 .. c - 1 : l[i] = ks[i]
    BY <1>8, <1>9
  <2>3. QED
    BY ONLY <2>1, <2>2, LeftAlike
<1>17. Ahead(l, ks, c, w, 0)
  <2>1. 0 \in 0 .. Len(s) - w
    BY <1>1, <1>2
  <2>2. w + 0 = w
    BY <1>1
  <2>3. AtItem(l, c, w)
    BY <1>1, <1>2, <1>8, <1>9 DEF AtItem, IsText
  <2>4. QED
    BY <1>8, <1>9, <2>1, <2>2, <2>3 DEF Ahead
<1>18. Upto(l, c, w) = Upto(ks, c, w)
  BY <1>9, <1>16 DEF Upto
<1>19. After(ks, c, w) = Cat(a, Cat(Cat(G, e), d))
  BY <1>6, <1>11, <1>13, <1>14 DEF After
<1>20. After(l, c, w) = Cat(a, Cat(e, d))
  BY <1>9, <1>13, <1>15 DEF After
<1>21. ~Blocked(ks, c, w) => a = <<>>
  <2>1. SUFFICES ASSUME w = Len(s) PROVE a = <<>>
    OBVIOUS
  <2>2. RightOf(s, w) = <<>>
    <3> DEFINE i == w + 1
               j == Len(s)
    <3>1. i \in Int /\ j \in Int /\ j < i
      BY <1>2, <2>1
    <3>2. RightOf(s, w) = SubSeq(s, i, j)
      BY DEF RightOf
    <3> HIDE DEF i, j
    <3>3. QED
      BY <3>1, <3>2, SubSeqEmpty
  <2>3. QED
    BY <2>2, ReadNothing
<1> HIDE DEF a, d, G
<1> DEFINE V == Cat(e, d)
<1>22. ListOf(V, Spot)
  BY <1>6, <1>14, CatIsList
<1>23. Cat(Cat(G, e), d) = Cat(G, V)
  BY <1>6, <1>11, <1>14, CatRegroups
<1>24. After(ks, c, w) = Cat(a, Cat(G, V)) /\ After(l, c, w) = Cat(a, V)
  BY <1>19, <1>20, <1>23
<1> HIDE DEF V
<1>25. l[c].items[w] = ks[c].items[w]
  BY <1>9
<1>26. QED
  BY <1>9, <1>12, <1>17, <1>18, <1>21, <1>22, <1>24, <1>25 DEF Took, G

(* get_char_from_next_text, whichever of the two. *)
TookChar(l, ks, c, w, x) ==
  \E k \in {0, 1} : /\ Took(l, ks, c, w, PlacesOf(x.gs), k)
                    /\ k = 0 => l[c] = ks[c]
                    /\ k = 1 => w + 1 \in 1 .. Len(ks[c].items) /\ x = ks[c].items[w + 1]

LEMMA TookOne ==
  ASSUME NEW ks, ListOf(ks, AnyNode), NEW c \in Nat \ {0}, NEW w, AtItem(ks, c, w), NEW a, a[1] = c, a[2] = w,
         NEW s, s = Source(ks, a), HasChar(ks, s), NEW x, x = CharAt(ks, s), NEW l, l = WithoutChar(ks, s)
  PROVE  /\ x \in AnyItem /\ x.k # "accent"
         /\ TookChar(l, ks, c, w, x)
<1> DEFINE items == ks[c].items
           v == w + 1
           n == c + 1
<1>1. IsText(ks, c) /\ w \in 1 .. Len(items)
  BY DEF AtItem
<1>2. ListOf(items, AnyItem) /\ Len(items) \in Nat
  BY <1>1, TextIs
<1>3. CASE OwnNext(ks, a)
  <2>1. s = <<c, v>>
    BY <1>3 DEF Source
  <2>2. w < Len(items) /\ items[v].k # "accent"
    BY <1>3 DEF OwnNext
  <2>3. v \in 1 .. Len(items)
    BY <1>1, <1>2, <2>2
  <2>4. x = items[v] /\ l = WithoutChar(ks, <<c, v>>)
    BY <2>1 DEF CharAt
  <2>5. v = w + 1
    OBVIOUS
  <2> HIDE DEF v
  <2>6. x \in AnyItem
    <3> HIDE DEF items
    <3>1. items[v] \in AnyItem
      BY ONLY <1>2, <2>3, ElementIs
    <3>2. QED
      BY <2>4, <3>1
  <2>7. Took(l, ks, c, w, PlacesOf(x.gs), 1)
    BY <2>3, <2>4, <2>5, TakenOwn
  <2>8. QED
    BY <2>2, <2>3, <2>4, <2>5, <2>6, <2>7 DEF TookChar
<1>4. CASE ~OwnNext(ks, a)
  <2>1. s = <<n, 1>>
    BY <1>4 DEF Source
  <2> DEFINE other == ks[n].items
  <2>2. IsText(ks, n) /\ 1 <= Len(other) /\ other[1].k # "accent" /\ x = other[1] /\ l = WithoutChar(ks, <<n, 1>>)
    BY <2>1 DEF HasChar, CharAt
  <2>3. n = c + 1
    OBVIOUS
  <2> HIDE DEF n
  <2>4. ListOf(other, AnyItem) /\ 1 \in 1 .. Len(other)
    <3>1. ListOf(other, AnyItem) /\ Len(other) \in Nat
      BY <2>2, TextIs
    <3>2. QED
      BY <2>2, <3>1
  <2>5. x \in AnyItem
    <3> HIDE DEF other
    <3>1. other[1] \in AnyItem
      BY ONLY <2>4, ElementIs
    <3>2. QED
      BY <2>2, <3>1
  <2>6. w = Len(items) \/ Blocked(ks, c, w)
    <3>1. SUFFICES ASSUME w # Len(items) PROVE Blocked(ks, c, w)
      OBVIOUS
    <3>2. w < Len(items) /\ v \in 1 .. Len(items)
      BY <1>1, <1>2, <3>1
    <3>3. items[v].k = "accent"
      BY <1>4, <3>2 DEF OwnNext
    <3>4. QED
      BY <3>2, <3>3 DEF Blocked
  <2>7. Took(l, ks, c, w, PlacesOf(x.gs), 0) /\ l[c] = ks[c]
    BY <2>2, <2>3, <2>4, <2>6, TakenFromNext
  <2>8. QED
    BY <2>2, <2>5, <2>7 DEF TookChar
<1>5. QED
  BY <1>3, <1>4

----------------------------------------------------------------------------
(* Two accents with at most one letter between them are not spread. *)
LEMMA MarksNear ==
  ASSUME NEW a, NEW b, ListOf(a, Spot), ListOf(b, Spot), Len(a) <= 1,
         Spread(Cat(<<Mark>>, Cat(a, Cat(<<Mark>>, b))))
  PROVE  FALSE
<1> DEFINE m == <<Mark>>
           u == Cat(m, b)
           v == Cat(a, u)
           s == Cat(m, v)
           q == Len(a) + 2
<1>1. ListOf(m, Spot) /\ Len(m) = 1 /\ m[1] = Mark
  BY Marks
<1> HIDE DEF m
<1>2. Joins(u, m, b) /\ ListOf(u, Spot)
  BY <1>1, CatJoins, CatIsList
<1> HIDE DEF u
<1>3. Joins(v, a, u) /\ ListOf(v, Spot)
  BY <1>2, CatJoins, CatIsList
<1> HIDE DEF v
<1>4. Joins(s, m, v)
  BY <1>1, <1>3, CatJoins
<1> HIDE DEF s
<1>5. Len(a) \in {0, 1} /\ Len(b) \in Nat /\ Len(u) = 1 + Len(b) /\ Len(v) = Len(a) + Len(u) /\ Len(s) = 1 + Len(v)
  <2>1. Len(a) \in Nat /\ Len(a) <= 1
    BY <1>3 DEF Joins
  <2>2. Len(b) \in Nat /\ Len(u) = 1 + Len(b)
    BY <1>1, <1>2 DEF Joins
  <2>3. Len(v) = Len(a) + Len(u)
    BY <1>3 DEF Joins
  <2>4. Len(s) = 1 + Len(v)
    BY <1>1, <1>4 DEF Joins
  <2>5. QED
    BY <2>1, <2>2, <2>3, <2>4
<1>6. s[1] = Mark
  BY <1>1, <1>4, <1>5 DEF Joins
<1>7. s[q] = Mark
  <2> DEFINE p == Len(a) + 1
  <2>1. u[1] = Mark
    BY <1>1, <1>2, <1>5 DEF Joins
  <2>2. p \in 1 .. Len(a) + Len(u) /\ ~(p <= Len(a)) /\ p - Len(a) = 1
    BY <1>5
  <2>3. v[p] = u[p - Len(a)]
    <3> HIDE DEF p
    <3>1. QED
      BY <1>3, <2>2 DEF Joins
  <2>4. q \in 1 .. Len(m) + Len(v) /\ ~(q <= Len(m)) /\ q - Len(m) = p
    BY <1>1, <1>5
  <2> HIDE DEF p, q
  <2>5. s[q] = v[q - Len(m)]
    BY <1>4, <2>4 DEF Joins
  <2>6. QED
    BY <2>1, <2>2, <2>3, <2>4, <2>5
<1>8. 1 \in 1 .. Len(s) /\ q \in 1 .. Len(s) /\ 1 < q /\ ~(q - 1 >= 3)
  BY <1>5
<1>9. Spread(s)
  BY DEF s, v, u, m
<1> HIDE DEF q
<1>10. QED
  BY <1>6, <1>7, <1>8, <1>9 DEF Spread

(* A new accent says its mark only. *)
LEMMA FreshAccent ==
  ASSUME NEW x \in FreshItem, x.k = "accent"
  PROVE  /\ x = Accent(<<>>) /\ x \in AnyItem /\ x.gs = <<>>
         /\ ItemSays(<<Mark>>)[x] = <<Mark>>
<1>1. x = Accent(<<>>)
  BY DEF FreshItem, CharItem, NewAccent
<1>2. x \in AnyItem
  BY ItemsGrow
<1>3. x.gs = <<>>
  BY <1>1 DEF Accent
<1>4. ListOf(<<Mark>>, Spot)
  BY Marks
<1>5. ItemSays(<<Mark>>)[x] = Cat(<<Mark>>, PlacesOf(x.gs))
  BY <1>2, <1>4, ItemsTell
<1>6. Cat(<<Mark>>, <<>>) = <<Mark>>
  BY <1>4, CatNothing
<1>7. QED
  BY <1>1, <1>2, <1>3, <1>5, <1>6, NoPlaces

(* So behind an accent neither the next item nor the one after a single    *)
(* letter is an accent, but for stacked accents.                           *)
LEMMA AccentsApart ==
  ASSUME ~Stacked, NEW t, Well(t), NEW j \in {2, 3}, j <= Len(t), t[1].k = "accent", t[j].k = "accent",
         j = 3 => t[2].k # "accent" /\ Len(t[2].gs) <= 1
  PROVE  FALSE
<1> DEFINE g == ItemSays(<<Mark>>)
           one == 1
           two == 2
           three == 3
           x == t[one]
           y == t[two]
           z == t[three]
           r(i) == ReadOff(g, RightOf(t, i))
<1>1. ListOf(t, FreshItem) /\ ListOf(t, AnyItem) /\ Len(t) \in Nat
  BY ListGrows, ItemsGrow, LenProperties DEF Well, ListOf
<1>2. Tells(g, AnyItem, Spot) /\ ListOf(<<Mark>>, Spot)
  BY ItemsTell, Marks
<1>3. one \in 1 .. Len(t) /\ two \in 1 .. Len(t) /\ one \in Nat /\ two = one + 1 /\ two \in Nat /\ three = two + 1
  BY <1>1
<1>4. x \in FreshItem /\ y \in FreshItem
  <2> HIDE DEF one, two
  <2>1. QED
    BY ONLY <1>1, <1>3, ElementIs DEF x, y
<1>5. g[x] = <<Mark>>
  <2>1. x.k = "accent"
    OBVIOUS
  <2> HIDE DEF x
  <2>2. QED
    BY <1>4, <2>1, FreshAccent
<1>6. ReadOff(g, t) = Cat(g[x], r(one))
  <2>1. LeftOf(t, one) = <<>>
    <3>1. one - 1 \in Int /\ one - 1 < 1 /\ 1 \in Int
      OBVIOUS
    <3>2. QED
      BY <3>1, SubSeqEmpty DEF LeftOf
  <2> HIDE DEF one
  <2>2. x = t[one]
    OBVIOUS
  <2> HIDE DEF x, g
  <2>3. ReadOff(g, t) = Cat(ReadOff(g, LeftOf(t, one)), Cat(g[x], ReadOff(g, RightOf(t, one))))
    BY ONLY <1>1, <1>2, <1>3, <2>2, ReadParts
  <2>4. ListOf(RightOf(t, one), AnyItem)
    BY ONLY <1>1, <1>3, RightIs
  <2>5. ListOf(r(one), Spot)
    BY <1>2, <2>4, ReadIsList
  <2>6. ListOf(Cat(g[x], r(one)), Spot)
    BY <1>2, <1>5, <2>5, CatIsList
  <2>7. QED
    BY <2>1, <2>3, <2>6, ReadNothing, CatNothing
<1>7. r(one) = Cat(g[y], r(two)) /\ ListOf(g[y], Spot) /\ ListOf(r(two), Spot)
  <2> HIDE DEF one, two
  <2>1. y = t[two]
    OBVIOUS
  <2> HIDE DEF y, g
  <2>2. QED
    BY ONLY <1>1, <1>2, <1>3, <2>1, NextRead
<1>8. Spread(ReadOff(g, t))
  BY DEF Well, ItemsSay
<1>9. CASE j = 2
  <2>1. y.k = "accent"
    BY <1>9
  <2> HIDE DEF y
  <2>2. g[y] = <<Mark>>
    BY <1>4, <2>1, FreshAccent
  <2> HIDE DEF g, x, one, two
  <2>3. Spread(Cat(<<Mark>>, Cat(<<Mark>>, r(two))))
    BY <1>5, <1>6, <1>7, <1>8, <2>2
  <2> DEFINE b == r(two)
             u == Cat(<<Mark>>, b)
  <2>4. ListOf(b, Spot) /\ ListOf(<<>>, Spot) /\ Len(<<>>) <= 1
    BY <1>7, Marks
  <2> HIDE DEF b
  <2>5. ListOf(u, Spot)
    BY <1>2, <2>4, CatIsList
  <2>6. Cat(<<>>, u) = u
    BY <2>5, CatNothing
  <2>7. Spread(Cat(<<Mark>>, Cat(<<>>, Cat(<<Mark>>, b))))
    BY <2>3, <2>6 DEF b
  <2>8. QED
    BY ONLY <2>4, <2>7, MarksNear
<1>10. CASE j = 3
  <2>1. three \in 1 .. Len(t)
    BY <1>1, <1>10
  <2>2. z \in FreshItem
    <3> HIDE DEF three
    <3>1. QED
      BY ONLY <1>1, <2>1, ElementIs DEF z
  <2>3. z.k = "accent" /\ y.k # "accent" /\ Len(y.gs) <= 1
    BY <1>10
  <2>4. g[z] = <<Mark>>
    <3> HIDE DEF z
    <3>1. QED
      BY <2>2, <2>3, FreshAccent
  <2>5. g[y] = PlacesOf(y.gs) /\ Len(g[y]) <= 1
    <3> HIDE DEF y
    <3>1. y \in AnyItem
      BY <1>4, ItemsGrow
    <3>2. g[y] = PlacesOf(y.gs)
      BY <1>2, <2>3, <3>1, ItemsTell
    <3>3. Len(PlacesOf(y.gs)) = Len(y.gs)
      BY <3>1, ItemIs, PlacesAre
    <3>4. QED
      BY <2>3, <3>2, <3>3
  <2>6. r(two) = Cat(g[z], r(three)) /\ ListOf(r(three), Spot)
    <3> HIDE DEF two, three
    <3>1. z = t[three]
      OBVIOUS
    <3> HIDE DEF z, g
    <3>2. QED
      BY ONLY <1>1, <1>2, <1>3, <2>1, <3>1, NextRead
  <2> HIDE DEF x, y, z, g, one, two, three
  <2> DEFINE b == r(three)
             a == g[y]
  <2>7. Spread(Cat(<<Mark>>, Cat(a, Cat(<<Mark>>, b))))
    BY <1>5, <1>6, <1>7, <1>8, <2>4, <2>6
  <2>8. ListOf(a, Spot) /\ ListOf(b, Spot) /\ Len(a) <= 1
    BY <1>7, <2>5, <2>6
  <2> HIDE DEF a, b
  <2>9. QED
    BY ONLY <2>7, <2>8, MarksNear
<1>11. QED
  BY <1>9, <1>10

(* The accent at which transform_accent_tags is. *)
AccentHere(ks, c, w) ==
  /\ ListOf(ks, AnyNode) /\ AtItem(ks, c, w)
  /\ ks[c].items[w].k = "accent"
  /\ Well(SubSeq(ks[c].items, w, Len(ks[c].items)))

(* No accent follows at once, nor after one letter was taken. *)
LEMMA NotBlocked ==
  ASSUME ~Stacked, NEW ks, NEW c, NEW w, AccentHere(ks, c, w)
  PROVE  ~Blocked(ks, c, w)
<1> DEFINE s == ks[c].items
           n == Len(s)
           t == SubSeq(s, w, n)
<1>1. ListOf(s, AnyItem) /\ n \in Nat /\ w \in 1 .. n /\ s[w].k = "accent" /\ Well(t)
  BY TextIs DEF AccentHere, AtItem
<1> SUFFICES ASSUME Blocked(ks, c, w) PROVE FALSE
  OBVIOUS
<1>2. w < n /\ s[w + 1].k = "accent"
  BY DEF Blocked
<1> HIDE DEF s
<1>3. Len(t) = n - w + 1 /\ \A i \in 1 .. n - w + 1 : t[i] = s[w + i - 1]
  BY ONLY <1>1, SuffixAt DEF t, n
<1> HIDE DEF t, n
<1>4. 1 \in 1 .. n - w + 1 /\ 2 \in 1 .. n - w + 1 /\ w + 1 - 1 = w /\ w + 2 - 1 = w + 1
  BY <1>1, <1>2
<1>5. t[1] = s[w] /\ t[2] = s[w + 1] /\ 2 <= Len(t)
  BY <1>1, <1>3, <1>4
<1>6. QED
  BY <1>1, <1>2, <1>5, AccentsApart

LEMMA NotBlockedThen ==
  ASSUME ~Stacked, NEW ks, NEW c, NEW w, AccentHere(ks, c, w), NEW l, Ahead(l, ks, c, w, 1),
         NEW v, v = w + 1, v \in 1 .. Len(ks[c].items), NEW x, x = ks[c].items[v], x.k # "accent", Len(x.gs) <= 1
  PROVE  ~Blocked(l, c, w)
<1> DEFINE s == ks[c].items
           n == Len(s)
           t == SubSeq(s, w, n)
           u == l[c].items
           m == Len(u)
<1>1. ListOf(s, AnyItem) /\ n \in Nat /\ w \in 1 .. n /\ s[w].k = "accent" /\ Well(t)
  BY TextIs DEF AccentHere, AtItem
<1>2. v \in 1 .. n /\ s[v].k # "accent" /\ Len(s[v].gs) <= 1
  OBVIOUS
<1>3. ListOf(u, AnyItem) /\ m \in Nat /\ w \in 1 .. m /\ RightOf(u, w) = RightOf(s, v)
  BY TextIs DEF Ahead, AtItem
<1> SUFFICES ASSUME Blocked(l, c, w) PROVE FALSE
  OBVIOUS
<1>4. w < m /\ u[v].k = "accent"
  BY DEF Blocked
<1> HIDE DEF s, u
<1>5. Len(t) = n - w + 1 /\ \A i \in 1 .. n - w + 1 : t[i] = s[w + i - 1]
  BY ONLY <1>1, SuffixAt DEF t, n
<1>6. Len(RightOf(u, w)) = m - w /\ \A i \in 1 .. m - w : RightOf(u, w)[i] = u[w + i]
  <2>1. ListOf(u, AnyItem) /\ w \in 1 .. Len(u)
    BY <1>3
  <2>2. QED
    BY ONLY <2>1, RightIs DEF m
<1>7. Len(RightOf(s, v)) = n - v /\ \A i \in 1 .. n - v : RightOf(s, v)[i] = s[v + i]
  BY ONLY <1>1, <1>2, RightIs DEF n
<1> HIDE DEF t, n, m
<1>8. n - v = m - w /\ 1 \in 1 .. m - w
  BY <1>1, <1>3, <1>4, <1>6, <1>7
<1>9. RightOf(u, w)[1] = u[w + 1] /\ RightOf(s, v)[1] = s[v + 1]
  BY <1>6, <1>7, <1>8
<1>10. s[v + 1].k = "accent"
  BY <1>3, <1>4, <1>9
<1>11. v = w + 1 /\ w \in Int /\ v + 1 = w + 3 - 1 /\ v = w + 2 - 1 /\ w = w + 1 - 1
  BY <1>1
<1>12. 1 \in 1 .. n - w + 1 /\ 2 \in 1 .. n - w + 1 /\ 3 \in 1 .. n - w + 1 /\ 3 <= Len(t)
  BY <1>1, <1>3, <1>4, <1>5, <1>8, <1>11
<1>13. t[1] = s[w] /\ t[2] = s[v] /\ t[3] = s[v + 1]
  BY <1>5, <1>11, <1>12
<1>14. QED
  BY <1>1, <1>2, <1>10, <1>12, <1>13, AccentsApart

----------------------------------------------------------------------------
(* The letters, and but for stacked accents their order. *)
Settles(r, s) == Len(r) = Len(s) /\ Elements(r) = Elements(s) /\ (~Stacked => r = s)

(* What settles reads the same letters. *)
LEMMA SettledReads ==
  ASSUME NEW r, NEW s, Settles(r, s), Reads(s)
  PROVE  Reads(r)
  BY DEF Settles, Reads

(* One letter is read earlier, and then a second one: nothing is passed    *)
(* over but for stacked accents.                                           *)
LEMMA MovedUp ==
  ASSUME NEW a, NEW b, NEW y, NEW c, ListOf(a, Spot), ListOf(b, Spot), ListOf(y, Spot), ListOf(c, Spot),
         ~Stacked => b = <<>>
  PROVE  Settles(Cat(a, Cat(y, Cat(b, c))), Cat(a, Cat(b, Cat(y, c))))
<1> DEFINE bc == Cat(b, c)
           yc == Cat(y, c)
           u == Cat(y, bc)
           v == Cat(b, yc)
           r == Cat(a, u)
           s == Cat(a, v)
<1>1. Len(bc) = Len(b) + Len(c) /\ Len(b) \in Nat /\ Len(c) \in Nat
  BY CatIs
<1>2. Len(yc) = Len(y) + Len(c) /\ Len(y) \in Nat
  BY CatIs
<1>3. Elements(bc) = Elements(b) \cup Elements(c)
  BY CatElements
<1>4. Elements(yc) = Elements(y) \cup Elements(c)
  BY CatElements
<1>5. ListOf(bc, Spot) /\ ListOf(yc, Spot)
  BY CatIsList
<1>6. ~Stacked => u = v
  <2>1. SUFFICES ASSUME b = <<>> PROVE u = v
    OBVIOUS
  <2>2. bc = c
    BY <2>1, CatNothing
  <2>3. v = yc
    BY <1>5, <2>1, CatNothing
  <2>4. QED
    BY <2>2, <2>3
<1> HIDE DEF bc, yc
<1>7. Len(u) = Len(y) + Len(bc)
  BY <1>5, CatIs
<1>8. Len(v) = Len(b) + Len(yc)
  BY <1>5, CatIs
<1>9. Elements(u) = Elements(y) \cup Elements(bc)
  BY <1>5, CatElements
<1>10. Elements(v) = Elements(b) \cup Elements(yc)
  BY <1>5, CatElements
<1>11. ListOf(u, Spot) /\ ListOf(v, Spot)
  BY <1>5, CatIsList
<1> HIDE DEF u, v
<1>12. Len(r) = Len(a) + Len(u)
  BY <1>11, CatIs
<1>13. Len(s) = Len(a) + Len(v)
  BY <1>11, CatIs
<1>14. Elements(r) = Elements(a) \cup Elements(u)
  BY <1>11, CatElements
<1>15. Elements(s) = Elements(a) \cup Elements(v)
  BY <1>11, CatElements
<1>16. ~Stacked => r = s
  BY <1>6
<1> HIDE DEF r, s
<1>17. Len(u) = Len(v)
  BY <1>1, <1>2, <1>7, <1>8
<1>18. Elements(u) = Elements(v)
  BY <1>3, <1>4, <1>9, <1>10
<1>19. Settles(r, s)
  BY <1>12, <1>13, <1>14, <1>15, <1>16, <1>17, <1>18 DEF Settles
<1>20. QED
  BY <1>19 DEF r, s, u, v, bc, yc

LEMMA MovedUpTwo ==
  ASSUME NEW a, NEW y, NEW z, NEW b, NEW c, NEW d, NEW e,
         ListOf(a, Spot), ListOf(y, Spot), ListOf(z, Spot), ListOf(b, Spot), ListOf(c, Spot), ListOf(d, Spot),
          ListOf(e, Spot),
         Cat(b, c) = Cat(d, Cat(z, e)), ~Stacked => b = <<>> /\ d = <<>>
  PROVE  Settles(Cat(a, Cat(Cat(y, z), Cat(d, e))), Cat(a, Cat(b, Cat(y, c))))
<1> DEFINE ay == Cat(a, y)
           yz == Cat(y, z)
           ze == Cat(z, e)
           de == Cat(d, e)
           bc == Cat(b, c)
           r == Cat(a, Cat(yz, de))
           s == Cat(a, Cat(b, Cat(y, c)))
           m == Cat(a, Cat(y, bc))
           x == Cat(d, ze)
<1>1. Settles(m, s)
  BY MovedUp
<1>2. ListOf(ay, Spot) /\ ListOf(ze, Spot) /\ ListOf(de, Spot)
  BY CatIsList
<1>3. Settles(Cat(ay, Cat(z, de)), Cat(ay, x))
  <2> HIDE DEF ay
  <2>1. QED
    BY <1>2, MovedUp
<1> HIDE DEF s
<1>4. ListOf(x, Spot)
  <2> HIDE DEF ze
  <2>1. QED
    BY <1>2, CatIsList
<1>5. bc = x
  OBVIOUS
<1> HIDE DEF bc, x
<1>6. m = Cat(ay, x)
  BY <1>4, <1>5, CatRegroups
<1> HIDE DEF m
<1>7. Cat(ay, Cat(z, de)) = r
  <2> HIDE DEF de
  <2> DEFINE w == Cat(z, de)
  <2>1. ListOf(w, Spot)
    BY <1>2, CatIsList
  <2>2. Cat(yz, de) = Cat(y, w)
    BY <1>2, CatRegroups
  <2> HIDE DEF w
  <2>3. Cat(a, Cat(y, w)) = Cat(ay, w)
    BY <2>1, CatRegroups
  <2> HIDE DEF yz, ay
  <2>4. QED
    BY <2>2, <2>3 DEF w
<1> HIDE DEF r
<1>8. Settles(r, s)
  BY <1>1, <1>3, <1>6, <1>7 DEF Settles
<1>9. QED
  BY <1>8 DEF r, s, yz, de

(* The w-th item of the c-th node says G. *)
PutIn(l, ks, c, w, G) ==
  /\ Ahead(l, ks, c, w, 0)
  /\ Says(<<>>, l) = Cat(Upto(ks, c, w), Cat(G, After(ks, c, w)))

(* An item is replaced. *)
LEMMA PutAt ==
  ASSUME NEW ks, ListOf(ks, AnyNode), NEW c, NEW w, AtItem(ks, c, w), NEW x \in AnyItem, NEW G, G = PlacesOf(x.gs),
         NEW l, l = [ks EXCEPT ![c].items[w] = x]
  PROVE  PutIn(l, ks, c, w, G)
<1> DEFINE s == ks[c].items
           t == [s EXCEPT ![w] = x]
<1>1. IsText(ks, c) /\ w \in 1 .. Len(s)
  BY DEF AtItem
<1>2. c \in 1 .. Len(ks) /\ ListOf(s, AnyItem) /\ Len(s) \in Nat
  BY <1>1, TextIs
<1>3. l = [ks EXCEPT ![c].items = t]
  OBVIOUS
<1>4. t = [s EXCEPT ![w] = x]
  OBVIOUS
<1>5. ListOf(t, AnyItem) /\ Changed(t, s, w, x)
  <2> HIDE DEF s, t
  <2>1. QED
    BY ONLY <1>1, <1>2, <1>4, x \in AnyItem, ChangedIs
<1> HIDE DEF t
<1>6. LeftOf(t, w) = LeftOf(s, w) /\ RightOf(t, w) = RightOf(s, w)
  <2> HIDE DEF s
  <2>1. QED
    BY ONLY <1>1, <1>2, <1>5, ChangedSides
<1>7. ItemsOut(l, ks, c, t)
  BY <1>1, <1>3, <1>5, ItemsChanged
<1>8. Len(t) = Len(s) /\ t[w] = x
  BY <1>5 DEF Changed
<1>9. /\ ListOf(l, AnyNode) /\ Len(l) = Len(ks) /\ IsText(l, c) /\ l[c].items = t
      /\ LeftOf(l, c) = LeftOf(ks, c) /\ RightOf(l, c) = RightOf(ks, c)
  BY <1>7 DEF ItemsOut
<1>10. AtItem(l, c, w)
  BY <1>1, <1>8, <1>9 DEF AtItem
<1>11. Ahead(l, ks, c, w, 0)
  <2>1. \A n \in 1 .. c - 1 : l[n] = ks[n]
    <3>1. \A n \in 1 .. c - 1 : n \in 1 .. Len(ks) /\ n # c
      BY <1>2
    <3>2. QED
      BY <1>7, <3>1 DEF ItemsOut
  <2>2. 0 \in 0 .. Len(s) - w /\ w + 0 = w
    BY <1>1, <1>2
  <2>3. QED
    BY <1>6, <1>9, <1>10, <2>1, <2>2 DEF Ahead, s
<1>12. x = l[c].items[w]
  BY <1>8, <1>9
<1>13. Says(<<>>, l) = Cat(Upto(l, c, w), Cat(PlacesOf(x.gs), After(l, c, w)))
  BY ONLY <1>9, <1>10, <1>12, PlaceSays
<1>14. Upto(l, c, w) = Upto(ks, c, w) /\ After(l, c, w) = After(ks, c, w)
  BY <1>6, <1>9 DEF Upto, After, s
<1>15. QED
  BY <1>11, <1>13, <1>14 DEF PutIn

(* Behind the accent first k items are gone, then j more. *)
LEMMA AheadThen ==
  ASSUME NEW ks, ListOf(ks, AnyNode), NEW c, NEW w \in Nat, AtItem(ks, c, w), NEW r, NEW l,
         NEW k \in Nat, NEW j \in Nat, NEW i, i = k + j,
         Ahead(r, ks, c, w, k), Ahead(l, r, c, w, j)
  PROVE  Ahead(l, ks, c, w, i)
<1> DEFINE s == ks[c].items
           t == r[c].items
           u == l[c].items
           n == Len(s)
           m == Len(t)
<1>1. ListOf(s, AnyItem) /\ n \in Nat /\ w \in 1 .. n
  BY TextIs DEF AtItem
<1>2. ListOf(t, AnyItem) /\ m \in Nat /\ w \in 1 .. m /\ k \in 0 .. n - w /\ RightOf(t, w) = RightOf(s, w + k)
  BY TextIs DEF Ahead, AtItem
<1>3. j \in 0 .. m - w /\ RightOf(u, w) = RightOf(t, w + j)
  BY DEF Ahead
<1>4. Len(l) = Len(ks) /\ (\A p \in 1 .. c - 1 : l[p] = ks[p]) /\ ListOf(l, AnyNode) /\ AtItem(l, c, w)
  BY DEF Ahead
<1>5. m - w = n - (w + k)
  <2> DEFINE p == w + k
  <2>1. p \in 1 .. n
    BY <1>1, <1>2
  <2> HIDE DEF p
  <2>2. Len(RightOf(s, p)) = n - p
    BY ONLY <1>1, <2>1, RightIs DEF n
  <2>3. Len(RightOf(t, w)) = m - w
    BY ONLY <1>2, RightIs DEF m
  <2>4. RightOf(t, w) = RightOf(s, p)
    BY <1>2 DEF p
  <2>5. QED
    BY <2>2, <2>3, <2>4 DEF p
<1>6. i \in 0 .. n - w /\ w + i \in Nat
  <2> HIDE DEF n, m
  <2>1. n \in Nat /\ m \in Nat /\ w \in 1 .. n /\ w \in 1 .. m /\ k \in 0 .. n - w /\ j \in 0 .. m - w
    BY <1>1, <1>2, <1>3
  <2>2. QED
    BY ONLY <2>1, <1>5, i = k + j
<1>7. RightOf(t, w + j) = RightOf(s, w + i)
  <2> DEFINE p == w + 1
             q == w + j + 1
             y == SubSeq(t, p, m)
             e == w + k + 1
             f == w + i + 1
             z == SubSeq(s, e, n)
  <2>1. y = z
    BY <1>2 DEF RightOf
  <2>2. RightOf(t, w + j) = SubSeq(t, q, m) /\ RightOf(s, w + i) = SubSeq(s, f, n)
    BY DEF RightOf
  <2>3. p \in 1 .. m + 1 /\ q \in p .. m + 1 /\ q - p = j
    BY <1>2, <1>3
  <2>4. e \in 1 .. n + 1 /\ f \in e .. n + 1 /\ f - e = j
    <3> HIDE DEF n
    <3>1. n \in Nat /\ w \in 1 .. n /\ k \in 0 .. n - w
      BY <1>1, <1>2
    <3>2. i \in 0 .. n - w
      BY <1>6
    <3>3. j \in 0 .. n - w - k /\ i >= k
      BY ONLY <3>1, <3>2, i = k + j, j \in Nat
    <3>4. e \in 1 .. n + 1
      BY ONLY <3>1
    <3>5. f \in e .. n + 1
      BY ONLY <3>1, <3>2, <3>3
    <3>6. f - e = j
      BY ONLY <3>1, <3>2, i = k + j, j \in Nat
    <3>7. QED
      BY <3>4, <3>5, <3>6
  <2> HIDE DEF s, t, p, q, e, f
  <2>5. SubSeq(t, q, Len(t)) = RightOf(SubSeq(t, p, Len(t)), q - p)
    BY ONLY <1>2, <2>3, SuffixIs DEF m
  <2>6. SubSeq(s, f, Len(s)) = RightOf(SubSeq(s, e, Len(s)), f - e)
    BY ONLY <1>1, <2>4, SuffixIs DEF n
  <2>7. QED
    BY <2>1, <2>2, <2>3, <2>4, <2>5, <2>6 DEF y, z, m, n
<1>8. QED
  BY <1>3, <1>4, <1>6, <1>7 DEF Ahead

(* An accent that transform_accent_tags has not been at holds no glyph. *)
LEMMA AccentIsNew ==
  ASSUME NEW ks, NEW c, NEW w, AccentHere(ks, c, w)
  PROVE  ks[c].items[w] = Accent(<<>>) /\ PlacesOf(ks[c].items[w].gs) = <<>>
<1> DEFINE s == ks[c].items
           t == SubSeq(s, w, Len(s))
           x == s[w]
<1>1. ListOf(s, AnyItem) /\ Len(s) \in Nat /\ w \in 1 .. Len(s) /\ x.k = "accent" /\ ListOf(t, FreshItem)
  BY TextIs DEF AccentHere, AtItem, Well
<1>2. t = SubSeq(s, w, Len(s)) /\ x = s[w]
  OBVIOUS
<1> HIDE DEF s, t, x
<1>3. Len(t) = Len(s) - w + 1 /\ \A i \in 1 .. Len(s) - w + 1 : t[i] = s[w + i - 1]
  BY ONLY <1>1, <1>2, SuffixAt
<1>4. 1 \in 1 .. Len(s) - w + 1 /\ w + 1 - 1 = w
  BY <1>1
<1>5. x = t[1] /\ 1 \in 1 .. Len(t)
  BY <1>2, <1>3, <1>4
<1>6. t[1] \in FreshItem
  BY ONLY <1>1, <1>5, ElementIs
<1>7. x \in FreshItem
  BY <1>5, <1>6
<1>8. x = Accent(<<>>) /\ x.gs = <<>>
  BY <1>1, <1>7, FreshAccent
<1>9. QED
  BY <1>8, NoPlaces DEF x, s

(* One character, and below two, become what stands for the accent: the    *)
(* list says the same letters.                                             *)
LEMMA OneTaken ==
  ASSUME NEW ks, NEW c, NEW w \in Nat, AccentHere(ks, c, w), NEW x \in AnyItem, NEW G, G = PlacesOf(x.gs), ListOf(G, Spot),
         NEW r, NEW k \in Nat, Took(r, ks, c, w, G, k),
         NEW l, l = [r EXCEPT ![c].items[w] = x]
  PROVE  Ahead(l, ks, c, w, k) /\ Settles(Says(<<>>, l), Says(<<>>, ks))
<1> DEFINE y == ks[c].items[w]
           U == Upto(ks, c, w)
           s == Says(<<>>, ks)
           t == Says(<<>>, l)
<1>1. ListOf(ks, AnyNode) /\ AtItem(ks, c, w)
  BY DEF AccentHere
<1>2. PlacesOf(y.gs) = <<>>
  BY AccentIsNew
<1>3. PICK V1, V2 : /\ ListOf(V1, Spot) /\ ListOf(V2, Spot)
                    /\ After(ks, c, w) = Cat(V1, Cat(G, V2)) /\ After(r, c, w) = Cat(V1, V2)
                    /\ ~Blocked(ks, c, w) => V1 = <<>>
  BY DEF Took
<1>4. Ahead(r, ks, c, w, k) /\ Upto(r, c, w) = U
  BY DEF Took
<1>5. ListOf(r, AnyNode) /\ AtItem(r, c, w)
  BY <1>4 DEF Ahead
<1>6. ListOf(U, Spot) /\ ListOf(After(ks, c, w), Spot) /\ ListOf(<<>>, Spot)
  BY <1>1, SidesAre, Marks
<1>7. y = ks[c].items[w]
  OBVIOUS
<1> HIDE DEF y, s, t
<1>8. s = Cat(U, Cat(PlacesOf(y.gs), After(ks, c, w)))
  BY <1>1, <1>7, PlaceSays DEF s
<1> HIDE DEF U
<1>9. s = Cat(U, Cat(V1, Cat(G, V2)))
  BY <1>2, <1>3, <1>6, <1>8, CatNothing
<1>10. Ahead(l, r, c, w, 0) /\ t = Cat(Upto(r, c, w), Cat(PlacesOf(x.gs), After(r, c, w)))
  <2> DEFINE g == PlacesOf(x.gs)
  <2>1. ListOf(r, AnyNode) /\ AtItem(r, c, w) /\ x \in AnyItem /\ l = [r EXCEPT ![c].items[w] = x]
    BY <1>5
  <2>2. g = PlacesOf(x.gs)
    OBVIOUS
  <2> HIDE DEF g
  <2>3. PutIn(l, r, c, w, g)
    BY ONLY <2>1, <2>2, PutAt
  <2>4. QED
    BY <2>2, <2>3 DEF t, PutIn
<1>11. t = Cat(U, Cat(G, Cat(V1, V2)))
  BY <1>3, <1>4, <1>10
<1>12. ~Stacked => V1 = <<>>
  BY <1>3, NotBlocked
<1>13. Settles(t, s)
  BY <1>3, <1>6, <1>9, <1>11, <1>12, MovedUp
<1>14. Ahead(l, ks, c, w, k)
  <2>1. 0 \in Nat /\ k = k + 0
    OBVIOUS
  <2>2. QED
    BY <1>1, <1>4, <1>10, <2>1, AheadThen
<1>15. QED
  BY <1>13, <1>14 DEF s, t

(* The second is taken from what is left by the first. *)
LEMMA TwoTaken ==
  ASSUME NEW ks, NEW c, NEW w \in Nat, AccentHere(ks, c, w), NEW x \in AnyItem, NEW G, NEW H, Cat(G, H) = PlacesOf(x.gs),
         ListOf(G, Spot), ListOf(H, Spot),
         NEW r, NEW k \in Nat, Took(r, ks, c, w, G, k), NEW q, NEW j \in Nat, Took(q, r, c, w, H, j),
         ~Stacked => ~Blocked(r, c, w),
         NEW i, i = k + j, NEW l, l = [q EXCEPT ![c].items[w] = x]
  PROVE  Ahead(l, ks, c, w, i) /\ Settles(Says(<<>>, l), Says(<<>>, ks))
<1> DEFINE y == ks[c].items[w]
           U == Upto(ks, c, w)
           s == Says(<<>>, ks)
           t == Says(<<>>, l)
<1>1. ListOf(ks, AnyNode) /\ AtItem(ks, c, w)
  BY DEF AccentHere
<1>2. PlacesOf(y.gs) = <<>>
  BY AccentIsNew
<1>3. PICK V1, V2 : /\ ListOf(V1, Spot) /\ ListOf(V2, Spot)
                    /\ After(ks, c, w) = Cat(V1, Cat(G, V2)) /\ After(r, c, w) = Cat(V1, V2)
                    /\ ~Blocked(ks, c, w) => V1 = <<>>
  BY DEF Took
<1>4. PICK W1, W2 : /\ ListOf(W1, Spot) /\ ListOf(W2, Spot)
                    /\ After(r, c, w) = Cat(W1, Cat(H, W2)) /\ After(q, c, w) = Cat(W1, W2)
                    /\ ~Blocked(r, c, w) => W1 = <<>>
  BY DEF Took
<1>5. Ahead(r, ks, c, w, k) /\ Upto(r, c, w) = U /\ Ahead(q, r, c, w, j) /\ Upto(q, c, w) = U
  BY DEF Took
<1>6. ListOf(r, AnyNode) /\ AtItem(r, c, w) /\ ListOf(q, AnyNode) /\ AtItem(q, c, w)
  BY <1>5 DEF Ahead
<1>7. ListOf(U, Spot) /\ ListOf(After(ks, c, w), Spot) /\ ListOf(<<>>, Spot)
  BY <1>1, SidesAre, Marks
<1>8. y = ks[c].items[w]
  OBVIOUS
<1> HIDE DEF y, s, t
<1>9. s = Cat(U, Cat(PlacesOf(y.gs), After(ks, c, w)))
  BY <1>1, <1>8, PlaceSays DEF s
<1> HIDE DEF U
<1>10. s = Cat(U, Cat(V1, Cat(G, V2)))
  BY <1>2, <1>3, <1>7, <1>9, CatNothing
<1>11. Ahead(l, q, c, w, 0) /\ t = Cat(Upto(q, c, w), Cat(PlacesOf(x.gs), After(q, c, w)))
  <2> DEFINE g == PlacesOf(x.gs)
  <2>1. ListOf(q, AnyNode) /\ AtItem(q, c, w) /\ x \in AnyItem /\ l = [q EXCEPT ![c].items[w] = x]
    BY <1>6
  <2>2. g = PlacesOf(x.gs)
    OBVIOUS
  <2> HIDE DEF g
  <2>3. PutIn(l, q, c, w, g)
    BY ONLY <2>1, <2>2, PutAt
  <2>4. QED
    BY <2>2, <2>3 DEF t, PutIn
<1>12. t = Cat(U, Cat(Cat(G, H), Cat(W1, W2)))
  BY <1>4, <1>5, <1>11
<1>13. ~Stacked => V1 = <<>> /\ W1 = <<>>
  BY <1>3, <1>4, NotBlocked
<1>14. Cat(V1, V2) = Cat(W1, Cat(H, W2))
  BY <1>3, <1>4
<1>15. Settles(t, s)
  BY <1>3, <1>4, <1>7, <1>10, <1>12, <1>13, <1>14, MovedUpTwo
<1>16. Ahead(l, ks, c, w, i)
  <2>1. 0 \in Nat /\ j = j + 0
    OBVIOUS
  <2>2. Ahead(l, r, c, w, j)
    BY <1>5, <1>6, <1>11, <2>1, AheadThen
  <2>3. QED
    BY <1>1, <1>5, <2>2, AheadThen
<1>17. QED
  BY <1>15, <1>16 DEF s, t

(* What a text says is spread if the document is. *)
LEMMA SpreadInTexts ==
  ASSUME ~Stacked, NEW ks, ListOf(ks, AnyNode), Spread(Says(<<Mark>>, ks)), NEW n, IsText(ks, n), NEW x, x = ks[n]
  PROVE  Spread(ItemsSay(<<Mark>>, x.items))
<1> DEFINE f == NodeSays(<<Mark>>)
           a == ReadOff(f, LeftOf(ks, n))
           b == ReadOff(f, RightOf(ks, n))
           y == f[x]
           yb == Cat(y, b)
<1>1. n \in 1 .. Len(ks) /\ x \in AnyNode
  BY TextIs
<1>2. Tells(f, AnyNode, Spot) /\ ListOf(<<Mark>>, Spot)
  BY Marks, NodesTell
<1>3. y = ItemsSay(<<Mark>>, x.items)
  BY <1>2, TextSays
<1>4. Spread(ReadOff(f, ks))
  BY DEF Says
<1> HIDE DEF f
<1>5. ReadOff(f, ks) = Cat(a, yb)
  BY <1>1, <1>2, ReadParts
<1>6. ListOf(LeftOf(ks, n), AnyNode) /\ ListOf(RightOf(ks, n), AnyNode)
  BY <1>1, LeftIs, RightIs
<1>7. ListOf(y, Spot)
  BY <1>1, <1>2 DEF Tells, ListOf
<1>8. ListOf(a, Spot)
  BY <1>2, <1>6, ReadIsList
<1>9. ListOf(b, Spot)
  BY <1>2, <1>6, ReadIsList
<1> HIDE DEF a, b, y
<1>10. ListOf(yb, Spot)
  BY <1>7, <1>9, CatIsList
<1>11. Spread(yb)
  <2> HIDE DEF yb
  <2>1. QED
    BY <1>4, <1>5, <1>8, <1>10, SpreadOfParts
<1>12. Spread(y)
  BY <1>7, <1>9, <1>11, SpreadOfParts
<1>13. QED
  BY <1>3, <1>12

(* When transform_accent_tags begins nothing has been tried. *)
LEMMA WalkWellFirst ==
  ASSUME NEW ks, ListOf(ks, NodesOf(FreshItem)), Faithful(ks), NEW c, c = Len(ks)
  PROVE  WalkWell(ks, c, <<c, 1>>) /\ ListOf(ks, AnyNode)
<1> DEFINE v == <<c, 1>>
<1>1. ListOf(ks, AnyNode)
  BY AnyNodes, ItemsGrow
<1>2. c \in 0 .. Len(ks)
  BY LenProperties DEF ListOf
<1>3. v[1] = c /\ v[2] = 1
  OBVIOUS
<1> HIDE DEF v
<1>4. ASSUME NEW n \in 1 .. c, IsText(ks, n)
      PROVE  Well(Untried(ks, c, v, n))
  <2> DEFINE x == ks[n]
             s == x.items
  <2>1. ListOf(s, FreshItem)
    <3>1. FreshItem \subseteq AnyItem /\ ListOf(<<>>, Spot)
      BY ItemsGrow, Marks
    <3>2. QED
      BY <1>4, <3>1, AtPlace
  <2>2. ~Stacked => Spread(ItemsSay(<<Mark>>, s))
    BY <1>1, <1>4, SpreadInTexts DEF Faithful
  <2>3. SubSeq(s, 1, Len(s)) = s
    <3> HIDE DEF s
    <3>1. QED
      BY <2>1, WholeIs
  <2>4. Untried(ks, c, v, n) = s
    BY <1>3, <2>3 DEF Untried
  <2>5. QED
    BY <2>1, <2>2, <2>4 DEF Well
<1>5. WalkWell(ks, c, v)
  BY <1>2, <1>3, <1>4 DEF WalkWell
<1>6. QED
  BY <1>1, <1>5 DEF v

(* The root's own accents. *)
LEMMA GlyphsAccentsStep == GlyphsInv /\ AccentsInTexts => GlyphsStep
<1> SUFFICES ASSUME GlyphsInv, AccentsInTexts PROVE GlyphsStep
  OBVIOUS
<1>1. /\ pc = "tags2" /\ pc' = "accent" /\ cursor' = Len(kids) /\ walk' = <<Len(kids), 1>>
      /\ src' = src /\ kids' = kids /\ stale' = stale
  BY DEF AccentsInTexts
<1>2. ~stale
  BY <1>1 DEF GlyphsInv, Late
<1>3. GlyphsAt("tags2", kids, cursor, fsm, walk)
  BY <1>1, <1>2 DEF GlyphsInv
<1>4. ListOf(kids, NodesOf(FreshItem)) /\ Faithful(kids)
  BY <1>3 DEF GlyphsAt, ItemsAt, Early
<1>5. WalkWell(kids, Len(kids), <<Len(kids), 1>>) /\ ListOf(kids, AnyNode)
  BY <1>4, WalkWellFirst
<1>6. GlyphsAt("accent", kids', cursor', fsm', walk')
  <2>1. Reads(Says(<<>>, kids))
    BY <1>4 DEF Faithful
  <2>2. ListOf(kids, NodesOf(AnyItem))
    BY <1>5 DEF AnyNode
  <2>3. QED
    BY <1>1, <1>5, <2>1, <2>2 DEF GlyphsAt, ItemsAt, Early
<1>7. QED
  BY <1>1, <1>2, <1>6 DEF GlyphsStep

----------------------------------------------------------------------------
(* transform_accent_tags once it has gone on from a freed node. *)
LEMMA GlyphsStaleStep ==
  ASSUME pc = "accent", stale, src' = src, pc' = "accent", stale'
  PROVE  GlyphsStep
  BY DEF GlyphsStep, Late

(* What is known of the walk. *)
LEMMA WalkIs ==
  ASSUME GlyphsInv, pc = "accent", ~stale, cursor >= 1
  PROVE  /\ ListOf(kids, AnyNode) /\ Reads(Says(<<>>, kids)) /\ WalkWell(kids, cursor, walk)
         /\ cursor \in Nat \ {0} /\ walk[1] = cursor /\ walk[2] \in Nat \ {0}
<1>1. GlyphsAt("accent", kids, cursor, fsm, walk)
  BY DEF GlyphsInv
<1>2. ListOf(kids, AnyNode) /\ Reads(Says(<<>>, kids)) /\ WalkWell(kids, cursor, walk)
  BY <1>1 DEF GlyphsAt, ItemsAt, Early, AnyNode
<1>3. Len(kids) \in Nat
  BY <1>2, LenProperties DEF ListOf
<1>4. QED
  BY <1>2, <1>3 DEF WalkWell

(* The steps of transform_accent_tags that change no node. *)
LEMMA GlyphsWalkStep == GlyphsInv /\ (PassItem \/ EndOfText \/ AccentsTransformed) => GlyphsStep
<1> SUFFICES ASSUME GlyphsInv, PassItem \/ EndOfText \/ AccentsTransformed PROVE GlyphsStep
  OBVIOUS
<1> DEFINE c == cursor
           w == walk[2]
<1>1. CASE PassItem
  <2>1. /\ pc = "accent" /\ c >= 1 /\ InWalk /\ src' = src /\ pc' = "accent" /\ kids' = kids
        /\ walk' = <<walk[1], w + 1>> /\ cursor' = c /\ stale' = stale
    BY <1>1 DEF PassItem, Walks, WalkOn, SameWalk, InAccents
  <2>2. CASE stale
    BY <2>1, <2>2, GlyphsStaleStep
  <2>3. CASE ~stale
    <3>1. /\ ListOf(kids, AnyNode) /\ Reads(Says(<<>>, kids)) /\ WalkWell(kids, c, walk)
          /\ c \in Nat \ {0} /\ walk[1] = c /\ w \in Nat \ {0}
      BY <2>1, <2>3, WalkIs
    <3>2. IsText(kids, c) /\ w <= Len(kids[c].items)
      BY <2>1, <3>1 DEF InWalk
    <3>3. Len(kids[c].items) \in Nat
      BY <3>1, <3>2, TextIs
    <3>4. AtItem(kids, c, w)
      BY <3>1, <3>2, <3>3 DEF AtItem
    <3>5. Ahead(kids, kids, c, w, 0)
      <4>1. w + 0 = w /\ 0 \in 0 .. Len(kids[c].items) - w
        BY <3>1, <3>2, <3>3
      <4>2. QED
        BY <3>1, <3>4, <4>1 DEF Ahead
    <3>6. w = walk[2]
      OBVIOUS
    <3> HIDE DEF c, w
    <3>7. WalkWell(kids, c, <<c, w + 1>>)
      BY ONLY <3>1, <3>4, <3>5, <3>6, GoOnWell
    <3>8. ListOf(kids, NodesOf(AnyItem))
      BY <3>1 DEF AnyNode
    <3>9. GlyphsAt("accent", kids', cursor', fsm', walk')
      BY <2>1, <3>1, <3>7, <3>8 DEF GlyphsAt, ItemsAt, Early
    <3>10. QED
      BY <2>1, <2>3, <3>9 DEF GlyphsStep
  <2>4. QED
    BY <2>2, <2>3
<1>2. CASE EndOfText
  <2>1. /\ pc = "accent" /\ c >= 1 /\ src' = src /\ pc' = "accent" /\ kids' = kids
        /\ walk' = <<c - 1, 1>> /\ cursor' = c - 1 /\ stale' = stale
    BY <1>2 DEF EndOfText, Walks, NextCall, InAccents
  <2>2. CASE stale
    BY <2>1, <2>2, GlyphsStaleStep
  <2>3. CASE ~stale
    <3>1. /\ ListOf(kids, AnyNode) /\ Reads(Says(<<>>, kids)) /\ WalkWell(kids, c, walk)
          /\ c \in Nat \ {0}
      BY <2>1, <2>3, WalkIs
    <3> HIDE DEF c
    <3>2. Len(kids) = Len(kids) /\ \A n \in 1 .. c - 1 : kids[n] = kids[n]
      OBVIOUS
    <3>3. WalkWell(kids, c - 1, <<c - 1, 1>>)
      BY ONLY <3>1, <3>2, CallWell
    <3>4. ListOf(kids, NodesOf(AnyItem))
      BY <3>1 DEF AnyNode
    <3>5. GlyphsAt("accent", kids', cursor', fsm', walk')
      BY <2>1, <3>1, <3>3, <3>4 DEF GlyphsAt, ItemsAt, Early
    <3>6. QED
      BY <2>1, <2>3, <3>5 DEF GlyphsStep
  <2>4. QED
    BY <2>2, <2>3
<1>3. CASE AccentsTransformed
  <2>1. pc = "accent" /\ src' = src /\ pc' = "merge" /\ cursor' = 1 /\ kids' = kids /\ stale' = stale
    BY <1>3 DEF AccentsTransformed, accentVars
  <2>2. ASSUME ~stale
        PROVE  GlyphsAt("merge", kids', cursor', fsm', walk')
    <3>1. GlyphsAt("accent", kids, cursor, fsm, walk)
      BY <2>1, <2>2 DEF GlyphsInv
    <3>2. QED
      BY <2>1, <3>1 DEF GlyphsAt, ItemsAt, Early
  <2>3. ~stale' => GlyphsAt(pc', kids', cursor', fsm', walk')
    BY <2>1, <2>2
  <2>4. QED
    BY <2>1, <2>3 DEF GlyphsStep, Late
<1>4. QED
  BY <1>1, <1>2, <1>3

(* Where transform_accent_tags goes on. *)
GoesOn(c, w) ==
  \/ stale'
  \/ cursor' = c /\ walk' = <<c, w + 1>>
  \/ cursor' = c - 1 /\ walk' = <<c - 1, 1>>

(* What is known of the accent the walk is at. *)
LEMMA AccentAtWalk ==
  ASSUME GlyphsInv, ~stale, AtAccent, NEW c, c = cursor, NEW w, w = walk[2]
  PROVE  /\ ListOf(kids, AnyNode) /\ Reads(Says(<<>>, kids)) /\ WalkWell(kids, c, walk) /\ c \in Nat \ {0}
         /\ walk[1] = c /\ w \in Nat \ {0} /\ AccentHere(kids, c, w) /\ AtItem(kids, c, w)
<1>1. pc = "accent" /\ cursor >= 1 /\ InWalk /\ kids[walk[1]].items[w].k = "accent"
  BY DEF AtAccent, Walks
<1>2. /\ ListOf(kids, AnyNode) /\ Reads(Says(<<>>, kids)) /\ WalkWell(kids, c, walk)
      /\ c \in Nat \ {0} /\ walk[1] = c /\ w \in Nat \ {0}
  BY <1>1, WalkIs
<1>3. IsText(kids, c) /\ w <= Len(kids[c].items)
  BY <1>1, <1>2 DEF InWalk
<1>4. Len(kids[c].items) \in Nat
  BY <1>2, <1>3, TextIs
<1>5. AtItem(kids, c, w)
  BY <1>2, <1>3, <1>4 DEF AtItem
<1>6. Well(SubSeq(kids[c].items, w, Len(kids[c].items)))
  <2>1. c \in 1 .. c
    BY <1>2
  <2>2. Well(Untried(kids, c, walk, c))
    BY <1>2, <1>3, <2>1 DEF WalkWell
  <2>3. QED
    BY <2>2 DEF Untried
<1>7. AccentHere(kids, c, w)
  BY <1>1, <1>2, <1>5, <1>6 DEF AccentHere
<1>8. QED
  BY <1>2, <1>5, <1>7

(* An element that says nothing is put behind the w-th.                    *)
Behind(s, w, x) == SubSeq(s, 1, w) \o <<x>> \o SubSeq(s, w + 1, Len(s))

LEMMA PutBehind ==
  ASSUME NEW E, NEW T, NEW f, Tells(f, E, T), NEW s, ListOf(s, E), NEW w \in 1 .. Len(s),
         NEW x \in E, f[x] = <<>>, NEW t, t = Behind(s, w, x)
  PROVE  /\ ListOf(t, E) /\ ReadOff(f, t) = ReadOff(f, s)
         /\ RightOf(t, w) = Cat(<<x>>, RightOf(s, w))
<1> DEFINE a == SubSeq(s, 1, w)
           b == SubSeq(s, w + 1, Len(s))
           y == <<x>>
           c == Cat(a, y)
           v == Cat(y, b)
           n == Len(s)
<1>1. n \in Nat /\ s \in Seq(E) /\ w \in Nat /\ w <= n /\ 1 <= w
  BY LenProperties DEF ListOf
<1>2. ListOf(a, E) /\ Len(a) = w
  <2>1. ListOf(a, E)
    BY <1>1, SegmentIs
  <2>2. Len(a) = w
    BY ONLY <1>1, SubSeqProperties
  <2>3. QED
    BY <2>1, <2>2
<1>3. ListOf(b, E) /\ Len(b) = n - w
  BY RightIs DEF RightOf
<1>4. ListOf(y, E) /\ Len(y) = 1
  BY SMTT(30) DEF ListOf
<1>5. Cat(a, b) = s
  <2>1. 1 \in 1 .. n + 1 /\ w \in 1 - 1 .. n /\ n \in w .. n
    BY <1>1
  <2>2. SubSeq(s, 1, w) \o SubSeq(s, w + 1, n) = SubSeq(s, 1, n)
    BY ONLY <1>1, <2>1, ConcatAdjacentSubSeq
  <2>3. SubSeq(s, 1, n) = s
    BY <1>1, SubSeqFull
  <2>4. QED
    BY <2>2, <2>3 DEF Cat
<1>6. t = Cat(c, b)
  BY DEF Cat, Behind
<1> HIDE DEF a, b, y, n
<1>7. ListOf(c, E) /\ ListOf(v, E) /\ Len(c) = w + 1 /\ Len(v) = 1 + (n - w)
  <2>1. ListOf(c, E) /\ ListOf(v, E)
    BY ONLY <1>2, <1>3, <1>4, CatIsList
  <2>2. Len(c) = Len(a) + Len(y)
    <3>1. ListOf(a, E) /\ ListOf(y, E)
      BY <1>2, <1>4
    <3>2. QED
      BY ONLY <3>1, CatIs
  <2>3. Len(v) = Len(y) + Len(b)
    <3>1. ListOf(b, E) /\ ListOf(y, E)
      BY <1>3, <1>4
    <3>2. QED
      BY ONLY <3>1, CatIs
  <2> HIDE DEF c, v
  <2>4. QED
    BY ONLY <1>2, <1>3, <1>4, <2>1, <2>2, <2>3
<1>8. t = Cat(a, v)
  <2>1. Cat(a, v) = Cat(c, b)
    BY ONLY <1>2, <1>3, <1>4, CatRegroups
  <2> HIDE DEF c, v
  <2>2. QED
    BY ONLY <1>6, <2>1
<1>9. ListOf(t, E)
  BY <1>3, <1>6, <1>7, CatIsList
<1>10. ReadOff(f, t) = ReadOff(f, s)
  <2> DEFINE p == ReadOff(f, a)
             q == ReadOff(f, b)
  <2>1. ListOf(p, T) /\ ListOf(q, T)
    BY <1>2, <1>3, ReadIsList
  <2>2. ReadOff(f, s) = Cat(p, q)
    BY <1>2, <1>3, <1>5, ReadJoined
  <2>3. ReadOff(f, y) = <<>>
    BY ReadOne DEF y
  <2>4. ReadOff(f, c) = Cat(p, <<>>)
    BY <1>2, <1>4, <2>3, ReadJoined
  <2>5. ReadOff(f, t) = Cat(ReadOff(f, c), q)
    <3> HIDE DEF c, p
    <3>1. ReadOff(f, Cat(c, b)) = Cat(ReadOff(f, c), ReadOff(f, b))
      BY ONLY Tells(f, E, T), <1>3, <1>7, ReadJoined
    <3>2. QED
      BY ONLY <1>6, <3>1
  <2> HIDE DEF p, q, c
  <2>6. Cat(p, <<>>) = p
    BY <2>1, CatNothing
  <2>7. QED
    BY <2>2, <2>4, <2>5, <2>6
<1> HIDE DEF c
<1>11. SubSeq(t, w + 1, Len(t)) = v
  <2> DEFINE d == w + 1
             l == Len(t)
             u == SubSeq(t, d, l)
  <2> HIDE DEF v
  <2>1. l = n + 1 /\ \A p \in 1 .. l : p > w => t[p] = v[p - w]
    <3>1. Len(Cat(a, v)) = Len(a) + Len(v) /\ \A p \in 1 .. Len(a) + Len(v) : Cat(a, v)[p] = IF p <= Len(a) THEN a[p] ELSE v[p - Len(a)]
      <4>1. ListOf(a, E) /\ ListOf(v, E)
        BY <1>2, <1>7
      <4>2. QED
        BY ONLY <4>1, CatIs
    <3>2. Len(a) + Len(v) = n + 1
      BY ONLY <1>1, <1>2, <1>7, w \in 1 .. Len(s)
    <3>3. w \in Nat
      BY ONLY <1>1
    <3>4. Len(t) = n + 1 /\ \A p \in 1 .. n + 1 : t[p] = IF p <= w THEN a[p] ELSE v[p - w]
      BY ONLY <1>2, <1>8, <3>1, <3>2
    <3>5. QED
      BY ONLY <1>1, <3>3, <3>4
  <2>2. d \in 1 .. l /\ l \in Int /\ l <= Len(t) /\ d \in Int /\ 1 <= d
    BY ONLY <1>1, <2>1
  <2>3. u \in Seq(E) /\ v \in Seq(E)
    <3>1. ListOf(SubSeq(t, d, l), E)
      <4> HIDE DEF d, l
      <4>1. QED
        BY ONLY <1>9, <2>2, SegmentIs
    <3>2. QED
      BY ONLY <1>7, <3>1 DEF ListOf
  <2>4. Len(u) = l - d + 1 /\ \A i \in 1 .. l - d + 1 : u[i] = t[d + i - 1]
    <3> HIDE DEF d
    <3>1. d \in 1 .. Len(t) /\ u = SubSeq(t, d, Len(t))
      BY ONLY <2>2 DEF l
    <3> HIDE DEF u
    <3>2. QED
      BY ONLY <1>9, <3>1, SuffixAt DEF l
  <2> HIDE DEF u, l
  <2>5. l - d + 1 = n - w + 1 /\ Len(v) = n - w + 1
    BY ONLY <1>1, <1>7, <2>1
  <2>6. \A i \in 1 .. n - w + 1 : u[i] = v[i]
    <3> TAKE i \in 1 .. n - w + 1
    <3> DEFINE p == d + i - 1
    <3>1. p \in 1 .. l /\ p > w /\ p - w = i
      BY ONLY <1>1, <2>1, i \in 1 .. n - w + 1
    <3>2. u[i] = t[p]
      BY ONLY <2>4, <2>5, i \in 1 .. n - w + 1
    <3> HIDE DEF p, d
    <3>3. QED
      BY ONLY <2>1, <3>1, <3>2
  <2>7. Len(u) = Len(v) /\ \A i \in 1 .. Len(u) : u[i] = v[i]
    BY ONLY <2>4, <2>5, <2>6
  <2>8. u = v
    BY ONLY <2>3, <2>7
  <2>9. QED
    BY <2>8 DEF u, l
<1>12. QED
  BY <1>9, <1>10, <1>11 DEF v, y, b, RightOf

(* What conv held behind the letter says nothing, and nothing else is      *)
(* changed.                                                                *)
LEMMA StraySays ==
  ASSUME NEW ks, ListOf(ks, AnyNode), NEW c \in Nat \ {0}, NEW w \in Nat \ {0}, AtItem(ks, c, w),
         NEW l, l = WithStray(ks, <<c, w>>)
  PROVE  /\ ListOf(l, AnyNode) /\ Len(l) = Len(ks) /\ Says(<<>>, l) = Says(<<>>, ks)
         /\ \A i \in 1 .. Len(ks) : i # c => l[i] = ks[i]
         /\ IsText(l, c)
         /\ RightOf(l[c].items, w) = Cat(<<Stray>>, RightOf(ks[c].items, w))
<1> DEFINE s == ks[c].items
           t == Behind(s, w, Stray)
           g == ItemSays(<<>>)
           f == NodeSays(<<>>)
<1>1. IsText(ks, c) /\ w \in 1 .. Len(s)
  BY DEF AtItem
<1>2. ListOf(s, AnyItem) /\ c \in 1 .. Len(ks) /\ ListOf(<<>>, Spot)
  BY <1>1, TextIs, Marks
<1>3. Stray \in AnyItem /\ g[Stray] = <<>>
  <2>1. Stray = [k |-> "stray", gs |-> <<>>] /\ <<>> \in {gs \in Seq(Glyph) : Len(gs) <= 2}
    BY DEF Stray
  <2>2. Stray \in AnyItem /\ Stray.k # "accent" /\ Stray.gs = <<>>
    BY <2>1 DEF AnyItem, CharItem
  <2> HIDE DEF g
  <2>3. g[Stray] = PlacesOf(<<>>)
    BY <1>2, <2>2, ItemsTell DEF g
  <2>4. QED
    BY <2>2, <2>3, NoPlaces
<1>4. Tells(g, AnyItem, Spot) /\ Tells(f, AnyNode, Spot)
  BY Tellers
<1>5. l = [ks EXCEPT ![c].items = t]
  BY DEF WithStray, Behind
<1>6. /\ ListOf(t, AnyItem) /\ ReadOff(g, t) = ReadOff(g, s)
      /\ RightOf(t, w) = Cat(<<Stray>>, RightOf(s, w))
  <2> DEFINE e == Stray
  <2>1. t = Behind(s, w, e) /\ e \in AnyItem /\ g[e] = <<>>
    BY <1>3
  <2> HIDE DEF s, t, g, e
  <2>2. /\ ListOf(t, AnyItem) /\ ReadOff(g, t) = ReadOff(g, s)
        /\ RightOf(t, w) = Cat(<<e>>, RightOf(s, w))
    BY ONLY <1>1, <1>2, <1>4, <2>1, PutBehind
  <2>3. QED
    BY <2>2 DEF e
<1> HIDE DEF t
<1>7. ItemsOut(l, ks, c, t)
  BY <1>1, <1>5, <1>6, ItemsChanged
<1>8. /\ ListOf(l, AnyNode) /\ Len(l) = Len(ks) /\ IsText(l, c) /\ l[c].items = t
      /\ \A i \in 1 .. Len(ks) : i # c => l[i] = ks[i]
  BY <1>7 DEF ItemsOut
<1>9. Says(<<>>, l) = Says(<<>>, ks)
  <2>1. f[l[c]] = ItemsSay(<<>>, t)
    <3> DEFINE x == l[c]
    <3>1. x = l[c]
      OBVIOUS
    <3> HIDE DEF x, f
    <3>2. NodeSays(<<>>)[x] = ItemsSay(<<>>, x.items)
      BY <1>2, <1>8, <3>1, TextSays
    <3>3. QED
      BY <1>8, <3>1, <3>2 DEF f
  <2>2. f[ks[c]] = ItemsSay(<<>>, s)
    <3> DEFINE x == ks[c]
    <3>1. x = ks[c] /\ s = x.items
      OBVIOUS
    <3> HIDE DEF x, f, s
    <3>2. NodeSays(<<>>)[x] = ItemsSay(<<>>, x.items)
      BY <1>1, <1>2, <3>1, TextSays
    <3>3. QED
      BY <3>1, <3>2 DEF f
  <2>3. ItemsSay(<<>>, t) = ItemsSay(<<>>, s)
    BY <1>6 DEF ItemsSay
  <2> HIDE DEF f, s
  <2>4. \A i \in 1 .. Len(l) : f[l[i]] = f[ks[i]]
    BY <1>8, <2>1, <2>2, <2>3
  <2>5. ReadOff(f, l) = ReadOff(f, ks)
    BY <1>8, <2>4, ReadAlike
  <2>6. QED
    BY <2>5 DEF Says, f
<1>10. QED
  BY <1>6, <1>8, <1>9 DEF s

(* A step at an accent after which the text holds strays besides: the      *)
(* walk, which goes on at them, has still well-formed text before it.      *)
LEMMA StrayWell ==
  ASSUME NEW ks, ListOf(ks, AnyNode), NEW c \in Nat \ {0}, NEW w \in Nat \ {0}, AtItem(ks, c, w),
         WalkWell(ks, c, <<c, w + 1>>), NEW l, l = WithStray(ks, <<c, w>>)
  PROVE  WalkWell(l, c, <<c, w + 1>>)
<1> DEFINE d == w + 1
           v == <<c, d>>
           s == ks[c].items
           r == SubSeq(s, d, Len(s))
           t == l[c].items
           q == SubSeq(t, d, Len(t))
<1>1. /\ ListOf(l, AnyNode) /\ Len(l) = Len(ks) /\ IsText(l, c) /\ q = Cat(<<Stray>>, r)
      /\ \A i \in 1 .. Len(ks) : i # c => l[i] = ks[i]
  <2>1. /\ ListOf(l, AnyNode) /\ Len(l) = Len(ks) /\ IsText(l, c)
        /\ RightOf(l[c].items, w) = Cat(<<Stray>>, RightOf(ks[c].items, w))
        /\ \A i \in 1 .. Len(ks) : i # c => l[i] = ks[i]
    <3> HIDE DEF s, t
    <3>1. QED
      BY ONLY ListOf(ks, AnyNode), c \in Nat \ {0}, w \in Nat \ {0}, AtItem(ks, c, w),
              l = WithStray(ks, <<c, w>>), StraySays
  <2>2. QED
    BY <2>1 DEF RightOf
<1>2. Well(r)
  <2>1. IsText(ks, c) /\ c \in 1 .. c
    BY DEF AtItem
  <2>2. Well(Untried(ks, c, v, c))
    BY <2>1 DEF WalkWell
  <2>3. QED
    BY <2>2 DEF Untried
<1> HIDE DEF r, q
<1>3. Well(q)
  <2> DEFINE y == <<Stray>>
             m == <<Mark>>
  <2>1. Stray \in CharItem
    <3>1. Stray = [k |-> "stray", gs |-> <<>>] /\ <<>> \in {gs \in Seq(Glyph) : Len(gs) <= 2}
      BY DEF Stray
    <3>2. QED
      BY <3>1 DEF CharItem
  <2>2. ListOf(y, FreshItem) /\ ListOf(y, AnyItem) /\ Stray \in AnyItem
    BY <2>1, ItemsGrow DEF ListOf
  <2>3. ListOf(r, FreshItem) /\ ListOf(r, AnyItem)
    BY <1>2, ItemsGrow, ListGrows DEF Well
  <2>4. ListOf(q, FreshItem)
    BY <1>1, <2>2, <2>3, CatIsList
  <2>5. ItemsSay(m, q) = ItemsSay(m, r)
    <3>1. ListOf(m, Spot)
      BY Marks
    <3> HIDE DEF m
    <3>2. ItemsSay(m, q) = Cat(ItemsSay(m, y), ItemsSay(m, r))
      BY <1>1, <2>2, <2>3, <3>1, ItemsSayJoined
    <3>3. ItemsSay(m, y) = ItemSays(m)[Stray]
      BY <2>2, <3>1, ItemsTell, ReadOne DEF ItemsSay
    <3>4. ItemSays(m)[Stray] = <<>>
      <4>1. Stray.k # "accent" /\ Stray.gs = <<>>
        BY DEF Stray
      <4>2. ItemSays(m)[Stray] = PlacesOf(Stray.gs)
        BY <2>2, <3>1, <4>1, ItemsTell
      <4>3. QED
        BY <4>1, <4>2, NoPlaces
    <3>5. ListOf(ItemsSay(m, r), Spot)
      BY <2>3, <3>1, ItemsTell, ReadIsList DEF ItemsSay
    <3>6. Cat(<<>>, ItemsSay(m, r)) = ItemsSay(m, r)
      BY <3>5, CatNothing
    <3>7. QED
      BY <3>2, <3>3, <3>4, <3>6
  <2>6. QED
    BY <1>2, <2>4, <2>5 DEF Well
<1>4. ASSUME NEW n \in 1 .. c, IsText(l, n)
      PROVE  Well(Untried(l, c, v, n))
  <2>1. CASE n = c
    <3>1. Untried(l, c, v, n) = q
      BY <2>1 DEF Untried, q
    <3>2. QED
      BY <1>3, <3>1
  <2>2. CASE n # c
    <3>1. l[n] = ks[n] /\ IsText(ks, n)
      BY <1>1, <1>4, <2>2 DEF IsText
    <3>2. Well(Untried(ks, c, v, n))
      BY <3>1 DEF WalkWell
    <3>3. Untried(l, c, v, n) = Untried(ks, c, v, n)
      BY <2>2, <3>1 DEF Untried
    <3>4. QED
      BY <3>2, <3>3
  <2>3. QED
    BY <2>1, <2>2
<1>5. c \in 0 .. Len(l) /\ v[1] = c /\ v[2] \in Nat \ {0}
  BY <1>1 DEF WalkWell
<1> HIDE DEF v
<1>6. WalkWell(l, c, v)
  BY <1>4, <1>5 DEF WalkWell
<1>7. QED
  BY <1>6 DEF v

(* A step at an accent that has taken k items behind it keeps the          *)
(* invariant, if the letters are the same.                                 *)
LEMMA AccentGoesOn ==
  ASSUME GlyphsInv, ~stale, AtAccent, NEW c, c = cursor, NEW w, w = walk[2],
         NEW k, Ahead(kids', kids, c, w, k), Settles(Says(<<>>, kids'), Says(<<>>, kids)),
         InAccents, GoesOn(c, w)
  PROVE  GlyphsStep
<1>1. pc' = "accent" /\ src' = src
  BY DEF InAccents, AtAccent, Walks
<1>2. /\ ListOf(kids, AnyNode) /\ Reads(Says(<<>>, kids)) /\ WalkWell(kids, c, walk) /\ c \in Nat \ {0}
      /\ walk[1] = c /\ w \in Nat \ {0} /\ AtItem(kids, c, w)
  BY AccentAtWalk
<1>3. Reads(Says(<<>>, kids'))
  BY <1>2, SettledReads
<1>4. ListOf(kids', AnyNode) /\ Len(kids') = Len(kids) /\ \A n \in 1 .. c - 1 : kids'[n] = kids[n]
  BY DEF Ahead
<1>5. ASSUME ~stale'
      PROVE  WalkWell(kids', cursor', walk')
  <2>1. CASE cursor' = c /\ walk' = <<c, w + 1>>
    <3>1. WalkWell(kids', c, <<c, w + 1>>)
      BY <1>2, GoOnWell
    <3>2. QED
      BY <2>1, <3>1
  <2>2. CASE cursor' = c - 1 /\ walk' = <<c - 1, 1>>
    <3>1. WalkWell(kids', c - 1, <<c - 1, 1>>)
      BY <1>2, <1>4, CallWell
    <3>2. QED
      BY <2>2, <3>1
  <2>3. QED
    BY <1>5, <2>1, <2>2 DEF GoesOn
<1>6. ListOf(kids', NodesOf(AnyItem))
  BY <1>4 DEF AnyNode
<1>7. ~stale' => GlyphsAt("accent", kids', cursor', fsm', walk')
  BY <1>3, <1>5, <1>6 DEF GlyphsAt, ItemsAt, Early
<1>8. QED
  BY <1>1, <1>7 DEF GlyphsStep, Late

(* After an error the walk goes on behind the accent, or at the node       *)
(* before, or from a freed node.                                           *)
LEMMA ErrorGoesOn ==
  ASSUME ~stale, NEW c, c = cursor, c \in Nat, NEW w, w = walk[2], walk[1] = c,
         NEW q, NEW s, s = Source(q, walk), NEW l, AfterError(s, l)
  PROVE  GoesOn(c, w)
<1>1. CASE WalkOn
  BY <1>1 DEF WalkOn, SameWalk, GoesOn
<1>2. CASE NextCall
  BY <1>2 DEF NextCall, GoesOn
<1>3. CASE walk' = s /\ stale' = (stale \/ s[1] # walk[1]) /\ UNCHANGED cursor
  <2>1. s[1] # c => stale'
    BY <1>3
  <2>2. CASE OwnNext(q, walk)
    <3>1. s = <<c, w + 1>>
      BY <2>2 DEF Source
    <3>2. QED
      BY <1>3, <3>1 DEF GoesOn
  <2>3. CASE ~OwnNext(q, walk)
    <3>1. s = <<c + 1, 1>>
      BY <2>3 DEF Source
    <3>2. s[1] # c
      BY <3>1
    <3>3. QED
      BY <2>1, <3>2 DEF GoesOn
  <2>4. QED
    BY <2>2, <2>3
<1>4. QED
  BY <1>1, <1>2, <1>3 DEF AfterError

(* An accent is made of glyphs. *)
LEMMA AccentOfGlyphs ==
  ASSUME NEW gs \in Seq(Glyph)
  PROVE  Accent(gs) \in AnyItem /\ Accent(gs).gs = gs
<1>1. Accent(gs) = [k |-> "accent", gs |-> gs]
  BY DEF Accent
<1>2. QED
  BY <1>1 DEF AnyItem, AccentItem

(* An error puts what was taken into the accent. *)
LEMMA FailedIs ==
  ASSUME NEW r, NEW c, NEW w, NEW a, a[1] = c, a[2] = w, r[c].items[w] = Accent(<<>>),
         NEW gs \in Seq(Glyph), NEW x, x = Accent(gs), NEW l, l = Failed(r, a, gs)
  PROVE  x \in AnyItem /\ x.gs = gs /\ l = Replaced(r, a, x)
<1>1. x = [k |-> "accent", gs |-> gs]
  BY DEF Accent
<1>2. x \in AnyItem /\ x.gs = gs
  BY <1>1 DEF AnyItem, AccentItem
<1> DEFINE y == r[c].items[w]
<1>3. l = [r EXCEPT ![c].items[w] = [y EXCEPT !.gs = y.gs \o gs]]
  BY DEF Failed
<1>4. y = [k |-> "accent", gs |-> <<>>]
  BY DEF Accent
<1> HIDE DEF y
<1>5. y.gs = <<>>
  BY <1>4
<1>6. <<>> \o gs = gs
  OBVIOUS
<1>7. [y EXCEPT !.gs = gs] = x
  BY <1>1, <1>4
<1>8. [y EXCEPT !.gs = y.gs \o gs] = x
  BY <1>5, <1>6, <1>7
<1>9. QED
  BY <1>2, <1>3, <1>8 DEF Replaced

(* The second character is not taken from behind an accent either. *)
LEMMA NextNotBlocked ==
  ASSUME NEW ks, NEW c, NEW w, AccentHere(ks, c, w), NEW r, NEW k \in {0, 1},
         NEW x \in AnyItem, x.k # "accent", ~IsAccented(x),
         Ahead(r, ks, c, w, k), k = 0 => r[c] = ks[c], k = 1 => w + 1 \in 1 .. Len(ks[c].items) /\ x = ks[c].items[w + 1]
  PROVE  ~Stacked => ~Blocked(r, c, w)
<1> SUFFICES ASSUME ~Stacked PROVE ~Blocked(r, c, w)
  OBVIOUS
<1>1. CASE k = 0
  <2>1. ~Blocked(ks, c, w)
    BY NotBlocked
  <2>2. QED
    BY <1>1, <2>1 DEF Blocked
<1>2. CASE k = 1
  <2>1. Len(x.gs) <= 1
    <3>1. x.gs \in Seq(Glyph) /\ Len(x.gs) <= 2
      BY ItemIs
    <3>2. Len(x.gs) \in Nat
      BY <3>1, LenProperties
    <3>3. ~(Len(x.gs) = 2)
      BY DEF IsAccented
    <3> DEFINE n == Len(x.gs)
    <3>4. n \in Nat /\ n <= 2 /\ n # 2
      BY <3>1, <3>2, <3>3
    <3> HIDE DEF n
    <3>5. n <= 1
      BY <3>4
    <3>6. QED
      BY <3>5 DEF n
  <2> DEFINE v == w + 1
  <2>2. v = w + 1 /\ v \in 1 .. Len(ks[c].items) /\ x = ks[c].items[v] /\ Ahead(r, ks, c, w, 1)
    BY <1>2
  <2>3. ~Stacked /\ AccentHere(ks, c, w) /\ x.k # "accent"
    OBVIOUS
  <2> HIDE DEF v
  <2>4. QED
    BY ONLY <2>1, <2>2, <2>3, NotBlockedThen
<1>3. QED
  BY <1>1, <1>2

(* Once it has gone on from a freed node nothing more is claimed. *)
LEMMA AccentsKeepStale ==
  ASSUME GlyphsInv, stale, TakeAccented \/ NoBase \/ Compose \/ UnknownAccent
  PROVE  GlyphsStep
<1>1. pc = "accent" /\ src' = src /\ pc' = "accent"
  BY DEF TakeAccented, NoBase, Compose, UnknownAccent, AtAccent, Walks, InAccents
<1>2. CASE TakeAccented
  BY <1>1, <1>2, GlyphsStaleStep DEF TakeAccented, WalkOn, SameWalk
<1>3. CASE NoBase
  BY <1>1, <1>3, GlyphsStaleStep DEF NoBase, AfterError, WalkOn, SameWalk, NextCall
<1>4. CASE Compose
  BY <1>1, <1>4, GlyphsStaleStep DEF Compose, WalkOn, SameWalk
<1>5. CASE UnknownAccent
  BY <1>1, <1>5, GlyphsStaleStep DEF UnknownAccent, AfterError, WalkOn, SameWalk, NextCall
<1>6. QED
  BY <1>2, <1>3, <1>4, <1>5

(* The steps that take one character. *)
LEMMA GlyphsOneStep == GlyphsInv /\ ~stale /\ (TakeAccented \/ NoBase) => GlyphsStep
<1> SUFFICES ASSUME GlyphsInv, ~stale, TakeAccented \/ NoBase PROVE GlyphsStep
  OBVIOUS
<1> DEFINE c == cursor
           w == walk[2]
           s == First
           x == CharAt(kids, s)
           G == PlacesOf(x.gs)
           r == Rest
           l == kids'
<1>1. AtAccent /\ HasChar(kids, s) /\ InAccents
  BY DEF TakeAccented, NoBase, NoFirst
<1>2. /\ ListOf(kids, AnyNode) /\ c \in Nat \ {0} /\ walk[1] = c /\ w \in Nat \ {0}
      /\ AccentHere(kids, c, w) /\ AtItem(kids, c, w)
  BY <1>1, AccentAtWalk
<1>3. s = Source(kids, walk) /\ r = WithoutChar(kids, s) /\ walk[2] = w
  BY DEF First, Rest
<1>4. x = CharAt(kids, s)
  OBVIOUS
<1>5. CASE TakeAccented
  <2> DEFINE u == Replaced(r, walk, x)
  <2>1. (l = u \/ l = WithStray(u, walk)) /\ WalkOn
    BY <1>5 DEF TakeAccented
  <2>2. u = [r EXCEPT ![c].items[w] = x]
    BY <1>2 DEF Replaced
  <2>3. cursor' = c /\ walk' = <<c, w + 1>> /\ pc' = "accent" /\ src' = src /\ (stale' = stale)
    BY <1>1, <1>2, <2>1 DEF WalkOn, SameWalk, InAccents, AtAccent, Walks
  <2>0. /\ ListOf(kids, AnyNode) /\ Reads(Says(<<>>, kids)) /\ WalkWell(kids, c, walk) /\ WithStray(u, walk) = WithStray(u, <<c, w>>)
    BY <1>1, <1>2, AccentAtWalk DEF WithStray
  <2> HIDE DEF c, w, s, x, r, l, u
  <2>4. /\ x \in AnyItem /\ x.k # "accent"
        /\ TookChar(r, kids, c, w, x)
    BY ONLY <1>1, <1>2, <1>3, <1>4, TookOne
  <2>5. PICK k \in {0, 1} : Took(r, kids, c, w, G, k)
    BY <2>4 DEF TookChar
  <2>6. ListOf(G, Spot)
    BY <2>4, Tellers
  <2>7. G = PlacesOf(x.gs) /\ k \in Nat /\ w \in Nat
    BY <1>2
  <2> HIDE DEF G
  <2>8. Ahead(u, kids, c, w, k) /\ Settles(Says(<<>>, u), Says(<<>>, kids))
    BY ONLY <1>2, <2>2, <2>4, <2>5, <2>6, <2>7, OneTaken
  <2>9. ListOf(u, AnyNode) /\ AtItem(u, c, w)
    BY <2>8 DEF Ahead
  <2>10. Reads(Says(<<>>, u))
    BY <2>0, <2>8, SettledReads
  <2>11. WalkWell(u, c, <<c, w + 1>>)
    BY <1>2, <1>3, <2>0, <2>8, GoOnWell
  <2>12. ListOf(l, AnyNode) /\ Reads(Says(<<>>, l)) /\ WalkWell(l, c, <<c, w + 1>>)
    <3>1. CASE l = u
      BY <2>9, <2>10, <2>11, <3>1
    <3>2. CASE l = WithStray(u, walk)
      <4>1. l = WithStray(u, <<c, w>>)
        BY <2>0, <3>2
      <4>2. c \in Nat \ {0} /\ w \in Nat \ {0}
        BY <1>2
      <4>3. ListOf(l, AnyNode) /\ Says(<<>>, l) = Says(<<>>, u)
        BY ONLY <2>9, <4>1, <4>2, StraySays
      <4>4. WalkWell(l, c, <<c, w + 1>>)
        BY ONLY <2>9, <2>11, <4>1, <4>2, StrayWell
      <4>5. QED
        BY <2>10, <4>3, <4>4
    <3>3. QED
      BY <2>1, <3>1, <3>2
  <2>13. GlyphsAt("accent", kids', cursor', fsm', walk')
    BY <2>3, <2>12 DEF GlyphsAt, ItemsAt, Early, AnyNode, l
  <2>14. QED
    BY <2>3, <2>13 DEF GlyphsStep
<1>6. CASE NoBase
  <2>1. l = Failed(r, walk, x.gs) /\ AfterError(Second, l)
    BY <1>6 DEF NoBase
  <2>2. Second = Source(r, walk)
    BY DEF Second
  <2>3. GoesOn(c, w)
    <3> DEFINE t == Second
    <3>1. t = Source(r, walk) /\ AfterError(t, l) /\ c = cursor /\ w = walk[2]
      BY <2>1, <2>2
    <3> HIDE DEF c, w, t, r, l
    <3>2. QED
      BY <1>2, <3>1, ErrorGoesOn
  <2> HIDE DEF c, w, s, x, r, l
  <2>4. /\ x \in AnyItem /\ x.k # "accent"
        /\ TookChar(r, kids, c, w, x)
    BY ONLY <1>1, <1>2, <1>3, <1>4, TookOne
  <2>5. PICK k \in {0, 1} : Took(r, kids, c, w, G, k)
    BY <2>4 DEF TookChar
  <2>6. ListOf(G, Spot) /\ x.gs \in Seq(Glyph)
    BY <2>4, Tellers, ItemIs
  <2> DEFINE gs == x.gs
             z == Accent(gs)
  <2>7. r[c].items[w] = Accent(<<>>)
    BY <1>2, <2>5, AccentIsNew DEF Took
  <2>8. z \in AnyItem /\ z.gs = gs /\ l = [r EXCEPT ![c].items[w] = z]
    <3>1. gs \in Seq(Glyph) /\ l = Failed(r, walk, gs) /\ z = Accent(gs)
      BY <2>1, <2>6
    <3>2. walk[1] = c /\ walk[2] = w
      BY <1>2, <1>3
    <3> HIDE DEF z, gs
    <3>3. z \in AnyItem /\ z.gs = gs
      BY ONLY <2>7, <3>1, <3>2, FailedIs
    <3>4. l = Replaced(r, walk, z)
      BY ONLY <2>7, <3>1, <3>2, FailedIs
    <3>5. QED
      BY <3>2, <3>3, <3>4 DEF Replaced
  <2>9. G = PlacesOf(z.gs) /\ k \in Nat /\ w \in Nat
    BY <1>2, <2>8
  <2> HIDE DEF G, z, gs
  <2>10. Ahead(l, kids, c, w, k) /\ Settles(Says(<<>>, l), Says(<<>>, kids))
    BY ONLY <1>2, <2>5, <2>6, <2>8, <2>9, OneTaken
  <2>11. QED
    BY <1>1, <2>3, <2>10, AccentGoesOn DEF c, w, l
<1>7. QED
  BY <1>5, <1>6

(* The steps that take two. *)
LEMMA GlyphsTwoStep == GlyphsInv /\ ~stale /\ (Compose \/ UnknownAccent) => GlyphsStep
<1> SUFFICES ASSUME GlyphsInv, ~stale, Compose \/ UnknownAccent PROVE GlyphsStep
  OBVIOUS
<1> DEFINE c == cursor
           w == walk[2]
           s == First
           x == CharAt(kids, s)
           G == PlacesOf(x.gs)
           r == Rest
           t == Second
           y == CharAt(r, t)
           H == PlacesOf(y.gs)
           q == WithoutChar(r, t)
           gs == x.gs \o y.gs
           l == kids'
<1>1. AtAccent /\ HasChar(kids, s) /\ InAccents /\ ~IsAccented(x) /\ HasChar(r, t)
  BY DEF Compose, UnknownAccent, NoFirst
<1>2. /\ ListOf(kids, AnyNode) /\ c \in Nat \ {0} /\ walk[1] = c /\ w \in Nat \ {0}
      /\ AccentHere(kids, c, w) /\ AtItem(kids, c, w) /\ walk[2] = w /\ c = cursor /\ w \in Nat
  BY <1>1, AccentAtWalk
<1>3. s = Source(kids, walk) /\ r = WithoutChar(kids, s) /\ t = Source(r, walk) /\ q = WithoutChar(r, t)
  BY DEF First, Rest, Second
<1>4. x = CharAt(kids, s) /\ y = CharAt(r, t) /\ G = PlacesOf(x.gs) /\ H = PlacesOf(y.gs) /\ gs = x.gs \o y.gs
  OBVIOUS
<1>5. \/ Known(y, x) /\ l = Replaced(q, walk, Char(gs)) /\ WalkOn
      \/ l = Failed(q, walk, gs) /\ AfterError(t, l)
  BY DEF Compose, UnknownAccent
<1>6. l = kids'
  OBVIOUS
<1> HIDE DEF c, w, s, x, G, r, t, y, H, q, gs, l
<1>7. x \in AnyItem /\ x.k # "accent" /\ TookChar(r, kids, c, w, x)
  BY ONLY <1>1, <1>2, <1>3, <1>4, TookOne
<1>8. PICK k \in {0, 1} : /\ Took(r, kids, c, w, G, k)
                          /\ k = 0 => r[c] = kids[c]
                          /\ k = 1 => w + 1 \in 1 .. Len(kids[c].items) /\ x = kids[c].items[w + 1]
  BY <1>4, <1>7 DEF TookChar
<1>9. Ahead(r, kids, c, w, k) /\ r[c].items[w] = kids[c].items[w]
  BY <1>8 DEF Took
<1>10. ListOf(r, AnyNode) /\ AtItem(r, c, w)
  BY <1>9 DEF Ahead
<1>11. y \in AnyItem /\ y.k # "accent" /\ TookChar(q, r, c, w, y)
  BY ONLY <1>1, <1>2, <1>3, <1>4, <1>10, TookOne
<1>12. PICK j \in {0, 1} : Took(q, r, c, w, H, j)
  BY <1>4, <1>11 DEF TookChar
<1>13. ~Stacked => ~Blocked(r, c, w)
  BY ONLY <1>1, <1>2, <1>7, <1>8, <1>9, NextNotBlocked
<1>14. q[c].items[w] = Accent(<<>>)
  BY <1>2, <1>9, <1>12, AccentIsNew DEF Took
<1>15. ASSUME NEW z \in AnyItem, z.gs = gs, l = Replaced(q, walk, z), GoesOn(c, w)
       PROVE  GlyphsStep
  <2> DEFINE i == k + j
  <2>1. i = k + j /\ k \in Nat /\ j \in Nat
    OBVIOUS
  <2> HIDE DEF i
  <2>2. ListOf(G, Spot) /\ ListOf(H, Spot) /\ Cat(G, H) = PlacesOf(z.gs)
    <3>1. ListOf(G, Spot) /\ ListOf(H, Spot)
      BY <1>4, <1>7, <1>11, Tellers
    <3>2. x.gs \in Seq(Glyph) /\ y.gs \in Seq(Glyph)
      BY <1>7, <1>11, ItemIs
    <3>3. PlacesOf(x.gs \o y.gs) = Cat(PlacesOf(x.gs), PlacesOf(y.gs))
      BY ONLY <3>2, PlacesJoined
    <3>4. QED
      BY ONLY <1>4, <1>15, <3>1, <3>3
  <2>3. l = [q EXCEPT ![c].items[w] = z]
    BY <1>2, <1>15 DEF Replaced
  <2>4. Ahead(l, kids, c, w, i) /\ Settles(Says(<<>>, l), Says(<<>>, kids))
    <3>1. AccentHere(kids, c, w) /\ w \in Nat /\ Took(r, kids, c, w, G, k) /\ Took(q, r, c, w, H, j) /\ z \in AnyItem
      BY <1>2, <1>8, <1>12, <1>15
    <3>2. Ahead(l, kids, c, w, i)
      BY ONLY <1>13, <2>1, <2>2, <2>3, <3>1, TwoTaken
    <3>3. Settles(Says(<<>>, l), Says(<<>>, kids))
      BY ONLY <1>13, <2>1, <2>2, <2>3, <3>1, TwoTaken
    <3>4. QED
      BY <3>2, <3>3
  <2>5. w = walk[2]
    BY <1>2
  <2>6. QED
    BY <1>1, <1>2, <1>6, <1>15, <2>4, <2>5, AccentGoesOn
<1>16. gs \in Seq(Glyph)
  <2>1. x.gs \in Seq(Glyph) /\ y.gs \in Seq(Glyph)
    BY <1>7, <1>11, ItemIs
  <2>2. QED
    BY <1>4, <2>1
<1>17. CASE Known(y, x) /\ l = Replaced(q, walk, Char(gs)) /\ WalkOn
  <2> DEFINE z == Char(gs)
  <2>1. z \in AnyItem /\ z.gs = gs
    <3>1. x.gs \in Seq(Glyph) /\ y.gs \in Seq(Glyph) /\ Len(x.gs) = 1 /\ Len(y.gs) = 1
      BY <1>7, <1>11, <1>17, ItemIs DEF Known
    <3>2. Len(x.gs \o y.gs) = 2
      BY ONLY <3>1, TwoGlyphs
    <3>3. Len(gs) <= 2
      BY <1>4, <3>2
    <3>4. Char(gs) \in CharItem /\ Char(gs).gs = gs
      BY ONLY <1>16, <3>3, CharOfGlyphs
    <3>5. QED
      BY <3>4, ItemsGrow
  <2>2. GoesOn(c, w)
    BY <1>2, <1>17 DEF WalkOn, SameWalk, GoesOn
  <2>3. l = Replaced(q, walk, z)
    BY <1>17
  <2> HIDE DEF z
  <2>4. QED
    BY <1>15, <2>1, <2>2, <2>3
<1>18. CASE l = Failed(q, walk, gs) /\ AfterError(t, l)
  <2> DEFINE z == Accent(gs)
  <2>1. z = Accent(gs) /\ l = Failed(q, walk, gs)
    BY <1>18
  <2>2. c \in Nat /\ w = walk[2]
    BY <1>2
  <2>3. GoesOn(c, w)
    BY <1>2, <1>3, <1>18, <2>2, ErrorGoesOn
  <2> HIDE DEF z
  <2>4. z \in AnyItem /\ z.gs = gs
    BY ONLY <1>16, <2>1, AccentOfGlyphs
  <2>5. l = Replaced(q, walk, z)
    BY ONLY <1>2, <1>14, <1>16, <2>1, FailedIs
  <2>6. QED
    BY <1>15, <2>3, <2>4, <2>5
<1>19. QED
  BY <1>5, <1>17, <1>18

(* merge_adjacent_text frees a text without items, and merges a text into  *)
(* the next.                                                               *)
LEMMA EmptyOut ==
  ASSUME NEW ks, ListOf(ks, AnyNode), NEW n, IsText(ks, n), ks[n].items = <<>>, NEW l, l = Unlink(ks, n)
  PROVE  ListOf(l, AnyNode) /\ Says(<<>>, l) = Says(<<>>, ks)
<1> DEFINE f == NodeSays(<<>>)
           x == ks[n]
           y == f[x]
           a == ReadOff(f, LeftOf(ks, n))
           b == ReadOff(f, RightOf(ks, n))
<1>1. n \in 1 .. Len(ks) /\ x = ks[n] /\ ListOf(<<>>, Spot)
  BY TextIs, Marks
<1>2. y = <<>>
  <2>1. y = ItemsSay(<<>>, x.items)
    BY <1>1, TextSays
  <2>2. x.items = <<>>
    OBVIOUS
  <2>3. QED
    BY <2>1, <2>2, ReadNothing DEF ItemsSay
<1>3. Tells(f, AnyNode, Spot)
  BY Tellers
<1> HIDE DEF f, x
<1>4. ReadOff(f, ks) = Cat(a, Cat(y, b))
  BY <1>1, <1>3, ReadParts
<1>5. ListOf(l, AnyNode) /\ ReadOff(f, l) = Cat(a, b)
  BY <1>1, <1>3, ReadUnlink
<1>6. ListOf(RightOf(ks, n), AnyNode)
  BY <1>1, RightIs
<1>7. ListOf(b, Spot)
  BY <1>3, <1>6, ReadIsList
<1> HIDE DEF a, b, y
<1>8. Cat(y, b) = b
  BY <1>2, <1>7, CatNothing
<1>9. QED
  BY <1>4, <1>5, <1>8 DEF Says, f

LEMMA MergedSays ==
  ASSUME NEW ks, ListOf(ks, AnyNode), NEW n, IsText(ks, n), IsText(ks, n + 1),
         NEW l, l = [Unlink(ks, n) EXCEPT ![n] = MergedInto(ks[n], ks[n + 1])]
  PROVE  ListOf(l, AnyNode) /\ Says(<<>>, l) = Says(<<>>, ks)
<1> DEFINE f == NodeSays(<<>>)
           m == n + 1
           y == ks[n]
           z == ks[m]
           mid == IF addSpace /\ Head(z.items).k # "accent" /\ Head(z.items) # Space THEN <<Space>> ELSE <<>>
           c == Cat(Cat(y.items, mid), z.items)
           x == [z EXCEPT !.items = c]
<1>1. /\ n \in 1 .. Len(ks) /\ ListOf(y.items, AnyItem) /\ y = ks[n]
      /\ m \in 1 .. Len(ks) /\ ListOf(z.items, AnyItem) /\ z = ks[m] /\ z \in AnyNode /\ z.k = "text"
      /\ m = n + 1
  BY TextIs
<1>2. Len(ks) \in Nat
  BY LenProperties DEF ListOf
<1>3. l = [Unlink(ks, n) EXCEPT ![n] = x]
  BY DEF MergedInto, Cat
<1>4. ListOf(mid, AnyItem) /\ ItemsSay(<<>>, mid) = <<>> /\ ListOf(<<>>, Spot)
  <2>1. mid = <<Space>> \/ mid = <<>>
    OBVIOUS
  <2>2. ListOf(<<Space>>, AnyItem) /\ ListOf(<<>>, AnyItem) /\ ListOf(<<>>, Spot)
    <3>1. Space \in AnyItem /\ ListOf(<<>>, Spot)
      BY Marks, SpaceSays
    <3>2. QED
      BY <3>1 DEF ListOf
  <2>3. ItemsSay(<<>>, <<Space>>) = <<>>
    <3>1. Space \in AnyItem /\ ItemSays(<<>>)[Space] = <<>> /\ Tells(ItemSays(<<>>), AnyItem, Spot)
      BY <2>2, SpaceSays, Tellers
    <3>2. ReadOff(ItemSays(<<>>), <<Space>>) = ItemSays(<<>>)[Space]
      BY ONLY <3>1, ReadOne
    <3>3. QED
      BY <3>1, <3>2 DEF ItemsSay
  <2>4. ItemsSay(<<>>, <<>>) = <<>>
    BY ReadNothing DEF ItemsSay
  <2> HIDE DEF mid
  <2>5. QED
    BY <2>1, <2>2, <2>3, <2>4
<1> HIDE DEF mid, y, z, m
<1> DEFINE h == Cat(y.items, mid)
<1>5. ListOf(h, AnyItem) /\ ItemsSay(<<>>, h) = Cat(ItemsSay(<<>>, y.items), ItemsSay(<<>>, mid))
  BY <1>1, <1>4, CatIsList, ItemsSayJoined
<1>6. c = Cat(h, z.items)
  OBVIOUS
<1> HIDE DEF h, c
<1>7. ListOf(c, AnyItem) /\ ItemsSay(<<>>, c) = Cat(ItemsSay(<<>>, h), ItemsSay(<<>>, z.items))
  BY <1>1, <1>4, <1>5, <1>6, CatIsList, ItemsSayJoined
<1>8. x \in AnyNode /\ x.k = "text" /\ x.items = c
  <2>1. z \in TextNode(AnyItem)
    BY <1>1, NodeIs DEF AnyNode
  <2>2. x \in NodesOf(AnyItem) /\ x.k = "text" /\ x.items = c
    BY <1>7, <2>1, TextWith
  <2>3. QED
    BY <2>2 DEF AnyNode
<1> HIDE DEF x
<1>9. n \in 1 .. Len(ks) - 1
  BY <1>1, <1>2
<1>10. ListOf(l, AnyNode) /\ Spliced(l, ks, n, n + 1, x)
  BY ONLY ListOf(ks, AnyNode), <1>3, <1>8, <1>9, SplicedAtLast
<1>11. Tells(f, AnyNode, Spot)
  BY Tellers
<1>12. f[y] = ItemsSay(<<>>, y.items)
  BY <1>1, <1>4, TextSays
<1>13. f[z] = ItemsSay(<<>>, z.items)
  BY <1>1, <1>4, TextSays DEF m
<1>14. f[x] = ItemsSay(<<>>, x.items)
  BY <1>4, <1>8, NodesTell
<1> HIDE DEF f
<1>15. ReadOff(f, SubSeq(ks, n, m)) = Cat(f[y], f[z])
  <2>1. m \in n + 1 .. Len(ks) /\ \A i \in n + 1 .. m - 1 : f[ks[i]] = <<>>
    BY <1>1, <1>2
  <2>2. n \in 1 .. Len(ks) /\ y = ks[n] /\ z = ks[m]
    BY <1>1
  <2>3. ListOf(ks, AnyNode)
    OBVIOUS
  <2>4. QED
    BY ONLY <1>11, <2>1, <2>2, <2>3, ReadTwo
<1>16. f[x] = Cat(f[y], f[z])
  <2>1. ListOf(f[y], Spot)
    <3>1. y \in AnyNode
      <4>1. ks[n] \in AnyNode
        BY ONLY ListOf(ks, AnyNode), <1>1, ElementIs
      <4>2. QED
        BY <1>1, <4>1
    <3>2. QED
      BY <1>11, <3>1 DEF Tells, ListOf
  <2>2. Cat(f[y], <<>>) = f[y]
    BY <2>1, CatNothing
  <2>3. QED
    BY <1>4, <1>5, <1>7, <1>8, <1>12, <1>13, <1>14, <2>2
<1>17. ReadOff(f, l) = ReadOff(f, ks)
  <2>1. m \in n .. Len(ks) /\ f[x] = ReadOff(f, SubSeq(ks, n, m)) /\ Spliced(l, ks, n, m, x)
    BY <1>1, <1>2, <1>10, <1>15, <1>16
  <2>2. QED
    BY ONLY ListOf(ks, AnyNode), <1>1, <1>10, <1>11, <2>1, SplicedSame
<1>18. QED
  BY <1>10, <1>17 DEF Says, f

(* The steps of merge_adjacent_text. *)
LEMMA GlyphsMergeStep ==
  GlyphsInv /\ (PassLone \/ DropEmptyNext \/ MergePair \/ KeepPair \/ Merged) => GlyphsStep
<1> SUFFICES ASSUME GlyphsInv, PassLone \/ DropEmptyNext \/ MergePair \/ KeepPair \/ Merged PROVE GlyphsStep
  OBVIOUS
<1>1. /\ pc = "merge" /\ pc' \in {"merge", "done"} /\ src' = src /\ stale' = stale
      /\ cursor' \in {cursor, cursor + 1}
  BY DEF PassLone, DropEmptyNext, MergePair, KeepPair, Merged, Neighbours, Runs, Kept, GoOn, accentVars
<1>2. cursor \in Nat \ {0}
  BY <1>1 DEF GlyphsInv
<1>3. ASSUME ~stale
      PROVE  ListOf(kids', AnyNode) /\ Reads(Says(<<>>, kids'))
  <2>1. GlyphsAt("merge", kids, cursor, fsm, walk)
    BY <1>1, <1>3 DEF GlyphsInv
  <2>2. ListOf(kids, AnyNode) /\ Reads(Says(<<>>, kids))
    BY <2>1 DEF GlyphsAt, ItemsAt, Early, AnyNode
  <2>3. CASE kids' = kids
    BY <2>2, <2>3
  <2> DEFINE n == cursor + 1
  <2>4. CASE DropEmptyNext
    <3>1. IsText(kids, n) /\ kids[n].items = <<>> /\ kids' = Unlink(kids, n)
      BY <2>4 DEF DropEmptyNext, Neighbours
    <3> HIDE DEF n
    <3>2. ListOf(kids', AnyNode) /\ Says(<<>>, kids') = Says(<<>>, kids)
      BY <2>2, <3>1, EmptyOut
    <3>3. QED
      BY <2>2, <3>2
  <2>5. CASE MergePair
    <3>1. /\ IsText(kids, cursor) /\ IsText(kids, cursor + 1)
          /\ kids' = [Unlink(kids, cursor) EXCEPT ![cursor] = MergedInto(kids[cursor], kids[cursor + 1])]
      BY <2>5 DEF MergePair, Neighbours
    <3>2. ListOf(kids', AnyNode) /\ Says(<<>>, kids') = Says(<<>>, kids)
      BY ONLY <2>2, <3>1, MergedSays
    <3>3. QED
      BY <2>2, <3>2
  <2>6. PassLone \/ KeepPair \/ Merged => kids' = kids
    BY DEF PassLone, KeepPair, Merged
  <2>7. QED
    BY <2>3, <2>4, <2>5, <2>6
<1>4. ~stale' => GlyphsAt(pc', kids', cursor', fsm', walk')
  <2>1. SUFFICES ASSUME ~stale' PROVE GlyphsAt(pc', kids', cursor', fsm', walk')
    OBVIOUS
  <2>2. ListOf(kids', NodesOf(AnyItem)) /\ Reads(Says(<<>>, kids'))
    BY <1>1, <1>3, <2>1 DEF AnyNode
  <2>3. QED
    BY <1>1, <2>2 DEF GlyphsAt, ItemsAt, Early
<1>5. QED
  BY <1>1, <1>2, <1>4 DEF GlyphsStep, Late

(* At first the pages hold all nodes of the document. *)
LEMMA GlyphsInit == TextInit => GlyphsInv
<1> SUFFICES ASSUME TextInit PROVE GlyphsInv
  OBVIOUS
<1>1. PICK nodes \in Documents : src = <<[k |-> "bop"]>> \o nodes
  BY DEF TextInit
<1>2. /\ kids = Pages /\ cursor = 1 /\ fsm = [state |-> 0, text1 |-> 0] /\ stale = FALSE /\ pc = "page"
  BY DEF TextInit
<1> DEFINE S == WrittenText \cup OtherNode
           b == [k |-> "bop"]
<1>3. nodes \in Seq(S) /\ b \in S
  BY DocumentsAssumption DEF OtherNode
<1> HIDE DEF S
<1>4. <<b>> \in Seq(S) /\ Len(<<b>>) = 1
  BY <1>3
<1>5. src \in Seq(S) /\ Len(src) = 1 + Len(nodes) /\ src[1] = b
  <2> DEFINE a == <<b>>
             n == Len(nodes)
  <2>1. n \in Nat /\ 1 \in 1 .. 1 + n /\ 1 <= 1 /\ a[1] = b
    <3>1. n \in Nat
      BY <1>3, LenProperties
    <3> HIDE DEF n, b
    <3>2. a[1] = b
      OBVIOUS
    <3>3. QED
      BY <3>1, <3>2
  <2>2. a \in Seq(S) /\ Len(a) = 1 /\ src = a \o nodes /\ n = Len(nodes)
    <3>1. src = a \o nodes
      BY <1>1
    <3>2. QED
      BY <1>4, <3>1
  <2> DEFINE c == a \o nodes
             m == 1
  <2>3. m \in 1 .. m + n /\ m <= m /\ 1 = m
    BY <2>1
  <2>4. Len(a) = m /\ Len(nodes) = n
    BY <2>2
  <2> HIDE DEF a, n, b, m
  <2>5. c \in Seq(S) /\ Len(c) = m + n /\ \A p \in 1 .. m + n : c[p] = IF p <= m THEN a[p] ELSE nodes[p - m]
    BY ONLY <1>3, <2>2, <2>4, ConcatAt DEF c
  <2> HIDE DEF c
  <2>6. c[m] = a[m]
    BY <2>3, <2>5
  <2>7. c = src /\ m = 1
    BY <2>2 DEF c, m
  <2>8. QED
    BY <2>1, <2>2, <2>5, <2>6, <2>7 DEF n
<1>6. SrcIs
  BY <1>5 DEF SrcIs, S
<1>7. src # <<>> /\ src[1].k = "bop"
  <2>1. Len(nodes) \in Nat
    BY <1>3, LenProperties
  <2>2. Len(src) # 0
    BY <1>5, <2>1
  <2>3. QED
    BY <1>5, <2>2
<1>8. FlattenSeq(kids) = All
  BY <1>2, <1>6, <1>7, PagesAreAll
<1>9. QED
  BY <1>2, <1>6, <1>8 DEF GlyphsInv

LEMMA GlyphsStutter == GlyphsInv /\ UNCHANGED textVars => GlyphsInv'
<1> SUFFICES ASSUME GlyphsInv, UNCHANGED textVars PROVE GlyphsInv'
  OBVIOUS
<1>1. /\ src' = src /\ kids' = kids /\ cursor' = cursor /\ fsm' = fsm /\ walk' = walk
      /\ (stale' = stale) /\ pc' = pc
  BY DEF textVars
<1>2. SrcIs'
  BY <1>1 DEF GlyphsInv, SrcIs
<1>3. pc' = "page" => (FlattenSeq(kids) = All)'
  BY <1>1 DEF GlyphsInv, All, Made
<1>4. Letters' = Letters
  BY <1>1 DEF Letters, Places
<1>5. Stacked' = Stacked
  BY <1>1, <1>4 DEF Stacked, LettersIn, Places
<1>6. (pc' # "page" /\ ~stale') => GlyphsAt(pc, kids, cursor, fsm, walk)'
  BY <1>1, <1>4, <1>5 DEF GlyphsInv, GlyphsAt, Faithful, Reads, WalkWell, Well, Untried, PatternFound
<1>7. (stale' => pc' \in Late)
  BY <1>1 DEF GlyphsInv
<1>8. (pc' \in {"page", "bop"} => fsm'.state = 0) /\ (pc' # "accent" => cursor' \in Nat \ {0})
  BY <1>1 DEF GlyphsInv
<1>9. QED
  BY <1>2, <1>3, <1>6, <1>7, <1>8 DEF GlyphsInv

(* Every step keeps the invariant. *)
LEMMA GlyphsNext == GlyphsInv /\ [TextNext]_textVars => GlyphsInv'
<1> SUFFICES ASSUME GlyphsInv, [TextNext]_textVars PROVE GlyphsInv'
  OBVIOUS
<1>1. CASE RemovePageNodes \/ RemoveBopNodes
  BY <1>1, GlyphsPageStep, GlyphsStepKeeps
<1>2. CASE LookForPattern \/ MakeLargeAccent \/ LargeAccentsMade
  BY <1>2, GlyphsLargeStep, GlyphsStepKeeps
<1>3. CASE PassOther \/ RemoveRun \/ JoinOverRun \/ ControlsRemoved
  BY <1>3, GlyphsControlStep, GlyphsStepKeeps
<1>4. CASE ReplaceTags \/ GatherAround \/ PassUngathered \/ Gathering \/ PutBeforeText \/ PassNotInFront
  BY <1>4, GlyphsTagsStep, GlyphsStepKeeps
<1>5. CASE AccentsInTexts
  BY <1>5, GlyphsAccentsStep, GlyphsStepKeeps
<1>6. CASE PassItem \/ EndOfText \/ AccentsTransformed
  BY <1>6, GlyphsWalkStep, GlyphsStepKeeps
<1>7. CASE TakeAccented \/ NoBase \/ Compose \/ UnknownAccent
  <2>1. stale => GlyphsStep
    BY <1>7, AccentsKeepStale
  <2>2. ~stale => GlyphsStep
    BY <1>7, GlyphsOneStep, GlyphsTwoStep
  <2>3. QED
    BY <2>1, <2>2, GlyphsStepKeeps
<1>8. CASE PassLone \/ DropEmptyNext \/ MergePair \/ KeepPair \/ Merged
  BY <1>8, GlyphsMergeStep, GlyphsStepKeeps
<1>9. CASE Ended \/ UNCHANGED textVars
  BY <1>9, GlyphsStutter DEF Ended
<1>10. QED
  BY <1>1, <1>2, <1>3, <1>4, <1>5, <1>6, <1>7, <1>8, <1>9 DEF TextNext

(* No pass loses a glyph or reads one twice, and but for stacked accents   *)
(* their order is that of the DVI file: for every document, every set of   *)
(* accents and whatever --skip makes of spaces (remove_page_nodes to       *)
(* merge_adjacent_text_nodes of src/src/lxir.c).                           *)
THEOREM GlyphsStay == TextSpec => []GlyphsKept
<1>1. TextInit => GlyphsInv
  BY GlyphsInit
<1>2. GlyphsInv /\ [TextNext]_textVars => GlyphsInv'
  BY GlyphsNext
<1>3. GlyphsInv => GlyphsKept
  BY InvIsGlyphsKept
<1>4. QED
  BY <1>1, <1>2, <1>3, PTL DEF TextSpec

=============================================================================
