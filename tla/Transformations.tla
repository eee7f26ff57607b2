-------------------------- MODULE Transformations --------------------------
(***************************************************************************)
(* The engine of src/src/transformations.c, as main and mathlog_read_file  *)
(* use it: transformations.xml names the passes of the lists "math" and    *)
(* "text"; xmlTransformationApplyList puts an entry (ROOT_NODE, pass) for  *)
(* each on a work stack; a pass is a function called on one node, which    *)
(* edits the children of that node and pushes the ones it leaves for a     *)
(* later call of the same pass.  xslt_proc is the pass that frees the      *)
(* document and puts another one in its place.                             *)
(*                                                                         *)
(* A pass written in C is modelled by what all of them do with the nodes   *)
(* below theirs, in document order: free, keep or push each, push it again *)
(* when it has grown, go on below it, and free what is pushed.  A pass may *)
(* so be called on a node that it has freed itself; what it then reads is  *)
(* left open.  What one entry of the list pushes under another function    *)
(* (mathmode_drop_text) is its work all the same.                          *)
(***************************************************************************)
EXTENDS Integers, Sequences, SequencesExt, Lists

CONSTANTS
  Scripts,      (* the possible contents of transformations.xml           *)
  Registry,     (* Registry[t]: the names registered for the list t       *)
  Nodes,        (* the nodes of a document, numbered in document order    *)
  Children,     (* Children[n]: the children of n in a fresh document     *)
  Above,        (* Above[n]: the ancestors of n in a fresh document       *)
  STACK_SIZE    (* the entries allocated at first                         *)

Types == {"math", "text"}
Root  == 1
Line  == [type : Types, name : STRING, report : BOOLEAN]

ASSUME RegistryAssumption ==
  /\ DOMAIN Registry = Types
  /\ \A t \in Types : Registry[t] \subseteq STRING /\ "dump_tree" \in Registry[t]
ASSUME ScriptsAssumption == \A s \in Scripts : s \in Seq(Line)
ASSUME StackAssumption == STACK_SIZE \in Nat \ {0}
ASSUME TreeAssumption ==
  /\ Nodes \subseteq Nat \ {0} /\ Root \in Nodes
  /\ Children \in [Nodes -> Seq(Nodes)]
  /\ Above \in [Nodes -> SUBSET Nodes]
  /\ Above[Root] = {}
  /\ \A n \in Nodes : \A i \in 1 .. Len(Children[n]) :
       Above[Children[n][i]] = Above[n] \cup {n}

VARIABLES
  script,    (* the lines of transformations.xml                          *)
  read,      (* how many of them xmlTransformationInit has read           *)
  lists,     (* lists[t]: the passes of the list t, if it exists          *)
  call,      (* the list being applied, or where main is                  *)
  loaded,    (* how many passes of that list are on the stack             *)
  stack,     (* the work entries; the top is the last one                 *)
  count,     (* how many entries are allocated                            *)
  started,   (* the passes of this call that were applied to the root     *)
  running,   (* the call of a pass on a node: its pass, the nodes it has  *)
             (*   not looked at, and those it has pushed                  *)
  doc,       (* stack->document: documents are numbered as they appear    *)
  live,      (* the nodes of that document                                *)
  freed,     (* history: the nodes freed since the pass was called on the *)
             (*   root                                                    *)
  home       (* the document whose _private is the mathdoc                *)

vars == <<script, read, lists, call, loaded, stack, count, started, running,
          doc, live, freed, home>>
engine == <<script, read, lists>>
document == <<doc, live, freed, home>>

ROOT_NODE == 0
NoHome    == 0
Idle      == [pass |-> 0, todo |-> <<>>, pushed |-> <<>>]

(* An entry, with the document its node belongs to, for the properties.    *)
Work(n, k, d) == [node |-> n, pass |-> k, doc |-> d]
Begin(k)      == Work(ROOT_NODE, k, NoHome)

Init ==
  /\ script \in Scripts
  /\ read = 0
  /\ lists = [t \in {} |-> <<>>]
  /\ call = "init"
  /\ loaded = 0 /\ stack = <<>> /\ count = STACK_SIZE /\ started = <<>>
  /\ running = Idle
  /\ doc = 1 /\ live = Nodes /\ freed = {} /\ home = NoHome

----------------------------------------------------------------------------
(* Mutant: the new entry becomes the first one of the list.                *)
AddToList_AtFront(ls, t, name) ==
  IF name \notin Registry[t] THEN ls
  ELSE [u \in DOMAIN ls \cup {t} |->
          (IF u = t THEN <<name>> ELSE <<>>)
            \o (IF u \in DOMAIN ls THEN ls[u] ELSE <<>>)]

(* xmlTransformationAddToList: an unknown name is reported and ignored.    *)
AddToList(ls, t, name) ==
  IF name \notin Registry[t] THEN ls
  ELSE [u \in DOMAIN ls \cup {t} |->
          IF u # t THEN ls[u]
          ELSE IF t \in DOMAIN ls THEN Append(ls[t], name) ELSE <<name>>]

(* One line of transformations.xml, with the dump_tree it may ask for.     *)
ReadLine ==
  /\ call = "init" /\ read < Len(script)
  /\ LET line == script[read + 1]
         one  == AddToList(lists, line.type, line.name)
     IN  lists' = IF line.report THEN AddToList(one, line.type, "dump_tree")
                  ELSE one
  /\ read' = read + 1
  /\ UNCHANGED <<script, call, loaded, stack, count, started, running>>
  /\ UNCHANGED document

(* xmlTransformationStackInit: a new stack, and no call of a pass yet. *)
FreshStack ==
  /\ running' = Idle
  /\ stack' = <<>> /\ count' = STACK_SIZE
  /\ loaded' = 0 /\ started' = <<>>

(* mathlog_read_file applies the list "math" to the document it made. *)
ApplyMath ==
  /\ call = "init" /\ read = Len(script)
  /\ call' = "math"
  /\ FreshStack
  /\ UNCHANGED engine
  /\ UNCHANGED document

(* Mutant: the test that comes one entry late. *)
Grown_Late == IF Len(stack) > count THEN 2 * count ELSE count

(* xmlTransformationStackGrow, before an entry is written. *)
Grown == IF Len(stack) = count THEN 2 * count ELSE count

(* Mutant: xmlTransformationPush in its place. *)
PushLast_OnTop ==
  /\ call \in DOMAIN lists /\ loaded < Len(lists[call])
  /\ count' = Grown
  /\ stack' = Append(stack, Begin(loaded + 1))
  /\ loaded' = loaded + 1
  /\ UNCHANGED <<engine, call, started, running, document>>

(* xmlTransformationPushLast(ROOT_NODE, ...) for the next pass of the list *)
PushLast ==
  /\ call \in DOMAIN lists /\ loaded < Len(lists[call])
  /\ count' = Grown
  /\ stack' = <<Begin(loaded + 1)>> \o stack
  /\ loaded' = loaded + 1
  /\ UNCHANGED <<engine, call, started, running, document>>

----------------------------------------------------------------------------
Loaded == call \in DOMAIN lists /\ loaded = Len(lists[call])
PassOf(entry) == lists[call][entry.pass]

(* xmlTransformationApply pops an entry, and finds out what ROOT_NODE is.  *)
Popped == stack[Len(stack)]
PopEntry ==
  /\ Loaded
  /\ running.todo = <<>>
  /\ stack # <<>>
  /\ stack' = SubSeq(stack, 1, Len(stack) - 1)
  /\ started' = IF Popped.node = ROOT_NODE
                THEN Append(started, PassOf(Popped)) ELSE started
  /\ freed' = IF Popped.node = ROOT_NODE THEN {} ELSE freed

LiveChildren(n) == Among(Children[n], live)
Called(nodes)   == running' = [pass |-> Popped.pass, todo |-> nodes, pushed |-> <<>>]
IsFunction      == PassOf(Popped) \notin {"xslt_proc", "dump_tree"}

CallOnRoot ==
  /\ PopEntry
  /\ IsFunction /\ Popped.node = ROOT_NODE
  /\ Called(LiveChildren(Root))
  /\ UNCHANGED <<engine, call, loaded, count, doc, live, home>>

CallOnNode ==
  /\ PopEntry
  /\ IsFunction /\ Popped.node \in live
  /\ Called(LiveChildren(Popped.node))
  /\ UNCHANGED <<engine, call, loaded, count, doc, live, home>>

(* The node was freed while its entry waited: the call reads what is left  *)
(* of it.  It finds no children, those that were freed with it, or those   *)
(* of a node that has its memory now...                                    *)
CallOnFreed ==
  /\ PopEntry
  /\ IsFunction /\ Popped.node \notin live \cup {ROOT_NODE}
  /\ \/ Called(<<>>)
     \/ Called(Among(Children[Popped.node], freed))
     \/ \E n \in live : Called(LiveChildren(n))
  /\ UNCHANGED <<engine, call, loaded, count, doc, live, home>>

(* ... or the program dies, now or at one of those children. *)
Fault ==
  /\ Loaded
  /\ \/ /\ running.todo = <<>> /\ stack # <<>>
        /\ Popped.node \notin live \cup {ROOT_NODE}
     \/ \E i \in 1 .. Len(running.todo) : running.todo[i] \notin live
  /\ call' = "crashed"
  /\ running' = Idle
  /\ UNCHANGED <<engine, loaded, stack, count, started, document>>

(* The stylesheet gave a document, which replaces the old one... *)
XsltProc ==
  /\ PopEntry
  /\ PassOf(Popped) = "xslt_proc"
  /\ doc' = doc + 1 /\ live' = Nodes
  /\ UNCHANGED home
  /\ running' = Idle
  /\ UNCHANGED <<engine, call, loaded, count>>

(* ... or it gave none, and the old one stays. *)
XsltProcFails ==
  /\ PopEntry
  /\ PassOf(Popped) = "xslt_proc"
  /\ running' = Idle
  /\ UNCHANGED <<engine, call, loaded, count, doc, live, home>>

(* Mutant: an entry that is read and not taken off. *)
DumpTree_StaysOnStack ==
  /\ Loaded /\ running.todo = <<>> /\ stack # <<>>
  /\ PassOf(Popped) = "dump_tree"
  /\ running' = Idle
  /\ UNCHANGED <<engine, call, loaded, stack, count, started, document>>

DumpTree ==
  /\ PopEntry
  /\ PassOf(Popped) = "dump_tree"
  /\ running' = Idle
  /\ UNCHANGED <<engine, call, loaded, count, doc, live, home>>

----------------------------------------------------------------------------
(* What a pass does with the next node it looks at. *)

Child == Head(running.todo)
NextChild == running' = [running EXCEPT !.todo = Tail(running.todo)]
Free(n) ==
  /\ live'  = {m \in live : m # n /\ n \notin Above[m]}
  /\ freed' = freed \cup {m \in live : m = n \/ n \in Above[m]}

(* Mutant: xmlTransformationPushLast in its place. *)
Push_Last(n) ==
  /\ count' = Grown
  /\ stack' = <<Work(n, running.pass, doc)>> \o stack

(* xmlTransformationPush(node, pass, param) *)
Push(n) ==
  /\ count' = Grown
  /\ stack' = Append(stack, Work(n, running.pass, doc))

PushChild ==
  /\ running.todo # <<>>
  /\ Push(Child)
  /\ running' = [running EXCEPT !.todo = Tail(@), !.pushed = Append(@, Child)]
  /\ UNCHANGED <<engine, call, loaded, started, document>>

(* merge_accent_tags1: the child takes in the next one, is pushed, and is  *)
(* the next to be looked at once more.                                     *)
MergeNext ==
  /\ running.todo # <<>> /\ Tail(running.todo) # <<>>
  /\ Push(Child)
  /\ Free(running.todo[2])
  /\ running' = [running EXCEPT !.todo = <<Child>> \o Tail(Tail(@)),
                                !.pushed = Append(@, Child)]
  /\ UNCHANGED <<engine, call, loaded, started, doc, home>>

(* make_paragraph_before: what the call has pushed is pushed once more. *)
PushAgain ==
  LET again == Among(running.pushed, live)
  IN  /\ running.todo # <<>> /\ again # <<>>
      /\ Push(Head(again))
      /\ running' = [running EXCEPT !.pushed = Tail(again)]
      /\ UNCHANGED <<engine, call, loaded, started, document>>

(* xmlUnlinkNode and xmlFreeNode: the child goes, with all that is below.  *)
DropChild ==
  /\ running.todo # <<>>
  /\ Free(Child)
  /\ NextChild
  /\ UNCHANGED <<engine, call, loaded, stack, count, started, doc, home>>

(* transform_subsup_pattern: the param that a call has pushed is freed     *)
(* before the call returns, and its entry waits.                           *)
FreePushed ==
  \E i \in 1 .. Len(running.pushed) :
    LET n == running.pushed[i]
    IN  /\ n \in live
        /\ \A j \in 1 .. Len(running.todo) :
             running.todo[j] # n /\ n \notin Above[running.todo[j]]
        /\ Free(n)
        /\ UNCHANGED <<engine, call, loaded, stack, count, started, running, doc, home>>

(* The pass calls itself on the child, and looks at what is below it.      *)
VisitChild ==
  /\ running.todo # <<>> /\ Child \in live
  /\ running' = [running EXCEPT !.todo = LiveChildren(Child) \o Tail(@)]
  /\ UNCHANGED <<engine, call, loaded, started, stack, count, document>>

(* A child that the pass neither frees nor comes back to. *)
KeepChild ==
  /\ running.todo # <<>>
  /\ NextChild
  /\ UNCHANGED <<engine, call, loaded, started, stack, count, document>>

----------------------------------------------------------------------------
(* The stack is empty, or the list does not exist: ApplyList returns. *)
ListDone ==
  \/ Loaded /\ stack = <<>> /\ running.todo = <<>>
  \/ call \in Types \ DOMAIN lists

(* main makes the document of the DVI file, whose _private is the mathdoc. *)
ApplyText ==
  /\ call = "math" /\ ListDone
  /\ call' = "text"
  /\ FreshStack
  /\ doc' = doc + 1 /\ live' = Nodes /\ freed' = {} /\ home' = doc + 1
  /\ UNCHANGED engine

Save ==
  /\ call = "text" /\ ListDone
  /\ call' = "saved"
  /\ UNCHANGED <<engine, loaded, stack, count, started, running, document>>

Stopped ==
  /\ call \in {"saved", "crashed"}
  /\ UNCHANGED vars

Calls  == CallOnRoot \/ CallOnNode \/ CallOnFreed \/ Fault
            \/ XsltProc \/ XsltProcFails \/ DumpTree
Pass   == PushChild \/ MergeNext \/ PushAgain \/ DropChild \/ FreePushed
            \/ VisitChild \/ KeepChild
Engine == PushLast \/ Calls \/ Pass
Main   == ReadLine \/ ApplyMath \/ ApplyText \/ Save
Next   == Main \/ Engine \/ Stopped

(* One thread runs everything. *)
Spec == Init /\ [][Next]_vars /\ WF_vars(Main \/ Engine)

----------------------------------------------------------------------------
(* The last conjunct: the array of entries is never written or read past   *)
(* what is allocated.                                                      *)
TypeOK ==
  /\ script \in Scripts
  /\ read \in 0 .. Len(script)
  /\ DOMAIN lists \subseteq Types
  /\ \A t \in DOMAIN lists : lists[t] \in Seq(STRING) \ {<<>>}
  /\ call \in Types \cup {"init", "saved", "crashed"}
  /\ loaded \in Nat
  /\ stack \in Seq([node : Nodes \cup {ROOT_NODE}, pass : Nat \ {0}, doc : Nat])
  /\ count \in Nat
  /\ started \in Seq(STRING)
  /\ running \in [pass : Nat, todo : Seq(Nodes), pushed : Seq(Nodes)]
  /\ doc \in Nat /\ live \subseteq Nodes /\ freed \subseteq Nodes /\ home \in Nat
  /\ Len(stack) <= count

(* The work of a pass is over before the next pass of the list begins:     *)
(* below, the passes that have not started wait in reverse order; above,   *)
(* there is only work of the pass that runs.                               *)
StackShape ==
  Loaded =>
    /\ Len(started) + Len(stack) >= Len(lists[call])
    /\ \A i \in 1 .. Len(stack) :
         IF i <= Len(lists[call]) - Len(started)
         THEN stack[i] = Begin(Len(lists[call]) - i + 1)
         ELSE /\ stack[i].node # ROOT_NODE
              /\ stack[i].pass = Len(started)
    /\ running.todo # <<>> => running.pass = Len(started)

(* An entry names a node of the document that is loaded, which is there or *)
(* was freed by the pass that runs: a node freed by an earlier pass, and   *)
(* the nodes of a document that a stylesheet or main has replaced, are     *)
(* never reached again, however often a pass pushes and frees.             *)
Waiting == {stack[i] : i \in {j \in 1 .. Len(stack) : stack[j].node # ROOT_NODE}}
Pending == {work.node : work \in Waiting}
WorkInDocument ==
  /\ \A work \in Waiting : work.doc = doc /\ work.node \in live \cup freed
  /\ Range(running.todo) \cup Range(running.pushed) \subseteq live \cup freed

(* The passes that the first i lines of a file name for the list t, with   *)
(* the dumps they ask for, and those that the whole file names.            *)
Named(line, t) ==
  IF line.type # t THEN <<>>
  ELSE (IF line.name \in Registry[t] THEN <<line.name>> ELSE <<>>)
         \o (IF line.report THEN <<"dump_tree">> ELSE <<>>)
NamedBefore(file, t) ==
  LET named[i \in 0 .. Len(file)] ==
        IF i = 0 THEN <<>> ELSE named[i - 1] \o Named(file[i], t)
  IN  named
Declared(t) == NamedBefore(script, t)[Len(script)]

(* Each pass the file names, and that exists, is applied to the root once, *)
(* in the order of the file, whatever the passes before left of the        *)
(* document.                                                               *)
EachPassOnce ==
  call \in Types =>
    /\ IsPrefix(started, Declared(call))
    /\ ListDone => started = Declared(call)

(* while (xmlTransformationApply(&stack)) ends, for both lists, unless a   *)
(* freed node that was read kills the program: passes that push their      *)
(* nodes again, or nodes they free, do not make it go on for ever.         *)
Terminates == <>(call \in {"saved", "crashed"})

=============================================================================
