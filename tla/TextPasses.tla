----------------------------- MODULE TextPasses -----------------------------
(***************************************************************************)
(* The passes of src/src/lxir.c that make the texts of the document out of *)
(* the nodes of its pages, on one list of children: remove_page_nodes,     *)
(* remove_bop_nodes, transform_large_accent_pattern, remove_control_nodes, *)
(* what replace_xxx_nodes does with tags that stand alone, the three       *)
(* passes of the accents and merge_adjacent_text_nodes.                    *)
(*                                                                         *)
(* A node is a text, a control (push, pop, "kern" for the skips that split *)
(* no word, "space" for those that do), the tag of an accent, a bop or,    *)
(* under the name "xxx", anything else.                                    *)
(***************************************************************************)
EXTENDS Integers, Sequences, FiniteSets, SequencesExt, AccentTags

CONSTANTS
  Documents,  (* the nodes of the DVI files: texts [k, font, h, v, chars], *)
              (*   and the others [k], of which a bop starts a page        *)
  LineGap     (* 786432, "the normal spacing between lines"               *)

WrittenText == [k : {"text"}, font : Int, h : Int, v : Int, chars : Seq(STRING) \ {<<>>}]
OtherNode == [k : {"kern", "space", "push", "pop", "tag", "xxx", "bop"}]
ASSUME DocumentsAssumption == Documents \subseteq Seq(WrittenText \cup OtherNode)
ASSUME LineGapAssumption == LineGap \in Nat

VARIABLES
  src,       (* the nodes of all pages, in the order of the DVI file       *)
  addSpace,  (* ~do_not_add_space                                          *)
  kids,      (* the children of the root, or of its pages                  *)
  cursor,    (* the variable `node' of the pass that runs                  *)
  fsm,       (* `state' and `text1' of transform_large_accent_pattern      *)
  walk,      (* transform_accent_tags: the child of a text it is at,       *)
             (*   <<text, place>>                                          *)
  stale,     (* it has gone on from a node that was freed                  *)
  pc         (* the pass that runs                                         *)

textVars == <<src, addSpace, kids, cursor, fsm, walk, stale, pc>>
accentVars == <<fsm, walk, stale>>

(* make_node, for the n-th of the nodes: each glyph has its place. *)
Made(n) ==
  IF src[n].k # "text" THEN [k |-> src[n].k]
  ELSE [k |-> "text", font |-> src[n].font, h |-> src[n].h, v |-> src[n].v,
        items |-> [i \in DOMAIN src[n].chars |->
                    IF src[n].chars[i] = " " THEN Space
                    ELSE Char(<<[n |-> n, i |-> i, c |-> src[n].chars[i]]>>)]]

(* make_content: the nodes of a page are those from its bop to the next. *)
Bops == {n \in DOMAIN src : src[n].k = "bop"}
Page(first) ==
  LET last == CHOOSE q \in first .. Len(src) :
                (q + 1 > Len(src) \/ q + 1 \in Bops) /\ first + 1 .. q \cap Bops = {}
  IN  [n \in 1 .. last - first + 1 |-> Made(first + n - 1)]
Pages == LET firsts == Among([n \in 1 .. Len(src) |-> n], Bops)
         IN  [p \in 1 .. Len(firsts) |-> Page(firsts[p])]

TextInit ==
  /\ \E nodes \in Documents : src = <<[k |-> "bop"]>> \o nodes
  /\ addSpace \in BOOLEAN
  /\ kids = Pages
  /\ cursor = 1
  /\ fsm = [state |-> 0, text1 |-> 0]
  /\ walk = <<0, 0>>
  /\ stale = FALSE
  /\ pc = "page"

Runs(pass) == pc = pass /\ cursor <= Len(kids)
GoOn == cursor' = cursor + 1
Kept == UNCHANGED <<src, addSpace, accentVars, pc>>
Ends(pass, next) ==
  /\ pc = pass /\ cursor = Len(kids) + 1
  /\ pc' = next /\ cursor' = 1
  /\ UNCHANGED <<src, addSpace, kids, accentVars>>

(* remove_page_nodes: the nodes of a page take its place. *)
RemovePageNodes ==
  /\ pc = "page"
  /\ kids' = FlattenSeq(kids)
  /\ pc' = "bop"
  /\ UNCHANGED <<src, addSpace, cursor, accentVars>>

RemoveBopNodes ==
  /\ pc = "bop"
  /\ kids' = Among(kids, {n \in Elements(kids) : n.k # "bop"})
  /\ pc' = "large"
  /\ UNCHANGED <<src, addSpace, cursor, accentVars>>

----------------------------------------------------------------------------
(* transform_large_accent_pattern: push, a text, pop and a text, with any  *)
(* controls between them.                                                  *)

NextState(state, ks, n) ==
  CASE state = 0 /\ ks[n].k = "push"       -> 1
    [] state = 1 /\ ks[n].k = "text"       -> 2
    [] state = 2 /\ ks[n].k = "pop"        -> 3
    [] state > 0 /\ ~IsControl(ks, n) /\ ~(state = 1 /\ ks[n].k = "text") -> 0
    [] OTHER -> state

PatternComplete == Runs("large") /\ fsm.state = 3 /\ IsText(kids, cursor)

LookForPattern ==
  /\ Runs("large") /\ ~PatternComplete
  /\ LET state == NextState(fsm.state, kids, cursor)
     IN  fsm' = [state |-> state, text1 |-> IF state = 2 /\ fsm.state = 1 THEN cursor ELSE fsm.text1]
  /\ GoOn
  /\ UNCHANGED <<src, addSpace, kids, walk, stale, pc>>

MakeLargeAccent ==
  /\ PatternComplete
  /\ kids' \in MakeAccent(kids, fsm.text1, cursor)
  /\ cursor' = cursor + 1 - (Len(kids) - Len(kids'))
  /\ fsm' = [state |-> 0, text1 |-> 0]
  /\ UNCHANGED <<src, addSpace, walk, stale, pc>>

LargeAccentsMade == Ends("large", "control")

----------------------------------------------------------------------------
(* remove_control_nodes: a run of controls goes at once.  Between two      *)
(* texts it decides if they are one word: if so the second is added to the *)
(* first, and the walk goes on from what follows it.                       *)

LastOfRun(c) == CHOOSE q \in c .. Len(kids) : ~IsControl(kids, q + 1) /\ \A r \in c .. q : IsControl(kids, r)

(* Mutant: only the first control of the run is looked at. *)
HasSpace_First(c, q) == kids[c].k # "kern"

HasSpace(c, q) == \E r \in c .. q : kids[r].k # "kern"

Joined(t, u) == [t EXCEPT !.items = @ \o u.items]

PassOther ==
  /\ Runs("control") /\ ~IsControl(kids, cursor)
  /\ GoOn /\ Kept /\ UNCHANGED kids

RemoveRun ==
  /\ Runs("control") /\ IsControl(kids, cursor)
  /\ LET q == LastOfRun(cursor)
     IN  /\ ~(IsText(kids, cursor - 1) /\ IsText(kids, q + 1)) \/ HasSpace(cursor, q)
         /\ kids' = Without(kids, cursor, q)
  /\ Kept /\ UNCHANGED cursor

JoinOverRun ==
  /\ Runs("control") /\ IsControl(kids, cursor)
  /\ LET q == LastOfRun(cursor)
     IN  /\ IsText(kids, cursor - 1) /\ IsText(kids, q + 1) /\ ~HasSpace(cursor, q)
         /\ kids' = [Without(kids, cursor, q + 1) EXCEPT ![cursor - 1] = Joined(@, kids[q + 1])]
  /\ Kept /\ UNCHANGED cursor

ControlsRemoved == Ends("control", "xxx")

----------------------------------------------------------------------------
ReplaceTags ==
  /\ pc = "xxx"
  /\ kids' = WithElements(kids)
  /\ pc' = "tags1"
  /\ UNCHANGED <<src, addSpace, cursor, accentVars>>

(* The walk stays at the text that has grown. *)
GatherAround ==
  /\ Runs("tags1") /\ Between(kids, cursor)
  /\ kids' = Gathered(kids, cursor)
  /\ Kept /\ UNCHANGED cursor

PassUngathered ==
  /\ Runs("tags1") /\ ~Between(kids, cursor)
  /\ GoOn /\ Kept /\ UNCHANGED kids

Gathering == Ends("tags1", "tags2")

(* The walk goes on behind the text that the accent is put into. *)
PutBeforeText ==
  /\ Runs("tags2") /\ InFront(kids, cursor)
  /\ kids' = PutInFront(kids, cursor)
  /\ GoOn /\ Kept

PassNotInFront ==
  /\ Runs("tags2") /\ ~InFront(kids, cursor)
  /\ GoOn /\ Kept /\ UNCHANGED kids

(* The root's own accents have no text to take a letter from: an error     *)
(* each, and nothing is changed.  Its children are pushed on the stack of  *)
(* the engine, which calls the pass for the last of them first.            *)
AccentsInTexts ==
  /\ pc = "tags2" /\ cursor = Len(kids) + 1
  /\ pc' = "accent" /\ cursor' = Len(kids) /\ walk' = <<Len(kids), 1>>
  /\ UNCHANGED <<src, addSpace, kids, fsm, stale>>

----------------------------------------------------------------------------
(* transform_accent_tags for the children of the cursor-th node. *)

Walks == pc = "accent" /\ cursor >= 1
InWalk == IsText(kids, walk[1]) /\ walk[2] <= Len(kids[walk[1]].items)
AtAccent == Walks /\ InWalk /\ kids[walk[1]].items[walk[2]].k = "accent"

SameWalk(w) == walk' = w /\ UNCHANGED <<cursor, stale>>
NextCall    == cursor' = cursor - 1 /\ walk' = <<cursor - 1, 1>> /\ UNCHANGED stale
WalkOn      == SameWalk(<<walk[1], walk[2] + 1>>)
InAccents   == UNCHANGED <<src, addSpace, fsm, pc>>

PassItem ==
  /\ Walks /\ InWalk /\ ~AtAccent
  /\ WalkOn /\ InAccents /\ UNCHANGED kids

EndOfText ==
  /\ Walks /\ ~InWalk
  /\ NextCall /\ InAccents /\ UNCHANGED kids

(* No text is empty and the letters after an accent are still there at its *)
(* turn, so that an accent in a text finds a first one: no run stops for   *)
(* the lack of an action here.                                             *)
First   == Source(kids, walk)
Rest    == WithoutChar(kids, First)
Second  == Source(Rest, walk)
NoFirst == ~HasChar(kids, First)

(* The node the walk would go on from was read before the letters were     *)
(* taken.  If the first came out of the accent's own text, it is freed:    *)
(* its memory holds no sibling, or it is the text just made of what        *)
(* remains after the last letter taken, if anything does.                  *)
AfterError(taken, left) ==
  IF ~OwnNext(kids, walk) THEN WalkOn
  ELSE \/ NextCall
       \/ /\ HasChar(left, taken)
          /\ walk' = taken /\ stale' = (stale \/ taken[1] # walk[1])
          /\ UNCHANGED cursor

(* utf8_copy_char puts no NUL behind the letter, and conv was not set: the *)
(* text made of it ends there, or goes on with what an earlier letter, or  *)
(* another call, has left on the stack.                                    *)
TakeAccented ==
  /\ AtAccent /\ ~NoFirst /\ IsAccented(CharAt(kids, First))
  /\ LET taken == Replaced(Rest, walk, CharAt(kids, First))
     IN  kids' \in {taken, WithStray(taken, walk)}
  /\ WalkOn /\ InAccents

NoBase ==
  /\ AtAccent /\ ~NoFirst /\ ~IsAccented(CharAt(kids, First)) /\ ~HasChar(Rest, Second)
  /\ kids' = Failed(Rest, walk, CharAt(kids, First).gs)
  /\ AfterError(Second, kids') /\ InAccents

Compose ==
  /\ AtAccent /\ ~NoFirst /\ ~IsAccented(CharAt(kids, First)) /\ HasChar(Rest, Second)
  /\ LET accent == CharAt(kids, First)
         base   == CharAt(Rest, Second)
     IN  /\ Known(base, accent)
         /\ kids' = Replaced(WithoutChar(Rest, Second), walk, Char(accent.gs \o base.gs))
  /\ WalkOn /\ InAccents

UnknownAccent ==
  /\ AtAccent /\ ~NoFirst /\ ~IsAccented(CharAt(kids, First)) /\ HasChar(Rest, Second)
  /\ LET accent == CharAt(kids, First)
         base   == CharAt(Rest, Second)
     IN  /\ ~Known(base, accent)
         /\ kids' = Failed(WithoutChar(Rest, Second), walk, accent.gs \o base.gs)
         /\ AfterError(Second, kids')
  /\ InAccents

AccentsTransformed ==
  /\ pc = "accent" /\ cursor = 0
  /\ pc' = "merge" /\ cursor' = 1
  /\ UNCHANGED <<src, addSpace, kids, accentVars>>

----------------------------------------------------------------------------
(* merge_adjacent_text: a text is merged into the one that follows it.     *)

(* Mutant: the glyphs of the text are lost with it. *)
MergedInto_Lost(t, u) == u

MergedInto(t, u) ==
  [u EXCEPT !.items =
     t.items \o (IF addSpace /\ Head(u.items).k # "accent" /\ Head(u.items) # Space THEN <<Space>> ELSE <<>>) \o u.items]

(* Mutant: the fonts are not compared. *)
SameLine_AnyFont(t, u) == t.h = u.h \/ (u.v - t.v <= LineGap /\ u.h <= t.h)

SameLine(t, u) ==
  t.font = u.font /\ (t.h = u.h \/ (u.v - t.v <= LineGap /\ u.h <= t.h))

Neighbours == Runs("merge") /\ IsText(kids, cursor) /\ IsText(kids, cursor + 1)

PassLone ==
  /\ Runs("merge") /\ ~Neighbours
  /\ GoOn /\ Kept /\ UNCHANGED kids

DropEmptyNext ==
  /\ Neighbours /\ kids[cursor + 1].items = <<>>
  /\ kids' = Unlink(kids, cursor + 1)
  /\ Kept /\ UNCHANGED cursor

MergePair ==
  /\ Neighbours /\ kids[cursor + 1].items # <<>>
  /\ SameLine(kids[cursor], kids[cursor + 1])
  /\ kids' = [Unlink(kids, cursor) EXCEPT ![cursor] = MergedInto(kids[cursor], kids[cursor + 1])]
  /\ Kept /\ UNCHANGED cursor

KeepPair ==
  /\ Neighbours /\ kids[cursor + 1].items # <<>>
  /\ ~SameLine(kids[cursor], kids[cursor + 1])
  /\ GoOn /\ Kept /\ UNCHANGED kids

Merged ==
  /\ pc = "merge" /\ cursor = Len(kids) + 1
  /\ pc' = "done"
  /\ UNCHANGED <<src, addSpace, kids, cursor, accentVars>>

Ended == pc = "done" /\ UNCHANGED textVars

TextNext ==
  \/ RemovePageNodes \/ RemoveBopNodes
  \/ LookForPattern \/ MakeLargeAccent \/ LargeAccentsMade
  \/ PassOther \/ RemoveRun \/ JoinOverRun \/ ControlsRemoved
  \/ ReplaceTags \/ GatherAround \/ PassUngathered \/ Gathering
  \/ PutBeforeText \/ PassNotInFront \/ AccentsInTexts
  \/ PassItem \/ EndOfText \/ TakeAccented \/ NoBase \/ Compose \/ UnknownAccent
  \/ AccentsTransformed
  \/ PassLone \/ DropEmptyNext \/ MergePair \/ KeepPair \/ Merged
  \/ Ended

TextSpec == TextInit /\ [][TextNext]_textVars

----------------------------------------------------------------------------
Places(k) == {n \in DOMAIN src : src[n].k = k}
Place(g) == <<g.n, g.i>>
Letters == UNION {{<<n, i>> : i \in {j \in DOMAIN src[n].chars : src[n].chars[j] # " "}} : n \in Places("text")}
Before(f, g) == f[1] < g[1] \/ (f[1] = g[1] /\ f[2] < g[2])

(* The document in reading order, whatever the pass has left of the pages. *)
PlacesOf(gs) == [i \in DOMAIN gs |-> Place(gs[i])]
InItems(items) == FlattenSeq([p \in DOMAIN items |-> PlacesOf(items[p].gs)])
Written ==
  FlattenSeq([n \in DOMAIN kids |-> IF kids[n].k = "text" THEN InItems(kids[n].items) ELSE <<>>])

LettersIn(m, n) == {g \in Letters : m < g[1] /\ g[1] < n}

(* An accent whose tag is followed by no more than one letter before the   *)
(* next tag: it has no letter of its own to go on.                         *)
Stacked == \E m, n \in Places("tag") : m < n /\ Cardinality(LettersIn(m, n)) <= 1

(* No pass loses a glyph of the DVI file or puts one in two places, though *)
(* nodes are freed, merged forwards and backwards and moved out of their   *)
(* page under the walk, and letters taken out of texts not yet or already  *)
(* looked at.  (What the document may hold besides are the stray bytes     *)
(* behind a letter that transform_accent_tags copies: they are no glyph of *)
(* the file, and nothing is said of what they read.)                       *)
(* Their order is that of the DVI file, but when an accent has no letter   *)
(* of its own: then get_char_from_next_text passes over the accent after   *)
(* it and takes the first letter of the next text.  (Once the walk has     *)
(* gone on from a freed node it may try an accent again, and drop what an  *)
(* error had left in it.)                                                  *)
NoneLost ==
  (pc # "page" /\ ~stale)
    => LET read == Written IN Len(read) = Cardinality(Letters) /\ Elements(read) = Letters
InOrder ==
  (pc # "page" /\ ~stale /\ ~Stacked)
    => LET read == Written IN \A p \in 1 .. Len(read) - 1 : Before(read[p], read[p + 1])
GlyphsKept == NoneLost /\ InOrder

(* With --skip=sp the words of the document are the words of the paper:    *)
(* from the end of remove_control_nodes on, two texts without accents are  *)
(* joined exactly when only kerns were between them.  The two passes share *)
(* the work: what the first does not join, the second joins with a space.  *)
NextText(i, j) == i < j /\ {i, j} \subseteq Places("text") /\ Places("text") \cap i + 1 .. j - 1 = {}
OneWord(i, j) ==
  /\ NextText(i, j)
  /\ i + 1 .. j - 1 \cap Places("kern") # {}
  /\ i + 1 .. j - 1 \subseteq Places("kern") \cup Places("bop")

Touch(f, g) ==
  \E n \in 1 .. Len(kids) : IsText(kids, n) /\ \E p \in 1 .. Len(kids[n].items) - 1 :
    /\ f \in {Place(x) : x \in Elements(kids[n].items[p].gs)}
    /\ g \in {Place(x) : x \in Elements(kids[n].items[p + 1].gs)}

Plain == Places("tag") \cup Places("push") = {}

WordsAreThoseOfThePaper ==
  (addSpace /\ Plain /\ pc \in {"xxx", "tags1", "merge", "done"})
    => \A f, g \in Letters :
         f[1] # g[1] => (Touch(f, g) <=> /\ OneWord(f[1], g[1])
                                        /\ f[2] = Len(src[f[1]].chars) /\ g[2] = 1)

(* In a document without kerns every glyph has the font its text names:    *)
(* merge_adjacent_text joins no texts of two fonts, in however many steps. *)
TextsHaveOneFont ==
  (Places("kern") = {} /\ Plain /\ pc # "page")
    => \A n \in 1 .. Len(kids) : IsText(kids, n) => \A p \in 1 .. Len(kids[n].items) :
         \A g \in Elements(kids[n].items[p].gs) : src[g.n].font = kids[n].font

(* "Cette transformation [...] les remplace par le caractere accentue s'il *)
(* est disponible": when after every tag come its accent and its letter,   *)
(* of a known pair, whatever texts and controls they are in, and no accent *)
(* stands without a tag, the document has the accented letters.  Four      *)
(* passes take part: a tag is left before a letter that has its accent     *)
(* already, another is removed with it, an accent that is the first or the *)
(* last of a text finds its letter in the next, which may have been        *)
(* emptied by another.  The letters it has besides are those of the file,  *)
(* and behind a letter that got its accent from boxes, whose tag is still  *)
(* there, what conv held; without boxes there are no stray bytes.          *)
NextLetters(n) ==
  {fg \in Letters \X Letters :
     /\ n < fg[1][1] /\ Before(fg[1], fg[2])
     /\ ~\E x \in Letters \ {fg[1], fg[2]} : n < x[1] /\ Before(x, fg[2])}
Spaces(n, g) == {x \in n + 1 .. g[1] : src[x].k = "text" /\ \E i \in DOMAIN src[x].chars :
                   src[x].chars[i] = " " /\ Before(<<x, i>>, g)}
CharOf(g) == src[g[1]].chars[g[2]]

WellAccented ==
  /\ \A g \in Letters : (\E pair \in Accents : pair[2] = CharOf(g))
       => \E n \in Places("tag"), fg \in Letters \X Letters : fg \in NextLetters(n) /\ fg[1] = g
  /\ \A n \in Places("tag") : \E fg \in NextLetters(n) :
    LET f == fg[1]  g == fg[2]
    IN  /\ <<CharOf(g), CharOf(f)>> \in Accents
        /\ Spaces(n, g) = {}
        /\ n + 1 .. g[1] - 1 \cap (Places("tag") \cup Places("xxx")) = {}

AccentsRead ==
  (pc = "done" /\ WellAccented)
    => /\ \A n \in Places("tag") : \E fg \in NextLetters(n) :
            \E m \in 1 .. Len(kids) : IsText(kids, m) /\ \E p \in 1 .. Len(kids[m].items) :
              /\ kids[m].items[p].k = "char"
              /\ [i \in DOMAIN kids[m].items[p].gs |-> Place(kids[m].items[p].gs[i])] = fg
       /\ \A m \in 1 .. Len(kids) : IsText(kids, m) => \A p \in 1 .. Len(kids[m].items) :
            \/ kids[m].items[p].k = "char"
            \/ kids[m].items[p].k = "stray" /\ Places("push") # {}

=============================================================================
