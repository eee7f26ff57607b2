# TLA+ specifications of lxir

lxir turns a LaTeX paper into XML. The paper is compiled with styles that write
*tags* (`\special`s such as `{::tag lxir begin(section)}`) into the DVI file
and into TeX's log; the program `lxir` reads both files back and rewrites what it
finds into XHTML and MathML. This directory specifies the parts of the program
where the order of steps matters, checks the specifications with TLC on small
instances, and proves with TLAPS, for every input, what nine of them promise.

The program is one thread of C with no state on disk. What can go wrong in it
is not a race but an *edit under a walk*: almost every function walks over a
linked list of siblings (libxml2's `node->next`) while it unlinks, frees, moves
and inserts nodes of the same list, often with a second list (a stack of tags,
a stack of work entries, an array of cells, a text buffer) that must stay in
step with the first. The properties are about that.

## 1. Inventory

| Part | Code | State | Operations | What makes it right |
|---|---|---|---|---|
| DVI reader | `libdvi/libdvi.c` | stack of positions, fonts, current font, text buffer, list of nodes of a page | one per opcode of postamble and page; text closed by what follows | the nodes say what the page says, each glyph in its font and line; the buffer belongs to one text |
| font registry | `libfontmap/libfontmap.c` | five tables read once from the files of `config.xml`, a count of users | fill, look up, close | of two declarations of a name the same one is found for every kind |
| font metrics | `libtfm/` | tables of a TFM file | widths, kerning | not modelled |
| transformation engine | `src/transformations.c` | lists of passes, a stack of (node, pass) | Init, Push, PushLast, Apply, ApplyList | passes run once, in order; an entry names a node of the loaded document, there or freed by the pass that runs |
| tag hierarchy | `src/lxir.c` 505-978 | children of the root, `node_stack` | fill the stack, pair an open and a close tag, drop an orphan | tree and stack agree; tags pair as they should; nothing lost |
| text passes | `src/lxir.c` 131-498, 1002-1367 | children of a node | remove pages, bops, controls; accents; merge texts | no glyph lost, words stay words |
| verbatim formulas | `src/lxir.c` 1481-1580, `contrib/scripts/lxirlatex.py` | a string | escape, read back | the formula comes back |
| log reader | `src/log2xml.c` 100-320 | a tree, the last node, its depth | one per line of the log | the tree has the nesting of the dots |
| formulas | `src/log2xml.c` 340-634, 2660-2791; `src/lxir.c` 1369-1464 | log, document of expressions | three extractions, the move into outer formulas, the lookup by two ids | a formula gets its own expression |
| math passes | `src/log2xml.c` 636-2653 | tree of a formula, the engine's stack | 28 rewrites into MathML | the MathML says what the formula said |
| document structure | `src/postxml.c` | tree, the node a pass is at | lists, bibliography, paragraphs, sections | reading order kept, sections nest by level, items and sections hold what follows them, paragraphs end at marks and nowhere else |
| tables | `src/postxml.c` 261-470, `src/table.c` | column model, groups of lines; rows of cells, spans | make lines of a flat list, count row spans, remove cells under spans, align | no cell lost or moved to another line; what a browser shows is what LaTeX set |
| entities, UTF-8 | `src/entities.c`, `src/utf8string.c` | none, or a compiled expression | conversions | modelled by what they do, in MathMarkup and AccentTags |
| tools, scripts, styles, stylesheets | `libfontmap/tools`, `contrib`, `texmf` | - | off-line generators, calls of other programs, code run by TeX and libxslt | not modelled; what the styles write is the input of Hierarchy and Formulas |

How they interact. `main` (`src/lxir.c` 1630-1724) fills the font registry, calls
`dvi_read` (libdvi), which looks up each font of the postamble in it, then
`init_transformations` reads `transformations.xml` into the lists of passes,
`mathlog_read_file` reads the log (log reader), extracts the formulas and
applies the list *math* to them with the engine; the document is then made from
the pages (`make_content`), is given the log's document as `doc->_private`, and
the list *text* is applied to it: text passes, tag hierarchy, replacement of
formulas, stylesheets, document structure, tables. All calls are direct; the
only indirection is the engine, which keeps pointers to nodes between calls of
a pass. Errors end the program (`lxir_exit`, `exit`), which the models show as
a last state of their own.

There is no concurrency, no message, no crash recovery and no timeout in the
code; hazards of those kinds are not listed. `PROJECT.json` lists those the
code does have, each at its line.

## 2. Modules

| Module | Models | Run by | Proved in |
|---|---|---|---|
| `Lists` | linked lists as sequences: unlink, move before, take out a segment, keep what passes a test | | `ListsProofs` |
| `TagPairing` | abstract: which tags may be paired, in any order | | |
| `Hierarchy` | `replace_xxx_nodes`: `fill_node_stack` and `build_hierarchy_step` | `MCHierarchy` | `HierarchyProofs` |
| `HierarchyTree` | properties of the finished tree (reading order, balanced documents) | `MCHierarchy` | `HierarchyProofs` |
| `Transformations` | the engine and the two lists as `main` applies them | `MCTransformations` | `TransformationsProofs` |
| `DviMachine` | abstract: what a page says | | `DviFileProofs` |
| `FontChoice` | abstract: which declaration of a font or encoding is in force | | `DviFileProofs` |
| `FontMap` | the tables of `libfontmap.c`, as operators on their value | `MCLibdvi` | `DviFileProofs` |
| `Libdvi` | the page interpreter, with nodes and buffer | `MCLibdvi` | `DviFileProofs` |
| `DviFile` | `dvi_read` as `main` calls it: tables, postamble, preamble, pages; implements `DviMachine` | `MCLibdvi` | `DviFileProofs` |
| `ReadLog` | `read_log_file` | `MCReadLog` | `ReadLogProofs` |
| `Formulas` | extraction and replacement of formulas | `MCFormulas` | `FormulasProofs` |
| `AccentTags` | the three passes on accents, and the large accents | `MCTextPasses` | `TransformationsProofs` |
| `TextPasses` | from pages of nodes to merged texts, with the accents | `MCTextPasses` | `TransformationsProofs` |
| `MathTree`, `MathBoxes`, `MathMarkup` | the trees of formulas, the passes on boxes, the passes on characters and rows | `MCMathPasses` | |
| `MathLog` | what TeX writes in its log for a formula | `MCMathPasses` | |
| `LogFixes` | `texmf/xslt/log-fixes.xsl` and what it includes, the last pass of the math list | `MCMathPasses` | |
| `MathPasses` | the math list as the engine runs it on a formula | `MCMathPasses` | |
| `Verbatim` | escaping in the driver, reading back in the program | `MCVerbatim` | `FormulasProofs` |
| `PostXml` | the passes of `postxml.c` on lists, bibliographies, paragraphs and sections | `MCPostXml` | `PostXmlProofs` |
| `Table` | `table_create_from_node`, `clean_rowspan`, alignment | `MCTableSpaces` | `TableProofs` |
| `Tabular` | the pass on tabulars of `postxml.c`, and `Table` on its result | `MCTable` | `TableProofs` |

In every module the state follows the code's variables and keeps their names
where TLA+ allows it; each definition's lines are in the `map` of
`PROJECT.json`. An action is one iteration of a loop or one handler, with all
the edits it makes. Definitions named `X_Something` after a comment *Mutant* are
not used by any specification: they are plausible bugs, each of which a run
refutes (the list is in `PROJECT.json`).

**Hierarchy.** A node is its position in the input, so that "no node lost,
doubled or reordered" is a statement on sequences of numbers. `kids` are the
children of the root, `inside[n]` those given to the element that replaced the
tag `n`, `stack` is the `node_stack`. The input is every sequence of tags
(open or close, with a name), text, empty tags, specials and unreadable specials.
Reading the name and attributes of a tag is abstracted to what it yields.
`ReplaceByElement` has the code's case of a node without next sibling, where the
new element is attached to nothing.

**Transformations.** The contents of `transformations.xml` are a constant set
of files. A C pass is modelled by what all of them do with each child of their
node: free it with what is below, keep it, push it, or call the pass on it and so go
on below it. `MergeNext` is a child that takes in the next one and is pushed, to be looked at
and pushed once more (`merge_accent_tags1`); `PushAgain` pushes what the
call has pushed already (`make_paragraph_before`); `FreePushed` frees it while its
entry waits (`transform_subsup_pattern`). So entries may name freed nodes. A pass that is
called on one (`CallOnFreed`) finds no children, those freed with it, or those of
another node, or the program dies (`Fault`, to the state "crashed"). What `WorkInDocument`
promises is that such an entry never outlives the pass that freed its node: `freed` is
what was freed since the running pass was called on the root. A stylesheet replaces the
document or fails. Not in the model: a pass that pushes the node it was called on, and
so might go on for ever, and one that makes nodes.

**Libdvi, DviFile.** One action per opcode with the flags of `--skip`; the text buffer and
its size are explicit, with the byte-level glyphs of the fonts. Assumed, as TeX
writes it: a font is selected before a character is set, and a font of the
postamble has a name. `dvi_new_fp` leaves the
font uninitialised: a skip before the first font selection is a nondeterministic
choice. `DviFile` adds what comes before the pages: `lfm_init`, whose result `main`
does not look at, the postamble, one action per opcode, which asks the tables for
the map of each font, and the preamble. Widths and kerns are left out. A file is
sequences of opcodes, any number of them; what is said of the spaces of a page
(`SpacesBetweenGlyphs`) is said until `lfm_close`, after which the glyphs of its
fonts can no longer be looked up in the tables.

**FontMap.** A table is a sequence that begins at the head of the linked list; a
pointer to an encoding is its place in the order of allocation. A configuration
is a sequence of files, each there or not, optional or not, with the
declarations it holds; finding and parsing them is abstracted. `FontChoice` states
what all of it amounts to: the file named first in `config.xml` wins, and in a
file the last declaration. So `user.xml`, which the program's own `config.xml` names
last, can add fonts but override none. `FirstFileWins` says so of every name but
`LxirNeutralFont`, which the program itself puts at the head of the fonts after
it has read the files. An unknown font of a formula is
looked up as `tenrm` by a recursive call: without `mathfonts.xml`, which
`config.xml` marks optional, the recursion does not end (`MathFontFor` is 0).

**ReadLog.** A line is what the reader tests it for: a page start, dots and a
node, a blank, or anything else.

**Formulas.** A document is pages of blocks (a display or none, then a line of
formulas, plain, nested, at the start of a line or broken over two);
`Log` is what TeX writes in its log for it with the tags of `lxir_math.tex`,
among them `eqnarray`, whose display is untagged. Expressions are the numbers of
their symbols.

**TextPasses, AccentTags.** `kern` stands for the controls that split no word (`right`, `x`,
`w` other than 1), `space` for the others. A text is a font, a place and letters,
where the accent is a letter of its own until a pass joins it to the one it
belongs to. Two reads of freed memory are modelled as either outcome: after
`make_accent` has freed the text before a tag (`src/src/lxir.c` 354) the tag
may stay or go (`MakeAccent` is a set of results); after an accent that no table
knows (1340) the walk may end or go on, so that later accents of that text may
be left as tags. And one read of memory never set: a letter that has its accent already
is copied into `conv` without a NUL behind it (1325), and the text made of
`conv` (1343) ends there or goes on with bytes of an earlier letter or call: `Stray`, a character
of no glyph, which may come behind the letter and is read by later passes like any other.
`GlyphsKept` is about glyphs: none is lost, doubled or moved by strays, but strays may stand
between them, and the document then says more than the paper. An accent that finds no letter passes over the next accent,
as the comment at 1283-1290 says. That an accent inside a text finds no letter at all
(1316-1321) cannot happen: there is no action for it, and the run, which looks for
deadlocks, shows that none is needed. It happens to accents outside texts only, where
it changes nothing.

**MathPasses.** A formula is a nesting of constructions (fraction, scripts, limits,
line, root, fence, array, accent, symbol, entity, character); `MathLog` makes of it the boxes
TeX writes for it in its log with the tags of `lxir_math.tex`, the passes rewrite
that, and `Reading` says what the MathML at the end says, to be compared with `Meaning` of the
formula. Freed nodes stay in the model as `freed`; what a pass reads in one is
any node. The last pass is the stylesheet `log-fixes.xsl`, in `LogFixes`: scripts
without a base become prescripts of the script behind them, and a number before a
script of a number goes into its base. `Meaning` says what is meant by that: a script
belongs to the whole number before it, and a script without base before a script is its
prescript.

Two lists are part of the specification because the code is so. `Fatal` are the formulas
that end the program: a digit in old style behind any character of its font, when
the font has a `mathvariant` (as those in `mathfonts.xml` that have old-style
digits do); two of them, or another digit behind one, in a font without; and an accent over
nothing. `Readable` are the formulas that come through right. It leaves out:

- empty arguments of a fraction, root, limit or script; lone limits in a fraction, line
  or root, a root of a lone bottom line; lone limits, lines or fences as script, as
  limit, or as base of a double script; limits set beside an operator, shifted or
  inline; an array alone in the cell of another; operator names of several characters,
  whose content is parsed to several nodes and so becomes an `mrow` with text in it;
- accents over a number of two digits or several letters of one variant (only the last
  character gets it), in accents (only one is left), over an empty group; scripts on accents;
- a row that begins and ends with a box of one character, or one with a box of
  one and the other of none: it is taken for what stands between fences;
- numbers of digits of two variants; a number before a base with two scripts, or a number in
  several elements before a script of a number (only the last gets into the base);
- what `log-fixes.xsl` takes for a row though it stands in the places of an element, as
  the two arguments of `\frac{1}{2_3}`; a minus and a number alone in a row, when the number
  has a variant, which is lost;
- scripts without a base, unless one stands inline before another script with nothing in
  front of it that the earlier passes would take for its base.

`FormulaIsRead` is an equivalence: of the formulas of the run, nothing else is
misread and all of these are. It is no statement about formulas that are not in the
families of `MCMathPasses` (constructions nested deeper than two, rows of more than
three), nor about a stylesheet that fails. Three files disagree with the code on
such formulas and are not followed: the expected results of the tests
`src/testsuite/lxir.math/bar`, `dot` and `aa12695-09_2` have accents as an `<mtable>` and `<msub single="1">`,
an older form; what `lxir_math.tex` (184-186) writes for them now, `transform_math_above2`
makes a token with a combining character of. And the comment of
`log-prescript.xsl` (27-46) shows a subscript in the place of the superscript, where its
template writes it in its own.
The test that the pieces of a fence have one height
(`src/src/log2xml.c` 1289) is one-sided, as in the code.

**Verbatim.** The ten `replace` of the driver and the ten `transform_content` of
the program, one step for each replacement; then the formula is put into the document
by `xmlNewChild`, which takes an ampersand for the start of an entity
and drops what it cannot read, or the macro is, with the attributes that
`fill_attributes` reads by counting braces.

**PostXml.** A node is its position in the document of the stylesheets; `kids`
gives the children of each node, and `work` is the engine's stack, so that the
calls a pass pushes run in the order of the program. A paragraph the program
makes is a new node. That nothing stands below a `parsep` is an assumption on the
documents: the styles write it with `\xEmpty` (`src/texmf/tex/lxir.sty` 75, 515).

**Table, Tabular.** A tabular is its column model and a flat list of rules, cells, multicolumns
and ends of lines, as the styles write it; `Tabular` makes lines of it as `postxml.c` does,
one action per kind of node, hands them to `Table`, and takes the cells under
row spans out; `gone` are the cells taken out of the tree while the arrays of
cells still hold them. `LinesKept` names what the code is known to lose: a last line
that no end of line closes, and the lines of a tabular that stands in a cell
(the search for the end of a line finds that of the inner tabular, and ends the
outer line with it). Rules between lines that a cell spans are counted as lines
of the span.

## 3. Runs

"Violation" runs state what a document, a comment or the other half of an
encoding says; TLC shows an input for which the code does something else, and
`findings` in `PROJECT.json` quotes the line. All the others pass.

| Run | Question | Bound |
|---|---|---|
| `hierarchy` | pairing, agreement of tree and stack, reading order, only trailing tags lost, balanced documents, end, refinement of `TagPairing` | all documents of up to 5 nodes, two names: enough for crossed pairs with a node between |
| `transformations` | stack discipline, entries only for nodes of the document that are there or freed by the running pass, allocation, each pass once and in order, end or a crash on a freed node | a tree of 5 nodes on 3 levels, every choice of a pass for every node; the order of the real file and every file of up to 3 lines; one entry allocated at first, so that the array grows several times |
| `libdvi` | the nodes say what the file says, and it is refused just if it must be (refinement of `DviMachine`); buffer and spaces; which declaration is in force | any opcodes, 4 of them; opcodes that fill and close texts in two fonts, 7 (two texts and what lies between); that nest boxes, 9 on two pages; 2 files of 2 declarations each of 12, 3 files of one or missing; postambles of 3 opcodes, with numbers defined twice and with opcodes behind the end |
| `read_log` | nesting is dots, reading order | 11 lines, 3 dots |
| `table` | lines kept; removal and layout of cells | tabulars of 2 and 3 lines of up to 2 cells under a spanning cell; 2 lines of 2 columns with every rule, column model, end and inner tabular between |
| `table_spaces` | violation: a cell of spaces has no content | 2 rows |
| `formulas` | own expression or none, and none only behind an untagged display; give-ups; no symbol copied; an end | 3 blocks on 2 pages: a robbed formula, its robber and a bystander |
| `math` | the MathML says what the formula said just if the formula is `Readable`, and there is one just if it is not `Fatal`; no use of freed nodes but those known | every construction inside every other and two side by side (of one accent, one height of fences and three bases), each of them over nothing, scripts on accents, numbers and prescripts before scripts in rows of three and in places, accents in accents, all inline and displayed; runs of 3 characters of several fonts, inline |
| `texts` | glyphs, words and fonts kept, accents on their letters | 4 nodes at one place; 3 nodes in 12 places and fonts; 4 nodes with letters in texts, 6 of single letters, 6 with boxes: two accents and what lies between |
| `verbatim` | which formulas come back; what TeX is given | 4 of 11 characters: a code across two others, a code in what was just read, an attribute with braces |
| `verbatim_marks` | violation: all formulas come back | the same |
| `postxml` | reading order, nesting of sections, what items and sections hold, extent of paragraphs | flat documents of 5 nodes, lists of 4, boxes with marks in them |

The bounds are the least in which the
interactions of interest occur (two overlapping pairs, a second growth of an
array, a text that is merged twice, ...); each property is shown to be able to
fail by a mutant found within the same bound.

Two things the models show are no errors of the runs but worth knowing.
`LostOnlyAtTheEnd` allows what the code does when the last child of the root is
an empty tag, a special or an orphan: `node->next` is NULL, so the element that
replaces it (`src/src/lxir.c` 812-814, 900-903) is attached to nothing and is not
in the result. And `WordsAreThoseOfThePaper` speaks of `--skip=sp` only: with the
default `--skip=1`, `do_not_add_space` is set, and `merge_adjacent_text` joins two
texts without the space that the comment at `src/src/transformations.xml` 69-71
shows between them.

**Fairness.** `Hierarchy` and `Transformations` have weak fairness of their
steps: the code is straight-line C in one thread, a step that can be taken is
taken. Their `Terminates` rests on it. `Formulas` needs none: `StepsRunOut` is a
measure that every step decreases, in the lexicographic order of the passes to come,
the begin tags that are still in the log, and the nodes still to be walked over. The
last one alone would not do, as `extract_special_inline_math` walks back to a
node it has inserted. Runs whose system may stop (end of file, an
error, the bound on lines or opcodes) do not check deadlock.

## 4. Proofs

Each theorem holds for every value of the constants that meets the named
assumptions of its module (the `ASSUME`s of `Hierarchy`, `Transformations`,
`Libdvi`, `ReadLog`, `Formulas`, `Table`, `Tabular`, `Verbatim`, `TextPasses` and `PostXml`; TLC evaluates
them in the runs, and they say no more than what kind of thing a constant is; that of
`Tabular`, that a table has a column and its cells and rules stand in the columns it has,
as TeX has no others). `theorems` in `PROJECT.json` lists
them with the property each one states.

| Module | Theorem | States | For every |
|---|---|---|---|
| `HierarchyProofs` | `TypeCorrect` | `[]TypeOK` | document, set of names |
| | `StackAndTreeAgree` | `[]StackMatchesTree` | |
| | `NoPendingTagInside` | no tag that waits for its partner is carried into an element | |
| | `ElementsClosedByOwnName` | `[]ClosedByOwnName` | |
| | `ElementsAreFinal` | `BuiltIsFinal`, an action property | |
| | `PassImplementsPairing` | `ImplementsTagPairing`, a refinement | |
| | `ReadInOrder` | `[]DocumentOrderKept` | |
| | `OnlyTheEndIsLost` | `[]LostOnlyAtTheEnd` | |
| | `BalancedAreRebuilt` | `[]BalancedRebuilt` | |
| `TransformationsProofs` | `TypeCorrectness` | `[]TypeOK`, with the allocation of the stack | tree, registry, file, first size of the stack |
| | `PassesInTurn` | `[]StackShape` | |
| | `WorkStaysInDocument` | `[]WorkInDocument` | |
| | `DeclaredPassesOnce` | `[]EachPassOnce` | |
| | `NoWorkAcrossDocuments` | an action property: a document is replaced when nothing waits | |
| | `FontsStayApart` | `[]TextsHaveOneFont` of `TextPasses` | list of DVI nodes |
| | `GlyphsStay` | `[]GlyphsKept` of `TextPasses` | list of DVI nodes, set of accents |
| `DviFileProofs` | `TypeCorrectness` | `[]TypeOK`, with the size of the buffer | file, configuration, flags |
| | `TextsComplete` | `[]BufferOfLastText` | |
| | `SpacesAreSingle` | `[]SpacesBetweenGlyphs` | |
| | `FirstFileIsInForce` | `[]FirstFileWins` | configuration |
| | `PagesSayWhatIsRead` | `ImplementsMachine`, a refinement | file, configuration, flags |
| `ReadLogProofs` | `LogIsReadInOrder` | `[]LinesInOrder` | log |
| | `DepthIsDots` | `[]NestingIsDots` | |
| `FormulasProofs` | `CharsMovedOnce` | `MovedOnce`, an action property | document |
| | `WalksRunOut` | `StepsRunOut`, an action property | |
| | `ToDoIsNatural` | what is left to do is three natural numbers | |
| | `TeXIsGivenInertText` | `[]InertInTeX` of `Verbatim` | formula, set of characters |
| `TableProofs` | `OnlyEmptyCellsGo` | `[]OnlyEmptyCellsRemoved` | table |
| | `AcceptedLooksTheSame` | `[]LayoutKept` | table |
| | `TabularsLoseOnlyEmptyCells` | `[]OnlyEmptyCellsRemoved`, of `TabularSpec` | tabular |
| | `TabularsLookTheSame` | `[]LayoutKept`, of `TabularSpec` | tabular |
| `PostXmlProofs` | `ReadInOrder` | `[]ReadingOrderKept` | document |

### The arguments

**Hierarchy.** `IInv` is the type invariant, the three invariants and `Phases`
(in the first phase nothing is built; in the second all nodes have been looked
at). None of the three is inductive alone. A pair is moved into the tree by
*positions of siblings* but chosen by *positions on the stack*, so that no
pending tag may stand between two neighbours of the stack (`StackMatchesTree`);
that gives `NoTagInsideElement`; and that a match is no other element's close
tag needs the tags in `closedBy` to be off the stack. One lemma per step
(`PairEffect`, `ReplaceEffect`, `PushEffect`) says what it does to the two
lists; the preservation theorem then has one step per action. The refinement
maps the stack and the unread tags to `pending`; a step of the pass is a pairing,
the drop of an orphan, the verdict or a stutter.

**HierarchyTree.** The properties are about `Preorder`, a recursive reading of
the finished tree; the lists the pass edits say nothing of it directly. `Nested`
adds a bound `hi[n]` for the nodes below each `n` such that everything below a
node comes before its next sibling and before its close tag; the bound is
existential, and a pairing sets it for one node. Under `Nested`, what `Preorder`
reads is strictly ascending, by induction from the last node to the first
(`SubtreesRead`). `Accounted` says of every node that it is placed, is the close
tag of an element, or is a tag after which nothing is placed: a loss is only
possible at the end of the root's children, and nothing is put there afterwards.
For balanced documents `Rebuilt` says that partners, as the counting of tags
defines them, wait on the stack together or are both done, and that an
element holds just what stood between: the first close tag on the stack
follows its own partner at once (`FirstPair`), so the document is never refused.

**Transformations.** The stack grows by one kind of step and shrinks by
another, and between them the engine holds indices into it. The
inductive invariant says what the file has put into the lists so far
(`FileRead`, with the recursive `NamedBefore`), that the stack is empty or half
loaded while a list is put on it (`Loading`), that passes have started in the
order of the list (`InTurn`), with `StackShape` and `WorkInDocument`. That an entry names a node
there or in `freed` cannot be lost by a free, which moves nodes from `live` to `freed`, nor by
a push, which names a node the call is at or has pushed; what a call on a freed node
finds is in one of the two sets as well. It could be lost only where `freed` is
emptied, when a pass is called on the root, or where the document is replaced. There it takes
`InTurn`: an entry for the root is at the top only when all work of the pass before is off the
stack, so that no entry is left to name anything.

**TextPasses.** What the property says of glyphs is about every text a pass can see, in
pages and after them, so `FontsInv` says what the nodes are: in a document without kerns,
boxes and accents they are texts whose glyphs have the font of their text, or nodes
without glyphs (`UnmixedNode`), page by page at first and in one list later; the pattern of
a large accent never begins, since its first node is a kern. The passes that take texts
apart or join them over a run of controls are then shown not to find what they look for, by
the kinds of the nodes alone; it is `merge_adjacent_text` that joins texts, and it
compares their fonts. The document is any list of nodes: the proof takes from `DocumentsAssumption`
only that texts have a font, a place and letters.

That no letter is lost or read twice (`GlyphsKept`) is proved from a reading of the list:
each node says its letters, with a mark where an accent waits, and the list says what its
nodes say, one after the other (`ReadOff` in `ListsProofs`, which has no
RECURSIVE and is shown to change at one place when the list does). `GlyphsInv`
says that before `remove_page_nodes` the pages, one behind the other, are all nodes that
`make_node` made (`All`), and that afterwards the list says every letter
once and, unless the document has stacked accents, in order (`Faithful`). Each pass is then
one lemma: a bop, a control or a run of them says nothing; a join of two texts says
what both did; `transform_large_accent_pattern` and the two `merge_accent_tags` move nodes that
say no letter. Two things had to be added for `transform_accent_tags`, which takes letters
out of texts behind the accent. The marks stand far apart (`Spread`: at
least two letters between two tags, or else the accents are stacked), so that no
accent reaches over the next one for its letters; this is carried from the tags of the DVI
file through all passes, and during the walk it is kept for the texts still to be
tried (`Untried`, from the cursor back to the first node). A stray says no letter; all that is to
be shown of it is that the list says the same with it (`StraySays`), and what is still
to be tried is as it was (`StrayWell`). Nor has an accent among those any
letters yet (`Well`), so that what an error puts into it is put behind nothing. The step that
takes two letters is two steps that take one (`TwoTaken`). Once the walk goes on from a freed node (`stale`), the
property claims nothing, and neither does the invariant.

**ReadLog.** A node is put below the node that is reached from the last one by
`depth - dots` climbs. All that makes this right is that the last node is at
the end of the spine, the path of last children from the root: a climb stays
on the spine (`ClimbOnSpine`), and a node added at the end of the spine comes last
in the reading (`ReadingGrows`). `Levels` gives the dots of a parent from those of its
child. It is exact from two dots on; a node with none or one may hang below the
page or below a node without dots, which is why `NestingIsDots` speaks of pages
whose first node, and no other, has no dots, as TeX writes them.

**Libdvi.** `IInv` is the types of all the parts of a page (`Typed`), the state
of the file (`Opened`, `Encoded`), and of a page that its buffer fits (`Roomy`), that
only the last text can be open and the buffer is its text's (`Owned`), and that
its spaces are single (`Spaced`). `Owned` is what makes `TextsComplete` inductive:
each opcode either closes the text, leaves it, or extends it, and a font
change or a move does not know which unless the buffer says so. A character adds to
the buffer what the map of its font says, so the types of the tables, and that
a pointer of a font points to a map (`Pointing`), are part of `IInv`.

**FontMap.** The files are read first to last into a list that is filled at its
head, the tables are filled from that list at the head or at the end, some with a
test whether the name is there, others without; and what is looked up is the
first that fits. That all of these give the same declaration is followed through
each list as *the first (last) element of the list in a set* (`FirstIn`,
`LastIn`): a lemma for appending, prepending, reversing, joining and filtering
says how it moves; `EncodingInForce`, `FontsLookedUp`, `MathFontsLookedUp`,
`AccentsLookedUp` and `LigatureInForce` are the five results. `TablesStay` says that no
later opcode changes the tables.

**DviFile.** The mapping reads the nodes of the page and the buffer back into items
(`Says`), and the list of pages likewise; each action is shown to append to what
is said just what the abstract step appends, by lemmas on a text that is closed, extended
or opened and on a space that is appended (`ClosedSays`, `ExtendSays`, `OpenedSays`,
`SpaceSays`). Three things more have to be known of a state, and are the invariant
`Prepared`. The list of fonts holds, foremost for each number, the *last* definition that the
postamble has read for it, with the map that the tables had when it was read
(`InList`); `TablesStay` makes that the map they have when a character is set, so that a
glyph is what `DviMachine` expects (`GlyphIs`). A file whose pages are read has
nothing wrong before them. And an open text stands in the current line
(`AtLevel`), since only a move closes it that changes the line. That a
file is refused rests on one more equivalence: the tables are in use just if all
files of the configuration could be read and a font is declared (`TablesInUse`).
The proof found a flaw of the mapping that TLC had not met: it took the fonts from the whole
postamble, where the code takes those before the first `post_post`. `FontDefs` now says so,
and the run has postambles with opcodes behind their end. `InputAssumption` says of
`Unset`, the value of the font before one is selected, that no font has it as its number.

**Formulas.** The invariant is small (the lists are lists of nodes and no walk stands
past the end of its own); what has to be proved is in the steps. An
extraction takes the nodes from one place to another out of a list of siblings,
the first begin tag and the first end tag of the formula out of what it took, and
puts one node where they were; which nodes it takes depends on patterns that a
broken formula may not meet. So the lemmas suppose nothing of the nodes: whatever
lies between two places, what is left and what was taken have together the characters
of the list (`ExpressionIs`, `RestIs`, `NumberMoved`), and the log loses a begin tag
or the walk has less before it (`Decreases`).

**Table.** `gone` is told from the loop's side: it is just what the cells
passed so far span, in their column, where the code did not refuse the span. That a
cell is not removed twice is the question whether two cells above it can both
span it: of two in one column, the lower one stands below the other's span
itself, so that it is gone and spans nothing. That two cells of a row are never in one
column rests on the sum of the widths before a cell (`Total`), which grows from
cell to cell. What a browser shows follows from that when all cells are passed
(`Settled`; an accepted table has come so far, `AllPassed`): by induction over the cells
of a row and over the rows, those placed so far are those that are left, each
in its own column (`PutIs`, `PutRowIs`). For the next cell, each column to its left
is covered, by a cell of the row or, if that one is gone, by the one above it that spans it
(`LeftIsTaken`); its own is free, since a span above that covers it would have taken it
out (`OwnIsFree`). That is where spans have to be one column wide: a wider one
covers cells that the code leaves there. The same two theorems are proved of `TabularSpec`,
which is what the run checks and where the tables come from LaTeX. `TabularInv` says what
kinds of nodes the pass on tabulars still has to read, keeps in its rows and has built, so
that the stylesheet makes cells of them with spans of one column and one row at least
(`TrsType`, `UpdateRowspanKeeps`: a `\multirow` is taken over from two rows on); until
`clean_rowspan` starts, nothing is passed or removed. A `\cline` contributes empty cells to
the left and to the right of its rule, which is where the assumption that rules stand
in the columns of the table is used.

**Verbatim.** After the `k`-th of the ten calls of `replace`, the text holds none
of the characters that the first `k` look for, other than the escape character
(`EscapedSoFar`). It is inductive because no call writes a character that an
earlier one took out (`TableInOrder`), a fact on the table alone.

**PostXml.** The property is about the reading of the whole tree, the steps
change one list and the list of a mark in it. The invariant says that the tree is
one (`IsTree`): each node stands for a piece of the document, `lo[n]` to `hi[n]`; the pieces of
siblings follow each other, and lie in the piece of their parent. At first the
piece of a node is what stands deeper behind it. A mark that takes its siblings
reaches as far as the last of them did (`MovedTree`: lists, bibliographies and
sections are one lemma, as what they share is that each node taken comes behind its
mark and behind all that an earlier mark takes); a new paragraph has the piece from its
first to its last node (`WrappedTree`); a `parsep` that is taken out held nothing
(`WithoutParsepTree`). So the bounds change only where a list is changed, and need not
be computed: the invariant says that they exist. Each node also has a height above
its children's, below that of the root, without which `Preorder` could be
read of a tree that has a loop; a paragraph, or a mark above its siblings, finds room between two heights because
the step doubles all of them. With these, what is read is ascending
and has every node that is in some list (`SubtreesRead`, `NodesRead`, `TreeInOrder`). The
engine contributes that a pass stands in the list of a node that is in the tree
(`IInv`), however often its nodes were pushed.

**Lists.** The recursive operators (`FlattenSeq`, the module's own `Among`,
`Preorder`, `NamedBefore`, the folds over declarations) are functions defined by
recursion, and their theorems need induction. The induction theorems of the
library have an operator as parameter, which the provers at hand cannot
instantiate; `ListsProofs` therefore derives, from the least element of a set of
naturals (`LeastNatural`), induction in the form *a set of naturals that holds 0
and each successor holds all* (`InductionOnSet`), and the existence and
uniqueness of functions defined by recursion on an interval (`Recursion`,
`RecursionUnique`). This is also why `Among` stands where one would write
`SelectSeq`, whose parameter is an operator.

**CASE.** A proof has to take the arms of a CASE as alternatives of which any true one may be
meant, where TLC takes the first. The proof of `GlyphsStay` met one whose guards overlapped
(`NextState` of `TextPasses`), and a search two more (`MathLog`, `AddChar` of
`MathMarkup`); their guards now exclude each other, as the `else` of the code does.

### Only model-checked

- `Terminates` of `Hierarchy` and `Transformations`: liveness under fairness and
  ENABLED are out of the prover's reach.
- Of the tables `LinesKept`, of the formulas `OwnExpression` and `RefusedForBreaks`,
  which speak of the log that TeX writes for a document, and `UnambiguousSurvive` of
  `Verbatim`: each says what a whole run makes of a whole input, which a proof
  would have to take apart by induction on the input.
- What else the texts promise (`WordsAreThoseOfThePaper`, `AccentsRead`
  of `TextPasses`), and of `PostXml` where sections and
  paragraphs end (`MarksHoldWhatFollows`, `ParagraphsAreApart`,
  `ParsNestOnlyAroundSections`): these compare the tree at the end with the marks of
  the document, so that an invariant would have to say of every list between what
  the passes and visits to come will still do to it.
- The math passes: `MathPasses` and the modules it uses are recursive over
  formulas with RECURSIVE operators, for which the provers have no backend.

## 5. Plan

In order; done unless noted.

1. `Lists`, `TagPairing`, `Hierarchy`, `HierarchyTree`, with proofs: the tree
   that everything after it relies on.
2. `Transformations`, with proofs.
3. `DviMachine`, `Libdvi`, `FontMap`, `DviFile`, with proofs of their invariants and
   of the refinement.
4. `ReadLog`, `Verbatim`, with proofs.
5. `Table`, `Formulas`, `TextPasses`, `PostXml`; then `AccentTags`, `Tabular`, the
   attributes of `Verbatim`, the math passes; with proofs about `Formulas`, `Table`,
   `PostXml` and the fonts and letters of `TextPasses`.
6. *To model*: the entities of texts and the bytes of UTF-8; kerning;
   `replace_env_nodes` and `fix_special_nodes` (tags of one publisher's styles);
   the label that follows a formula, and formulas alone in a tabular.

Not to be modelled: generated parsers, off-line tools, stylesheets, option
parsing, printing (`dvidump`, `test_tfm`), file names.
