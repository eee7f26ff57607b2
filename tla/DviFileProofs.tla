---------------------------- MODULE DviFileProofs ----------------------------
(***************************************************************************)
(* Proofs about the reader of the DVI file (libdvi/libdvi.c) and the font  *)
(* tables it reads with (libfontmap/libfontmap.c), for every file, every   *)
(* configuration and every size of the text buffer at first, in three      *)
(* parts: the reader is type correct and its counts of font users are      *)
(* right; what is looked up in the tables is what config.xml says; and     *)
(* DviFile implements DviMachine.                                          *)
(***************************************************************************)
EXTENDS DviFile, ListsProofs

Byte     == 0 .. 255
Position == [DOMAIN State -> Int]

TextNode == [type : {"text"}, font : Int, h : Int, v : Int,
             closed : BOOLEAN, content : Text]
Controls == {"push", "pop", "right", "w", "x", "down", "y", "z"}
OtherNode ==
  [type : {"bop"}] \cup [type : {"xxx"}] \cup [type : {"rule"}, h : Int, v : Int]
    \cup [type : {"control"}, control : Controls, param : Int]
Node == TextNode \cup OtherNode
Page == [nodes : Seq(Node), buffer : Text, buffer_size : Nat]

(* The maps of characters, and the tables that point to them. *)
CharMap == UNION {[0 .. n -> Text] : n \in Int}
Names   == STRING \cup {"LxirNeutralEncoding", "LxirNeutralFont"}
Map           == [name : Names, map : CharMap]
FontEntry     == [name : Names, map : Nat]
MathFontEntry == [name : STRING, map : Nat, variant : STRING]
Tables  == [users : Nat, ligatures : Seq(Ligatures), maps : Seq(Map),
            fonts : Seq(FontEntry), mathfonts : Seq(MathFontEntry),
            accents : Seq(Accents)]
Pointing(entries, r) == \A i \in 1 .. Len(entries) :
                        entries[i].map \in 1 .. Len(r.maps)
Registries == {r \in Tables : Pointing(r.fonts, r)}
Dvifont    == [index : Int, space : Nat, map : Nat]

(* The buffer has room for what is in it. *)
Roomy(o) == Len(o.buffer) <= o.buffer_size /\ BUFFER_SIZE <= o.buffer_size

(* All texts but an open one at the end are complete. *)
Complete(nodes) == \A i \in 1 .. Len(nodes) : nodes[i].type = "text" =>
                   nodes[i].closed
Owned(o) ==
  /\ o.buffer # <<>> => IsOpen(o.nodes)
  /\ \A i \in 1 .. Len(o.nodes) - 1 : o.nodes[i].type = "text" => o.nodes[i].closed
  /\ IsOpen(o.nodes) => Last(o.nodes).font = font

(* No space at the beginning and none after another; nor one at the end.   *)
Single(bytes) ==
  \A j \in 1 .. Len(bytes) : bytes[j] = SPACE => 1 < j /\ bytes[j - 1] # SPACE
Between(bytes) ==
  \A j \in 1 .. Len(bytes) : bytes[j] = SPACE =>
    1 < j /\ j < Len(bytes) /\ bytes[j - 1] # SPACE
Normal == "normal" \in flags /\ "raw" \notin flags
Spaced(o) ==
  Normal =>
    /\ \A i \in 1 .. Len(o.nodes) :
         o.nodes[i].type = "text" /\ o.nodes[i].closed
           /\ Spaceless(o.nodes[i].font) =>
           Between(o.nodes[i].content)
    /\ Spaceless(font) => Single(o.buffer)

Good(o) == o \in Page /\ Roomy(o) /\ Owned(o) /\ Spaced(o)

(* What has been read so far when the pages begin. *)
Opened ==
  /\ status = "start" => fonts = <<>> /\ list = <<>>
  /\ status \in {"start", "open", "postamble", "preamble"} =>
       out.nodes = <<>> /\ out.buffer = <<>>
  /\ status = "between" => ~ IsOpen(out.nodes) /\ out.buffer = <<>>
  /\ status = "page" => stack # <<>> /\ Len(pages) < nbpages

(* The fonts of the file point to maps of the tables. *)
Encoded ==
  "raw" \notin flags => /\ Pointing(fonts, registry)
                        /\ status # "closed" => Pointing(list, registry)

Typed ==
  /\ File(file)
  /\ registry \in Registries
  /\ fonts \in Seq(Dvifont) /\ list \in Seq(Dvifont) /\ at \in Nat
  /\ op.n \in 0 .. file.length
  /\ stack \in Seq(Position)
  /\ font \in FontNumbers \cup {Unset}
  /\ pages \in Seq(Seq(Node)) /\ Len(pages) <= nbpages
  /\ \A k \in 1 .. Len(pages) : Complete(pages[k])

IInv ==
  /\ Typed /\ Opened /\ Encoded
  /\ out \in Page /\ Roomy(out) /\ Owned(out)
  /\ status # "closed" => Spaced(out)

----------------------------------------------------------------------------
(* Nodes and text. *)

LEMMA LastOf ==
  ASSUME NEW E, NEW s \in Seq(E), s # <<>>
  PROVE  Last(s) \in E /\ Len(s) \in 1 .. Len(s) /\ Last(s) = s[Len(s)]
<1>1. Len(s) \in Nat /\ Len(s) # 0
  OBVIOUS
<1>2. QED
  BY <1>1 DEF Last

LEMMA FrontOf ==
  ASSUME NEW E, NEW s \in Seq(E), s # <<>>
  PROVE  /\ Front(s) \in Seq(E) /\ Len(Front(s)) = Len(s) - 1
         /\ \A i \in 1 .. Len(s) - 1 : Front(s)[i] = s[i]
<1>1. Len(s) \in Nat /\ Len(s) # 0
  OBVIOUS
<1> DEFINE m == Len(s) - 1
<1>2. m \in Nat /\ m <= Len(s) /\ \A i \in 1 .. m : i \in 1 .. Len(s)
  BY <1>1
<1>3. Front(s) = SubSeq(s, 1, m)
  BY DEF Front
<1> HIDE DEF m
<1>4. /\ SubSeq(s, 1, m) \in Seq(E) /\ Len(SubSeq(s, 1, m)) = m
      /\ \A i \in 1 .. m : SubSeq(s, 1, m)[i] = s[i]
  BY <1>2
<1>5. QED
  BY <1>3, <1>4 DEF m

(* The last node of an open page is a text. *)
LEMMA OpenNode ==
  ASSUME NEW nodes \in Seq(Node), IsOpen(nodes)
  PROVE  /\ Len(nodes) \in 1 .. Len(nodes)
         /\ nodes[Len(nodes)] = Last(nodes)
         /\ nodes[Len(nodes)] \in TextNode /\ ~ nodes[Len(nodes)].closed
<1>1. nodes # <<>> /\ Last(nodes).type = "text" /\ ~ Last(nodes).closed
  BY DEF IsOpen
<1>2. Last(nodes) \in Node /\ Len(nodes) \in 1 .. Len(nodes)
        /\ Last(nodes) = nodes[Len(nodes)]
  BY <1>1, LastOf
<1>3. Last(nodes) \in TextNode
  BY <1>1, <1>2 DEF Node, OtherNode
<1>4. QED
  BY <1>1, <1>2, <1>3

(* The page o when its last text is completed with the bytes text. *)
WithText(o, text) ==
  [o EXCEPT !.nodes[Len(o.nodes)].content = text,
            !.nodes[Len(o.nodes)].closed = TRUE,
            !.buffer = <<>>]

LEMMA TextClosed ==
  ASSUME NEW o \in Page, IsOpen(o.nodes), NEW text \in Text,
         NEW c, c = WithText(o, text)
  PROVE  /\ c \in Page /\ c.buffer = <<>> /\ c.buffer_size = o.buffer_size
         /\ Len(c.nodes) = Len(o.nodes) /\ Len(c.nodes) \in 1 .. Len(c.nodes)
         /\ \A i \in 1 .. Len(o.nodes) - 1 : c.nodes[i] = o.nodes[i]
         /\ c.nodes[Len(c.nodes)] \in TextNode
         /\ c.nodes[Len(c.nodes)].closed /\ c.nodes[Len(c.nodes)].content = text
         /\ c.nodes[Len(c.nodes)].font = Last(o.nodes).font
         /\ c.nodes[Len(c.nodes)].v = Last(o.nodes).v
<1> DEFINE ns == o.nodes
           n  == Len(ns)
           a  == ns[n]
           b  == [a EXCEPT !.content = text, !.closed = TRUE]
           ms == [ns EXCEPT ![n] = b]
<1>1. /\ ns \in Seq(Node) /\ n \in 1 .. n /\ a \in TextNode
         /\ a.font = Last(ns).font /\ a.v = Last(ns).v
      /\ o.buffer_size \in Nat /\ n \in Nat
  BY OpenNode DEF Page
<1>2. c.nodes = [[ns EXCEPT ![n].content = text] EXCEPT ![n].closed = TRUE]
  BY DEF Page, WithText
<1>3. c.buffer = <<>> /\ c.buffer_size = o.buffer_size
      /\ c = [nodes |-> c.nodes, buffer |-> c.buffer, buffer_size |-> c.buffer_size]
  BY DEF Page, WithText
<1> HIDE DEF ns, n
<1>4. DOMAIN ns = 1 .. n
  BY <1>1 DEF n
<1>5. c.nodes = ms
  BY ONLY <1>1, <1>2, <1>4
<1>6. b \in TextNode /\ b.closed /\ b.content = text /\ b.font = a.font
        /\ b.v = a.v
  BY ONLY <1>1, text \in Text DEF TextNode
<1>7. b \in Node
  BY <1>6 DEF Node
<1> HIDE DEF a, b
<1>8. /\ ms \in Seq(Node) /\ Len(ms) = n /\ ms[n] = b
      /\ \A i \in 1 .. n - 1 : ms[i] = ns[i]
  BY ONLY <1>1, <1>4, <1>7 DEF n
<1> HIDE DEF ms
<1>9. <<>> \in Text
  BY DEF Text
<1>10. c \in Page
  BY <1>1, <1>3, <1>5, <1>8, <1>9 DEF Page
<1>11. /\ c.nodes[n] = b /\ Len(c.nodes) = n
       /\ \A i \in 1 .. n - 1 : c.nodes[i] = ns[i]
  BY ONLY <1>5, <1>8
<1>12. /\ b \in TextNode /\ b.closed /\ b.content = text /\ b.font = Last(ns).font
        /\ b.v = Last(ns).v
  BY <1>6, <1>1
<1>13. QED
  BY <1>1, <1>3, <1>10, <1>11, <1>12 DEF ns, n

(* What is left of single spaces without one at the end is between glyphs. *)
LEMMA Trimmed ==
  ASSUME NEW b \in Text, Single(b)
  PROVE  Between(IF EndsWithSpace(b) THEN Front(b) ELSE b)
<1>0. Len(b) \in Nat
  BY LenProperties DEF Text
<1>1. CASE EndsWithSpace(b)
  <2>1. b # <<>> /\ b[Len(b)] = SPACE
    BY <1>1 DEF EndsWithSpace, Last
  <2>2. /\ Len(Front(b)) = Len(b) - 1
        /\ \A i \in 1 .. Len(b) - 1 : Front(b)[i] = b[i]
    BY <2>1, FrontOf DEF Text
  <2>3. ASSUME NEW j \in 1 .. Len(Front(b)), Front(b)[j] = SPACE
        PROVE  1 < j /\ j < Len(Front(b)) /\ Front(b)[j - 1] # SPACE
    <3>1. j \in 1 .. Len(b) /\ b[j] = SPACE
      BY <2>2, <2>3, <1>0
    <3>2. 1 < j /\ b[j - 1] # SPACE
      BY <3>1 DEF Single
    <3>3. Front(b)[j - 1] # SPACE
      BY <2>2, <3>1, <3>2, <1>0
    <3>4. j # Len(b) - 1
      <4>1. ASSUME j = Len(b) - 1
            PROVE  FALSE
        <5>1. Len(b) \in 1 .. Len(b) /\ Len(b) - 1 = j
          BY <4>1, <3>1, <1>0
        <5>2. b[j] # SPACE
          BY <5>1, <2>1 DEF Single
        <5>3. QED
          BY <5>2, <3>1
      <4>2. QED
        BY <4>1
    <3>5. QED
      BY <3>2, <3>3, <3>4, <2>2, <1>0
  <2>4. QED
    BY <2>3, <1>1 DEF Between
<1>2. CASE ~ EndsWithSpace(b)
  <2>1. ASSUME NEW j \in 1 .. Len(b), b[j] = SPACE
        PROVE  1 < j /\ j < Len(b) /\ b[j - 1] # SPACE
    <3>1. 1 < j /\ b[j - 1] # SPACE
      BY <2>1 DEF Single
    <3>2. j # Len(b)
      <4>1. b # <<>>
        BY <1>0
      <4>2. QED
        BY <4>1, <1>2, <2>1 DEF EndsWithSpace, Last
    <3>3. QED
      BY <3>1, <3>2, <1>0
  <2>2. QED
    BY <2>1, <1>2 DEF Between
<1>3. QED
  BY <1>1, <1>2

(* dvi_close_text_node leaves no open text, and nothing in the buffer. *)
LEMMA ClosedText ==
  ASSUME NEW o, Good(o), BUFFER_SIZE \in Nat
  PROVE  /\ Good(CloseText(o)) /\ ~ IsOpen(CloseText(o).nodes)
         /\ CloseText(o).buffer = <<>>
<1>1. CASE ~ IsOpen(o.nodes)
  BY <1>1 DEF CloseText, Good, Owned
<1>2. CASE IsOpen(o.nodes)
  <2> DEFINE text == IF "normal" \in flags /\ EndsWithSpace(o.buffer)
                     THEN Front(o.buffer) ELSE o.buffer
             c == WithText(o, text)
  <2>1. CloseText(o) = c
    BY <1>2 DEF CloseText, WithText
  <2>2. o \in Page /\ Roomy(o) /\ Owned(o) /\ Spaced(o)
    BY DEF Good
  <2>3. o.buffer \in Text /\ o.nodes \in Seq(Node) /\ o.buffer_size \in Nat
    BY <2>2 DEF Page
  <2>4. text \in Text
    <3>1. EndsWithSpace(o.buffer) => Front(o.buffer) \in Text
      BY <2>3, FrontOf DEF EndsWithSpace, Text
    <3>2. QED
      BY <2>3, <3>1
  <2>5. Normal /\ Spaceless(font) => Between(text)
    <3>1. Normal /\ Spaceless(font) => Single(o.buffer)
      BY <2>2 DEF Spaced
    <3>2. Single(o.buffer) => Between(IF EndsWithSpace(o.buffer)
                                      THEN Front(o.buffer) ELSE o.buffer)
      BY <2>3, Trimmed
    <3>3. Normal => text = IF EndsWithSpace(o.buffer) THEN Front(o.buffer)
            ELSE o.buffer
      BY DEF Normal
    <3> HIDE DEF text
    <3>4. QED
      BY <3>1, <3>2, <3>3
  <2> HIDE DEF text
  <2> DEFINE n == Len(c.nodes)
  <2>6. /\ c \in Page /\ c.buffer = <<>> /\ c.buffer_size = o.buffer_size
        /\ n = Len(o.nodes) /\ n \in 1 .. n
        /\ \A i \in 1 .. n - 1 : c.nodes[i] = o.nodes[i]
        /\ c.nodes[n].closed /\ c.nodes[n].content = text
        /\ c.nodes[n].font = Last(o.nodes).font
    BY <2>2, <2>4, <1>2, TextClosed
  <2> HIDE DEF c, n
  <2>7. ~ IsOpen(c.nodes)
    BY <2>6 DEF IsOpen, Last, n
  <2>8. Roomy(c)
    <3>1. BUFFER_SIZE <= o.buffer_size
      BY <2>2 DEF Roomy
    <3>2. Len(<<>>) = 0
      OBVIOUS
    <3>3. QED
      BY <3>1, <3>2, <2>3, <2>6 DEF Roomy
  <2>9. Owned(c)
    BY <2>2, <2>6, <2>7 DEF Owned, n
  <2>10. Spaced(c)
    <3> SUFFICES ASSUME Normal
                 PROVE  /\ \A i \in 1 .. n :
                             c.nodes[i].type = "text" /\ c.nodes[i].closed
                               /\ Spaceless(c.nodes[i].font) =>
                                    Between(c.nodes[i].content)
                        /\ Single(c.buffer)
      BY DEF Spaced, n
    <3>1. Single(c.buffer)
      BY <2>6 DEF Single
    <3>2. c.nodes[n].font = font
      BY <2>2, <2>6, <1>2 DEF Owned
    <3>3. \A i \in 1 .. n - 1 :
            c.nodes[i].type = "text" /\ c.nodes[i].closed
              /\ Spaceless(c.nodes[i].font) => Between(c.nodes[i].content)
      <4>1. \A i \in 1 .. n - 1 : i \in 1 .. Len(o.nodes)
        BY <2>6
      <4>2. \A i \in 1 .. Len(o.nodes) :
              o.nodes[i].type = "text" /\ o.nodes[i].closed
                /\ Spaceless(o.nodes[i].font) => Between(o.nodes[i].content)
        BY <2>2 DEF Spaced
      <4>3. QED
        BY ONLY <4>1, <4>2, <2>6
    <3>4. Spaceless(c.nodes[n].font) => Between(c.nodes[n].content)
      BY <3>2, <2>5, <2>6
    <3>5. \A i \in 1 .. n : i \in 1 .. n - 1 \/ i = n
      BY <2>6
    <3>6. QED
      BY <3>1, <3>3, <3>4, <3>5
  <2>11. Good(c)
    BY <2>6, <2>8, <2>9, <2>10 DEF Good
  <2>12. Good(c) /\ ~ IsOpen(c.nodes) /\ c.buffer = <<>>
    BY <2>6, <2>7, <2>11
  <2>13. QED
    BY ONLY <2>1, <2>12
<1>3. QED
  BY <1>1, <1>2

LEMMA NodeAppended ==
  ASSUME NEW o \in Page, NEW node \in Node, NEW c, c = AppendNode(o, node)
  PROVE  /\ c \in Page /\ c.buffer = o.buffer /\ c.buffer_size = o.buffer_size
         /\ Len(o.nodes) \in Nat /\ Len(c.nodes) = Len(o.nodes) + 1
         /\ c.nodes # <<>> /\ Last(c.nodes) = node
            /\ c.nodes[Len(o.nodes) + 1] = node
         /\ \A i \in 1 .. Len(o.nodes) : c.nodes[i] = o.nodes[i]
<1> DEFINE ns == o.nodes
           ms == Append(ns, node)
<1>1. /\ ns \in Seq(Node) /\ o.buffer \in Text /\ o.buffer_size \in Nat
      /\ c = [nodes |-> ms, buffer |-> o.buffer, buffer_size |-> o.buffer_size]
  BY DEF Page, AppendNode
<1> HIDE DEF ns
<1>2. /\ ms \in Seq(Node) /\ Len(ns) \in Nat /\ Len(ms) = Len(ns) + 1
      /\ ms[Len(ns) + 1] = node /\ \A i \in 1 .. Len(ns) : ms[i] = ns[i]
  BY ONLY <1>1, node \in Node, AppendProperties, LenProperties
<1> HIDE DEF ms
<1>3. ms # <<>> /\ Last(ms) = node
  BY <1>2 DEF Last
<1>4. /\ c.nodes = ms /\ c.buffer = o.buffer /\ c.buffer_size = o.buffer_size
  BY ONLY <1>1
<1>5. c \in Page
  BY <1>1, <1>2 DEF Page
<1>6. QED
  BY <1>2, <1>3, <1>4, <1>5 DEF ns

LEMMA AllComplete ==
  ASSUME NEW o, Good(o), ~ IsOpen(o.nodes)
  PROVE  Complete(o.nodes)
<1> DEFINE n == Len(o.nodes)
<1>1. n \in Nat
  BY LenProperties DEF Good, Page
<1>2. \A i \in 1 .. n - 1 : o.nodes[i].type = "text" => o.nodes[i].closed
  BY DEF Good, Owned
<1>3. n # 0 /\ o.nodes[n].type = "text" => o.nodes[n].closed
  <2>1. n # 0 => o.nodes # <<>> /\ Last(o.nodes) = o.nodes[n]
    BY DEF Last
  <2>2. QED
    BY <2>1 DEF IsOpen
<1> HIDE DEF n
<1>4. \A i \in 1 .. n : i \in 1 .. n - 1 \/ (i = n /\ n # 0)
  BY <1>1
<1>5. \A i \in 1 .. n : o.nodes[i].type = "text" => o.nodes[i].closed
  BY <1>2, <1>3, <1>4
<1>6. QED
  BY <1>5 DEF Complete, n

(* A node that is not a text is appended to a page without an open text. *)
LEMMA OtherAppended ==
  ASSUME NEW o, Good(o), ~ IsOpen(o.nodes), NEW node \in OtherNode
  PROVE  /\ Good(AppendNode(o, node)) /\ ~ IsOpen(AppendNode(o, node).nodes)
         /\ AppendNode(o, node).buffer = <<>>
<1> DEFINE c == AppendNode(o, node)
           n == Len(o.nodes)
<1>1. o \in Page /\ Roomy(o) /\ Owned(o) /\ Spaced(o)
  BY DEF Good
<1>2. node \in Node /\ node.type # "text"
  BY DEF Node, OtherNode
<1>3. /\ c \in Page /\ c.buffer = o.buffer /\ c.buffer_size = o.buffer_size
      /\ n \in Nat /\ Len(c.nodes) = n + 1
      /\ Last(c.nodes) = node /\ c.nodes[n + 1] = node
      /\ \A i \in 1 .. n : c.nodes[i] = o.nodes[i]
  BY <1>1, <1>2, NodeAppended
<1> HIDE DEF c
<1>4. ~ IsOpen(c.nodes) /\ o.buffer = <<>> /\ c.buffer = <<>>
  BY <1>1, <1>2, <1>3 DEF IsOpen, Owned
<1>5. \A i \in 1 .. n : o.nodes[i].type = "text" => o.nodes[i].closed
  BY AllComplete DEF Complete
<1>6. Roomy(c)
  BY <1>1, <1>3 DEF Roomy
<1>7. \A i \in 1 .. n + 1 : i \in 1 .. n \/ i = n + 1
  BY <1>3
<1>8. Owned(c)
  <2> HIDE DEF n
  <2>1. \A i \in 1 .. n : c.nodes[i].type = "text" => c.nodes[i].closed
    BY <1>3, <1>5
  <2>2. Len(c.nodes) - 1 = n
    BY <1>3
  <2>3. QED
    BY <1>4, <2>1, <2>2 DEF Owned
<1>9. Spaced(c)
  <2> SUFFICES ASSUME Normal
               PROVE  /\ \A i \in 1 .. n + 1 :
                           c.nodes[i].type = "text" /\ c.nodes[i].closed
                             /\ Spaceless(c.nodes[i].font) =>
                                  Between(c.nodes[i].content)
                      /\ Spaceless(font) => Single(c.buffer)
    BY <1>3 DEF Spaced
  <2>1. /\ \A i \in 1 .. n : 
             o.nodes[i].type = "text" /\ o.nodes[i].closed
               /\ Spaceless(o.nodes[i].font) => Between(o.nodes[i].content)
        /\ Spaceless(font) => Single(o.buffer)
    BY <1>1 DEF Spaced
  <2> HIDE DEF n
  <2>2. QED
    BY <2>1, <1>2, <1>3, <1>7
<1>10. QED
  BY <1>3, <1>4, <1>6, <1>8, <1>9 DEF Good, c

LEMMA TextOpened ==
  ASSUME NEW o, Good(o), NEW p \in Position, font \in Int
  PROVE  /\ Good(OpenText(o, p)) /\ IsOpen(OpenText(o, p).nodes)
         /\ OpenText(o, p).buffer = o.buffer
<1>1. CASE IsOpen(o.nodes)
  BY <1>1 DEF OpenText
<1>2. CASE ~ IsOpen(o.nodes)
  <2> DEFINE node == [type |-> "text", font |-> font, h |-> p.h, v |-> p.v,
                      closed |-> FALSE, content |-> <<>>]
             c == AppendNode(o, node)
             n == Len(o.nodes)
  <2>1. OpenText(o, p) = c
    BY <1>2 DEF OpenText
  <2>2. o \in Page /\ Roomy(o) /\ Owned(o) /\ Spaced(o)
    BY DEF Good
  <2>3. p.h \in Int /\ p.v \in Int
    BY DEF Position, State
  <2>4. <<>> \in Text
    BY DEF Text
  <2>5. node \in Node /\ node.type = "text" /\ ~ node.closed /\ node.font = font
    BY <2>3, <2>4 DEF Node, TextNode
  <2> HIDE DEF node
  <2>6. /\ c \in Page /\ c.buffer = o.buffer /\ c.buffer_size = o.buffer_size
        /\ n \in Nat /\ Len(c.nodes) = n + 1 /\ c.nodes # <<>>
        /\ Last(c.nodes) = node /\ c.nodes[n + 1] = node
        /\ \A i \in 1 .. n : c.nodes[i] = o.nodes[i]
    BY <2>2, <2>5, NodeAppended
  <2>7. \A i \in 1 .. n : o.nodes[i].type = "text" => o.nodes[i].closed
    BY <1>2, AllComplete DEF Complete
  <2> HIDE DEF c, n
  <2>8. IsOpen(c.nodes)
    BY <2>5, <2>6 DEF IsOpen
  <2>9. Roomy(c)
    BY <2>2, <2>6 DEF Roomy
  <2>10. Owned(c)
    <3>1. \A i \in 1 .. n : c.nodes[i].type = "text" => c.nodes[i].closed
      BY <2>6, <2>7
    <3>2. Len(c.nodes) - 1 = n
      BY <2>6
    <3>3. QED
      BY <2>5, <2>6, <2>8, <3>1, <3>2 DEF Owned
  <2>11. Spaced(c)
    <3> SUFFICES ASSUME Normal
                 PROVE  /\ \A i \in 1 .. n + 1 :
                             c.nodes[i].type = "text" /\ c.nodes[i].closed
                               /\ Spaceless(c.nodes[i].font) =>
                                    Between(c.nodes[i].content)
                        /\ Spaceless(font) => Single(c.buffer)
      BY <2>6 DEF Spaced
    <3>1. /\ \A i \in 1 .. n :
               o.nodes[i].type = "text" /\ o.nodes[i].closed
                 /\ Spaceless(o.nodes[i].font) => Between(o.nodes[i].content)
          /\ Spaceless(font) => Single(o.buffer)
      BY <2>2 DEF Spaced, n
    <3>2. \A i \in 1 .. n + 1 : i \in 1 .. n \/ i = n + 1
      BY <2>6
    <3>3. QED
      BY <2>5, <2>6, <3>1, <3>2
  <2>12. Good(c)
    BY <2>6, <2>9, <2>10, <2>11 DEF Good
  <2>13. QED
    BY <2>1, <2>6, <2>8, <2>12
<1>3. QED
  BY <1>1, <1>2

(* Bytes are added to an open text. *)
LEMMA Extended ==
  ASSUME NEW o, Good(o), IsOpen(o.nodes), NEW bytes \in Text, BUFFER_SIZE \in Nat,
         Normal /\ Spaceless(font) => Single(o.buffer \o bytes)
  PROVE  Good(Extend(o, bytes))
<1> DEFINE c == Extend(o, bytes)
           b == o.buffer
           d == b \o bytes
<1>1. o \in Page /\ Roomy(o) /\ Owned(o) /\ Spaced(o)
  BY DEF Good
<1>2. b \in Text /\ o.buffer_size \in Nat /\ o.nodes \in Seq(Node)
      /\ Len(b) <= o.buffer_size /\ BUFFER_SIZE <= o.buffer_size
  BY <1>1 DEF Page, Roomy
<1>3. d \in Text /\ Len(d) = Len(b) + Len(bytes) /\ Len(b) \in Nat
        /\ Len(bytes) \in Nat
  BY <1>2, ConcatProperties, LenProperties DEF Text
<1>4. Normal /\ Spaceless(font) => Single(d)
  OBVIOUS
<1> DEFINE size == Len(b) + Len(bytes)
           room == IF size <= o.buffer_size THEN o.buffer_size
                   ELSE IF size > 2 * o.buffer_size THEN size ELSE 2 * o.buffer_size
<1>5. c = [nodes |-> o.nodes, buffer |-> d, buffer_size |-> room]
  <2>1. c = [o EXCEPT !.buffer = d, !.buffer_size = room]
    BY DEF Extend
  <2> HIDE DEF d, room, c
  <2>2. QED
    BY <2>1, <1>1 DEF Page
<1> HIDE DEF b, d, c
<1>6. room \in Nat /\ Len(d) <= room /\ BUFFER_SIZE <= room
  BY <1>2, <1>3
<1> HIDE DEF room
<1>7. c.nodes = o.nodes /\ c.buffer = d /\ c.buffer_size = room
  BY ONLY <1>5
<1>8. c \in Page
  BY <1>2, <1>3, <1>5, <1>6 DEF Page
<1>9. Roomy(c)
  BY <1>6, <1>7 DEF Roomy
<1>10. Owned(c)
  BY <1>1, <1>7 DEF Owned
<1>11. Spaced(c)
  BY <1>1, <1>4, <1>7 DEF Spaced
<1>12. QED
  BY <1>8, <1>9, <1>10, <1>11 DEF Good, c

LEMMA SpaceAppended ==
  ASSUME NEW o, Good(o), NEW p \in Position, font \in Int, BUFFER_SIZE \in Nat
  PROVE  Good(AppendSpace(o, p))
<1>1. <<SPACE>> \in Text
  BY DEF SPACE, Text
<1>2. CASE "normal" \notin flags
  <2>1. Good(OpenText(o, p)) /\ IsOpen(OpenText(o, p).nodes) /\ ~ Normal
    BY <1>2, TextOpened DEF Normal
  <2>2. Good(Extend(OpenText(o, p), <<SPACE>>))
    BY <1>1, <2>1, Extended
  <2>3. QED
    BY <1>2, <2>2 DEF AppendSpace
<1>3. CASE "normal" \in flags /\ IsOpen(o.nodes) /\ o.buffer # <<>>
             /\ ~ EndsWithSpace(o.buffer)
  <2>1. ASSUME Normal, Spaceless(font)
        PROVE  Single(o.buffer \o <<SPACE>>)
    <3> DEFINE b == o.buffer
               d == b \o <<SPACE>>
               n == Len(b)
    <3>1. Single(b) /\ b \in Text
      BY <2>1 DEF Good, Spaced, Page
    <3>2. n \in Nat /\ n # 0 /\ b[n] # SPACE
      BY <1>3, <3>1 DEF EndsWithSpace, Last, Text
    <3>3. Len(d) = n + 1 /\ d[n + 1] = SPACE /\ \A i \in 1 .. n : d[i] = b[i]
      BY <3>1 DEF Text
    <3>a. \A j \in 1 .. n : b[j] = SPACE => 1 < j /\ b[j - 1] # SPACE
      BY <3>1 DEF Single
    <3> HIDE DEF b, n, d
    <3>4. ASSUME NEW j \in 1 .. Len(d), d[j] = SPACE
          PROVE  1 < j /\ d[j - 1] # SPACE
      <4>1. CASE j = n + 1
        <5>1. j - 1 = n /\ n \in 1 .. n /\ 1 < j
          BY <4>1, <3>2
        <5>2. QED
          BY <5>1, <3>2, <3>3
      <4>2. CASE j \in 1 .. n
        <5>1. b[j] = SPACE
          BY <4>2, <3>3, <3>4
        <5>2. 1 < j /\ b[j - 1] # SPACE
          BY ONLY <5>1, <4>2, <3>a, Zenon
        <5>3. j - 1 \in 1 .. n
          BY <5>2, <4>2, <3>2
        <5>4. QED
          BY <5>2, <5>3, <3>3
      <4>3. QED
        BY <4>1, <4>2, <3>2, <3>3
    <3>5. QED
      BY <3>4 DEF Single, d, b
  <2>2. Good(Extend(o, <<SPACE>>))
    BY <1>1, <1>3, <2>1, Extended
  <2>3. QED
    BY <1>3, <2>2 DEF AppendSpace
<1>4. CASE "normal" \in flags
           /\ ~ (IsOpen(o.nodes) /\ o.buffer # <<>> /\ ~ EndsWithSpace(o.buffer))
  BY <1>4 DEF AppendSpace
<1>5. QED
  BY <1>2, <1>3, <1>4

LEMMA MinOf ==
  ASSUME NEW n \in Nat, NEW I \in SUBSET (1 .. n), I # {}
  PROVE  Min(I) \in I /\ \A j \in I : Min(I) <= j
<1>1. I \subseteq Nat
  OBVIOUS
<1>2. \E i \in I : \A j \in I : i <= j
  BY <1>1, LeastNatural
<1>3. QED
  BY <1>2 DEF Min

LEMMA MaxOf ==
  ASSUME NEW n \in Nat, NEW I \in SUBSET (1 .. n), I # {}
  PROVE  Max(I) \in I /\ \A j \in I : Max(I) >= j
<1> DEFINE J == {n - i : i \in I}
<1>1. J \subseteq Nat /\ J # {}
  <2>1. \A i \in I : i \in 1 .. n
    OBVIOUS
  <2>2. \A i \in 1 .. n : n - i \in Nat
    OBVIOUS
  <2>3. QED
    BY <2>1, <2>2
<1>2. PICK k \in J : \A j \in J : k <= j
  BY <1>1, LeastNatural
<1>3. PICK i \in I : k = n - i
  BY <1>2
<1>4. \A j \in I : n - j \in J
  OBVIOUS
<1> HIDE DEF J
<1>5. ASSUME NEW j \in I
      PROVE  i >= j
  <2>1. n - i <= n - j
    BY <1>2, <1>3, <1>4
  <2>2. QED
    BY <2>1
<1>6. QED
  BY <1>5 DEF Max

(* dvi_check_font finds a font of the file, if any. *)
LEMMA FontFound ==
  ASSUME fonts \in Seq(Dvifont), NEW f
  PROVE  CheckFont(f) \in 0 .. Len(fonts)
<1> DEFINE n == Len(fonts)
           I == {i \in 1 .. n : fonts[i].index = f}
<1>1. n \in Nat /\ I \in SUBSET (1 .. n)
  BY LenProperties
<1>2. CheckFont(f) = IF I # {} THEN Min(I) ELSE 0
  BY DEF CheckFont, SelectInSeq
<1> HIDE DEF I, n
<1>3. I # {} => Min(I) \in I
  BY <1>1, MinOf
<1>4. CASE I # {}
  <2>1. CheckFont(f) = Min(I) /\ Min(I) \in 1 .. n
    BY <1>1, <1>2, <1>3, <1>4
  <2> HIDE DEF CheckFont
  <2>2. QED
    BY <2>1, <1>1 DEF n
<1>5. CASE I = {}
  BY <1>1, <1>2, <1>5 DEF n
<1>6. QED
  BY <1>4, <1>5

LEMMA GlyphIsText ==
  ASSUME NEW ch \in Int, registry \in Registries, fonts \in Seq(Dvifont),
         "raw" \notin flags => Pointing(fonts, registry),
         "raw" \in flags \/ Known(ch)
  PROVE  Glyph(ch) \in Text
<1>1. CASE "raw" \in flags
  <2>1. ch % 256 \in 0 .. 255
    OBVIOUS
  <2>2. QED
    BY <1>1, <2>1 DEF Glyph, Text
<1>2. CASE "raw" \notin flags
  <2> DEFINE k == CheckFont(font)
             m == fonts[k].map
             map == registry.maps[m].map
  <2>1. k \in 0 .. Len(fonts) /\ k # 0 /\ ch \in DOMAIN MapOf(font)
    BY <1>2, FontFound DEF Known
  <2>2. MapOf(font) = map
    BY DEF MapOf
  <2> HIDE DEF k
  <2>3. m \in 1 .. Len(registry.maps)
    <3>1. k \in 1 .. Len(fonts)
      BY <2>1
    <3>2. QED
      BY <3>1, <1>2 DEF Pointing
  <2> HIDE DEF m
  <2>4. registry.maps \in Seq(Map)
    BY DEF Registries, Tables
  <2>5. registry.maps[m] \in Map
    BY <2>3, <2>4, ElementOfSeq
  <2>6. map \in CharMap
    BY <2>5 DEF Map
  <2> HIDE DEF map
  <2>7. PICK n \in Int : map \in [0 .. n -> Text]
    BY <2>6 DEF CharMap
  <2>8. map[ch] \in Text
    BY <2>1, <2>2, <2>7
  <2>9. Glyph(ch) = map[ch]
    BY <1>2, <2>2 DEF Glyph
  <2>10. QED
    BY <2>8, <2>9
<1>3. QED
  BY <1>1, <1>2

(* Glyphs without a space leave spaces single. *)
LEMMA GlyphKeepsSingle ==
  ASSUME NEW b \in Text, NEW g \in Text, Single(b), SPACE \notin ToSet(g)
  PROVE  Single(b \o g)
<1> DEFINE d == b \o g
           n == Len(b)
<1>1. /\ n \in Nat /\ Len(g) \in Nat /\ Len(d) = n + Len(g)
      /\ \A i \in 1 .. n : d[i] = b[i]
      /\ \A i \in 1 .. Len(g) : d[n + i] = g[i]
  BY LenProperties, ConcatProperties DEF Text
<1>2. \A i \in 1 .. Len(g) : g[i] # SPACE
  BY LenProperties DEF ToSet, Text
<1>3. \A j \in 1 .. n : b[j] = SPACE => 1 < j /\ b[j - 1] # SPACE
  BY DEF Single
<1> HIDE DEF n, d
<1>4. ASSUME NEW j \in 1 .. Len(d), d[j] = SPACE
      PROVE  1 < j /\ d[j - 1] # SPACE
  <2>1. j \in 1 .. n
    <3>1. ASSUME j \notin 1 .. n
          PROVE  FALSE
      <4>1. j - n \in 1 .. Len(g) /\ n + (j - n) = j
        BY <3>1, <1>1
      <4>2. d[j] = g[j - n]
        BY <4>1, <1>1
      <4>3. QED
        BY <4>1, <4>2, <1>2, <1>4
    <3>2. QED
      BY <3>1
  <2>2. 1 < j /\ b[j - 1] # SPACE
    <3>1. b[j] = SPACE
      BY <2>1, <1>1, <1>4
    <3>2. QED
      BY ONLY <2>1, <3>1, <1>3, Zenon
  <2>3. j - 1 \in 1 .. n
    BY <2>1, <2>2, <1>1
  <2>4. QED
    BY <2>2, <2>3, <1>1
<1>5. QED
  BY <1>4 DEF Single, d

(* dvi_append_text adds the glyph of a character that the font knows. *)
LEMMA TextAppended ==
  ASSUME NEW o, Good(o), NEW ch \in Int, Top \in Position, font \in Int, BUFFER_SIZE \in Nat,
         registry \in Registries, fonts \in Seq(Dvifont),
         "raw" \notin flags => Pointing(fonts, registry)
  PROVE  Good(AppendText(o, ch))
<1> DEFINE t == OpenText(o, Top)
<1>1. Good(t) /\ IsOpen(t.nodes) /\ t.buffer = o.buffer
  BY TextOpened
<1>2. CASE "raw" \in flags \/ Known(ch)
  <2>1. Glyph(ch) \in Text
    BY <1>2, GlyphIsText
  <2>2. ASSUME Normal, Spaceless(font)
        PROVE  Single(t.buffer \o Glyph(ch))
    <3>1. t.buffer \in Text /\ Single(t.buffer)
      BY <1>1, <2>2 DEF Good, Page, Spaced
    <3>2. SPACE \notin ToSet(Glyph(ch))
      BY <1>2, <2>2 DEF Normal, Known, Spaceless, Glyph
    <3>3. QED
      BY <2>1, <3>1, <3>2, GlyphKeepsSingle
  <2> HIDE DEF t
  <2>3. Good(Extend(t, Glyph(ch)))
    BY <1>1, <2>1, <2>2, Extended
  <2>4. QED
    BY <1>2, <2>3 DEF AppendText, t
<1>3. CASE ~ ("raw" \in flags \/ Known(ch))
  BY <1>1, <1>3 DEF AppendText
<1>4. QED
  BY <1>2, <1>3

----------------------------------------------------------------------------
(* The tables of fonts. *)

LEMMA ReverseType ==
  ASSUME NEW E, NEW s \in Seq(E)
  PROVE  Reverse(s) \in Seq(E)
<1> DEFINE n == Len(s)
<1>1. n \in Nat /\ \A i \in 1 .. n : s[i] \in E
  BY LenProperties, ElementOfSeq
<1>2. Reverse(s) = [i \in 1 .. n |-> s[(n - i) + 1]]
  BY DEF Reverse
<1> HIDE DEF n
<1>3. \A i \in 1 .. n : (n - i) + 1 \in 1 .. n
  BY <1>1
<1>4. [i \in 1 .. n |-> s[(n - i) + 1]] \in Seq(E)
  BY <1>1, <1>3
<1>5. QED
  BY <1>2, <1>4

LEMMA DocumentsType ==
  ASSUME NEW config \in Seq(FontFiles)
  PROVE  Documents(config) \in Seq(Seq(Declarations))
<1> DEFINE found == Reverse(Among(config, Present(config)))
           docs == [i \in DOMAIN found |-> found[i].content]
<1>1. found \in Seq(FontFiles)
  BY AmongProperties, ReverseType
<1> HIDE DEF found
<1>2. Len(found) \in Nat /\ DOMAIN found = 1 .. Len(found)
      /\ \A i \in 1 .. Len(found) : found[i] \in FontFiles
  BY <1>1, LenProperties, ElementOfSeq
<1>3. \A i \in 1 .. Len(found) : found[i].content \in Seq(Declarations)
  BY <1>2 DEF FontFiles
<1>4. docs \in Seq(Seq(Declarations))
  BY <1>2, <1>3
<1>5. <<>> \in Seq(Seq(Declarations))
  OBVIOUS
<1>6. QED
  BY <1>4, <1>5 DEF Documents, found

LEMMA DeclaredType ==
  ASSUME NEW docs \in Seq(Seq(Declarations)), NEW kind
  PROVE  Declared(docs, kind) \in Seq({d \in Declarations : d.kind = kind})
<1> DEFINE all == FlattenSeq(docs)
           S == {d \in ToSet(all) : d.kind = kind}
           ds == Among(all, S)
<1>1. all \in Seq(Declarations)
  BY FlattenType
<1> HIDE DEF all
<1>2. ds \in Seq(Declarations) /\ Elements(ds) = Elements(all) \cap S
  BY <1>1, AmongProperties
<1>3. Elements(ds) \subseteq {d \in Declarations : d.kind = kind}
  <2>1. Elements(ds) \subseteq Declarations
    <3> HIDE DEF ds
    <3>1. QED
      BY <1>2, ElementOfSeq DEF Elements
  <2> HIDE DEF ds
  <2>2. QED
    BY <1>2, <2>1
<1> HIDE DEF ds
<1>4. ds \in Seq({d \in Declarations : d.kind = kind})
  BY <1>2, <1>3, SeqOfElements
<1>5. QED
  BY <1>4 DEF Declared, ds, all

LEMMA DeclaredOfKind ==
  ASSUME NEW docs \in Seq(Seq(Declarations))
  PROVE  /\ Declared(docs, "ligature") \in Seq(Ligatures)
         /\ Declared(docs, "encoding") \in Seq(Encodings)
         /\ Declared(docs, "font") \in Seq(Fonts)
         /\ Declared(docs, "mathfont") \in Seq(MathFonts)
         /\ Declared(docs, "accent") \in Seq(Accents)
<1>1. /\ {d \in Declarations : d.kind = "ligature"} \subseteq Ligatures
      /\ {d \in Declarations : d.kind = "encoding"} \subseteq Encodings
      /\ {d \in Declarations : d.kind = "font"} \subseteq Fonts
      /\ {d \in Declarations : d.kind = "mathfont"} \subseteq MathFonts
      /\ {d \in Declarations : d.kind = "accent"} \subseteq Accents
  BY DEF Declarations, Ligatures, Encodings, Fonts, MathFonts, Accents
<1>2. ASSUME NEW S, NEW T, S \subseteq T, NEW s \in Seq(S)
      PROVE  s \in Seq(T)
  <2>1. Elements(s) \subseteq S /\ s \in Seq(Elements(s))
    <3>1. Elements(s) \subseteq S
      BY <1>2, ElementOfSeq DEF Elements
    <3>2. QED
      BY <3>1, <1>2, SeqOfElements
  <2>2. QED
    BY <2>1, <1>2, SeqOfElements
<1> HIDE DEF Declarations, Ligatures, Encodings, Fonts, MathFonts, Accents
<1>3. /\ Declared(docs, "ligature") \in Seq(Ligatures)
      /\ Declared(docs, "encoding") \in Seq(Encodings)
  BY <1>1, <1>2, DeclaredType
<1>4. /\ Declared(docs, "font") \in Seq(Fonts)
      /\ Declared(docs, "mathfont") \in Seq(MathFonts)
  BY <1>1, <1>2, DeclaredType
<1>5. Declared(docs, "accent") \in Seq(Accents)
  BY <1>1, <1>2, DeclaredType
<1>6. QED
  BY <1>3, <1>4, <1>5

(* The tables with another list in one of the places. *)

LEMMA TablesWith ==
  ASSUME NEW r \in Registries
  PROVE  /\ \A x \in Seq(Ligatures) : [r EXCEPT !.ligatures = x] \in Registries
         /\ \A x \in Seq(Map) : Len(r.maps) <= Len(x) =>
              [r EXCEPT !.maps = x] \in Registries
         /\ \A x \in Seq(FontEntry) : Pointing(x, r) =>
              [r EXCEPT !.fonts = x] \in Registries
         /\ \A x \in Seq(MathFontEntry) : [r EXCEPT !.mathfonts = x] \in Registries
         /\ \A x \in Seq(Accents) : [r EXCEPT !.accents = x] \in Registries
         /\ \A x \in Nat : [r EXCEPT !.users = x] \in Registries
<1>1. r \in Tables /\ Pointing(r.fonts, r)
  BY DEF Registries
<1>2. \A x \in Seq(Ligatures) : [r EXCEPT !.ligatures = x] \in Registries
  BY <1>1 DEF Registries, Tables, Pointing
<1>3. ASSUME NEW x \in Seq(Map), Len(r.maps) <= Len(x)
      PROVE  [r EXCEPT !.maps = x] \in Registries
  <2>1. Len(r.maps) \in Nat /\ Len(x) \in Nat
    BY <1>1, LenProperties DEF Tables
  <2>2. 1 .. Len(r.maps) \subseteq 1 .. Len(x)
    BY <2>1, <1>3
  <2>3. [r EXCEPT !.maps = x] \in Tables /\ [r EXCEPT !.maps = x].fonts = r.fonts
        /\ [r EXCEPT !.maps = x].maps = x
    BY <1>1 DEF Tables
  <2>4. Pointing(r.fonts, [r EXCEPT !.maps = x])
    BY <1>1, <2>2, <2>3 DEF Pointing
  <2>5. QED
    BY <2>3, <2>4 DEF Registries
<1>4. ASSUME NEW x \in Seq(FontEntry), Pointing(x, r)
      PROVE  [r EXCEPT !.fonts = x] \in Registries
  BY <1>1, <1>4 DEF Registries, Tables, Pointing
<1>5. \A x \in Seq(MathFontEntry) : [r EXCEPT !.mathfonts = x] \in Registries
  BY <1>1 DEF Registries, Tables, Pointing
<1>6. \A x \in Seq(Accents) : [r EXCEPT !.accents = x] \in Registries
  BY <1>1 DEF Registries, Tables, Pointing
<1>7. \A x \in Nat : [r EXCEPT !.users = x] \in Registries
  BY <1>1 DEF Registries, Tables, Pointing
<1>8. QED
  BY <1>2, <1>3, <1>4, <1>5, <1>6, <1>7

LEMMA TablesHold ==
  ASSUME NEW r \in Registries
  PROVE  /\ r.users \in Nat /\ r.ligatures \in Seq(Ligatures) /\ r.maps \in Seq(Map)
         /\ r.fonts \in Seq(FontEntry) /\ Pointing(r.fonts, r)
         /\ r.mathfonts \in Seq(MathFontEntry) /\ r.accents \in Seq(Accents)
  BY DEF Registries, Tables

LEMMA LigaturesRead ==
  ASSUME NEW r \in Registries, NEW docs \in Seq(Seq(Declarations))
  PROVE  ReadLigatures(r, docs) \in Registries
<1> DEFINE x == Reverse(Declared(docs, "ligature")) \o r.ligatures
<1>1. x \in Seq(Ligatures)
  BY TablesHold, DeclaredOfKind, ReverseType, ConcatProperties
<1>2. ReadLigatures(r, docs) = [r EXCEPT !.ligatures = x]
  BY DEF ReadLigatures
<1> HIDE DEF x
<1>3. QED
  BY <1>1, <1>2, TablesWith

LEMMA AccentsRead ==
  ASSUME NEW r \in Registries, NEW docs \in Seq(Seq(Declarations))
  PROVE  ReadAccents(r, docs) \in Registries
<1> DEFINE x == Reverse(Declared(docs, "accent")) \o r.accents
<1>1. x \in Seq(Accents)
  BY TablesHold, DeclaredOfKind, ReverseType, ConcatProperties
<1>2. ReadAccents(r, docs) = [r EXCEPT !.accents = x]
  BY DEF ReadAccents
<1> HIDE DEF x
<1>3. QED
  BY <1>1, <1>2, TablesWith

LEMMA LigatureType ==
  ASSUME NEW r \in Registries, NEW value \in Text
  PROVE  Ligature(r, value) \in Text
<1> DEFINE s == r.ligatures
           I == {i \in 1 .. Len(s) : s[i].src = value}
           k == IF I # {} THEN Min(I) ELSE 0
<1>1. Ligature(r, value) = IF k = 0 THEN value ELSE s[k].dst
  BY DEF Ligature, SelectInSeq
<1>2. s \in Seq(Ligatures) /\ Len(s) \in Nat /\ I \in SUBSET (1 .. Len(s))
  BY TablesHold, LenProperties
<1> HIDE DEF s, I
<1>3. k # 0 => k \in 1 .. Len(s)
  BY <1>2, MinOf
<1> HIDE DEF k
<1>4. k # 0 => s[k] \in Ligatures
  BY <1>2, <1>3, ElementOfSeq
<1>5. k # 0 => s[k].dst \in Text
  BY <1>4 DEF Ligatures
<1>6. QED
  BY <1>1, <1>5

LEMMA CharMapOf ==
  ASSUME NEW n \in Int, NEW map \in [0 .. n -> Text]
  PROVE  map \in CharMap
  BY DEF CharMap

LEMMA EncodingsRead ==
  ASSUME NEW r \in Registries, NEW docs \in Seq(Seq(Declarations))
  PROVE  ReadEncodings(r, docs) \in Registries
<1> DEFINE es == Declared(docs, "encoding")
           ds == Among(es, {d \in ToSet(es) : d.values # <<>>})
           new == [i \in DOMAIN ds |-> NewMap(r, ds[i])]
           x == r.maps \o new
<1>1. ReadEncodings(r, docs) = [r EXCEPT !.maps = x]
  BY DEF ReadEncodings
<1>2. es \in Seq(Encodings)
  BY DeclaredOfKind
<1> HIDE DEF es
<1>3. ds \in Seq(Encodings)
  BY <1>2, AmongProperties
<1> HIDE DEF ds
<1>4. ASSUME NEW d \in Encodings
      PROVE  NewMap(r, d) \in Map
  <2> DEFINE n == Len(d.values)
             map == [c \in 0 .. n - 1 |-> Ligature(r, d.values[c + 1])]
  <2>1. d.name \in STRING /\ d.values \in Seq(Text)
    BY DEF Encodings
  <2>2. n \in Nat
    BY <2>1, LenProperties
  <2>3. \A c \in 0 .. n - 1 : d.values[c + 1] \in Text
    BY <2>1, <2>2, ElementOfSeq
  <2> HIDE DEF n
  <2>4. map \in [0 .. n - 1 -> Text]
    BY <2>3, LigatureType
  <2>5. n - 1 \in Int
    BY <2>2
  <2> HIDE DEF map
  <2>6. map \in CharMap
    BY <2>4, <2>5, CharMapOf
  <2>7. NewMap(r, d) = [name |-> d.name, map |-> map]
    BY DEF NewMap, map, n
  <2>8. QED
    BY <2>1, <2>6, <2>7 DEF Map, Names
<1>5. \A i \in 1 .. Len(ds) : NewMap(r, ds[i]) \in Map
  BY <1>3, <1>4, ElementOfSeq
<1>6. DOMAIN ds = 1 .. Len(ds) /\ Len(ds) \in Nat
  BY <1>3, LenProperties
<1>7. new \in Seq(Map)
  BY <1>5, <1>6
<1> HIDE DEF new
<1>8. x \in Seq(Map) /\ Len(r.maps) <= Len(x)
  <2>1. r.maps \in Seq(Map) /\ Len(r.maps) \in Nat /\ Len(new) \in Nat
    BY <1>7, TablesHold, LenProperties
  <2>2. x \in Seq(Map) /\ Len(x) = Len(r.maps) + Len(new)
    BY <1>7, <2>1, ConcatProperties
  <2>3. QED
    BY <2>1, <2>2
<1> HIDE DEF x
<1>9. QED
  BY <1>1, <1>8, TablesWith

(* find_encoding, and the entry of a font of a table, if any. *)
LEMMA EncodingFound ==
  ASSUME NEW r \in Registries, NEW name
  PROVE  FindEncoding(r, name) \in 0 .. Len(r.maps)
<1> DEFINE n == Len(r.maps)
           I == {i \in 1 .. n : r.maps[i].name = name}
           k == IF I # {} THEN Max(I) ELSE 0
<1>1. FindEncoding(r, name) = k
  BY DEF FindEncoding, SelectLastInSeq
<1>2. n \in Nat /\ I \in SUBSET (1 .. n)
  BY TablesHold, LenProperties
<1> HIDE DEF I, n
<1>3. I # {} => Max(I) \in 1 .. n
  BY <1>2, MaxOf
<1>4. k \in 0 .. n
  BY <1>2, <1>3
<1> HIDE DEF k
<1>5. QED
  BY <1>1, <1>4 DEF n

LEMMA EntryFound ==
  ASSUME NEW table, Len(table) \in Nat, NEW name
  PROVE  Named(table, name) \in 0 .. Len(table)
<1> DEFINE n == Len(table)
           I == {i \in 1 .. n : table[i].name = name}
           k == IF I # {} THEN Min(I) ELSE 0
<1>1. Named(table, name) = k
  BY DEF Named, SelectInSeq
<1>2. n \in Nat /\ I \in SUBSET (1 .. n)
  OBVIOUS
<1> HIDE DEF I, n
<1>3. I # {} => Min(I) \in 1 .. n
  BY <1>2, MinOf
<1>4. k \in 0 .. n
  BY <1>2, <1>3
<1> HIDE DEF k
<1>5. QED
  BY <1>1, <1>4 DEF n

LEMMA FontDeclared ==
  ASSUME NEW r \in Registries, NEW d \in Fonts
  PROVE  DeclareFont(r, d) \in Registries
<1> DEFINE m == FindEncoding(r, d.encoding)
           f == Named(r.fonts, d.name)
           s == r.fonts
           e == [name |-> d.name, map |-> m]
<1>1. s \in Seq(FontEntry) /\ Len(s) \in Nat /\ DOMAIN s = 1 .. Len(s)
        /\ Pointing(s, r)
  BY TablesHold, LenProperties
<1>2. m \in 0 .. Len(r.maps) /\ Len(r.maps) \in Nat
  BY EncodingFound, TablesHold, LenProperties
<1>3. f \in 0 .. Len(s)
  BY <1>1, EntryFound
<1>4. DeclareFont(r, d) = IF m = 0 THEN r
                          ELSE IF f # 0 THEN [r EXCEPT !.fonts[f].map = m]
                          ELSE [r EXCEPT !.fonts = <<e>> \o s]
  BY DEF DeclareFont
<1>5. d.name \in STRING
  BY DEF Fonts
<1> HIDE DEF m, f, s
<1>6. ASSUME m # 0, f # 0
      PROVE  [r EXCEPT !.fonts[f].map = m] \in Registries
  <2> DEFINE b == [s[f] EXCEPT !.map = m]
             x == [s EXCEPT ![f] = b]
  <2>1. m \in 1 .. Len(r.maps) /\ f \in 1 .. Len(s)
    BY <1>1, <1>2, <1>3, <1>6
  <2>2. s[f] \in FontEntry
    BY <1>1, <2>1, ElementOfSeq
  <2>3. b \in FontEntry /\ b.map = m
    BY <1>2, <2>1, <2>2 DEF FontEntry
  <2> HIDE DEF b
  <2>4. x \in Seq(FontEntry) /\ Len(x) = Len(s) /\ x[f] = b
        /\ \A i \in 1 .. Len(s) : i # f => x[i] = s[i]
    BY <1>1, <2>1, <2>3
  <2>5. [r EXCEPT !.fonts[f].map = m] = [r EXCEPT !.fonts = x]
    BY <1>1, <2>1 DEF x, b, s
  <2> HIDE DEF x
  <2>6. Pointing(x, r)
    BY <1>1, <2>1, <2>3, <2>4 DEF Pointing
  <2>7. QED
    BY <2>4, <2>5, <2>6, TablesWith
<1>7. ASSUME m # 0
      PROVE  [r EXCEPT !.fonts = <<e>> \o s] \in Registries
  <2> DEFINE x == <<e>> \o s
  <2>1. e \in FontEntry /\ e.map \in 1 .. Len(r.maps)
    BY <1>2, <1>5, <1>7 DEF FontEntry, Names
  <2> HIDE DEF e
  <2>2. /\ x \in Seq(FontEntry) /\ Len(x) = Len(s) + 1 /\ x[1] = e
        /\ \A i \in 1 .. Len(s) : x[i + 1] = s[i]
    BY <1>1, <2>1
  <2> HIDE DEF x
  <2>3. Pointing(x, r)
    <3>1. ASSUME NEW i \in 1 .. Len(x)
          PROVE  x[i].map \in 1 .. Len(r.maps)
      <4>1. CASE i = 1
        BY <4>1, <2>1, <2>2
      <4>2. CASE i # 1
        <5>1. i - 1 \in 1 .. Len(s) /\ (i - 1) + 1 = i
          BY <4>2, <2>2, <1>1
        <5>2. x[i] = s[i - 1]
          BY <5>1, <2>2
        <5>3. QED
          BY <5>1, <5>2, <1>1 DEF Pointing
      <4>3. QED
        BY <4>1, <4>2
    <3>2. QED
      BY <3>1 DEF Pointing
  <2>4. QED
    BY <2>2, <2>3, TablesWith DEF x
<1>8. QED
  BY <1>4, <1>6, <1>7

LEMMA MathFontDeclared ==
  ASSUME NEW r \in Registries, NEW d \in MathFonts
  PROVE  DeclareMathFont(r, d) \in Registries
<1> DEFINE m == FindEncoding(r, d.encoding)
           e == [name |-> d.name, map |-> m, variant |-> d.variant]
           x == <<e>> \o r.mathfonts
<1>1. m \in Nat
  BY EncodingFound, TablesHold, LenProperties
<1>2. DeclareMathFont(r, d) = IF m = 0 THEN r ELSE [r EXCEPT !.mathfonts = x]
  BY DEF DeclareMathFont
<1> HIDE DEF m
<1>3. e \in MathFontEntry
  BY <1>1 DEF MathFonts, MathFontEntry
<1> HIDE DEF e
<1>4. x \in Seq(MathFontEntry)
  BY <1>3, TablesHold
<1> HIDE DEF x
<1>5. QED
  BY <1>2, <1>4, TablesWith

(* The fonts are declared one after the other. *)
InTurnFonts(g, r, ds) ==
  /\ g \in [0 .. Len(ds) -> Registries] /\ g[0] = r
  /\ \A i \in 1 .. Len(ds) : g[i] = DeclareFont(g[i - 1], ds[i])

LEMMA FontsInTurn ==
  ASSUME NEW r \in Registries, NEW docs \in Seq(Seq(Declarations))
  PROVE  \E g : /\ InTurnFonts(g, r, Declared(docs, "font"))
                /\ ReadFonts(r, docs) = g[Len(Declared(docs, "font"))]
<1> DEFINE ds == Declared(docs, "font")
           N  == Len(ds)
           step == [i \in 1 .. N |-> [x \in Registries |-> DeclareFont(x, ds[i])]]
           Unfolds(g) == g = [i \in 0 .. N |-> IF i = 0 THEN r
                         ELSE DeclareFont(g[i - 1], ds[i])]
<1>1. ReadFonts(r, docs) = (CHOOSE g : Unfolds(g))[N]
  BY DEF ReadFonts
<1>2. ds \in Seq(Fonts) /\ N \in Nat
  BY DeclaredOfKind, LenProperties
<1>3. \A i \in 1 .. N : ds[i] \in Fonts
  BY <1>2, ElementOfSeq
<1> HIDE DEF ds, N
<1>4. ASSUME NEW i \in 1 .. N, NEW x \in Registries
      PROVE  step[i][x] = DeclareFont(x, ds[i]) /\ step[i][x] \in Registries
  BY <1>3, FontDeclared
<1> HIDE DEF step
<1>5. PICK f : Iterates(f, r, step, N, Registries)
  <2>1. IsStep(step, N, Registries)
    BY <1>4 DEF IsStep
  <2>2. QED
    BY <2>1, <1>2, Recursion
<1>6. /\ f \in [0 .. N -> Registries] /\ f[0] = r
      /\ \A i \in 1 .. N : f[i] = step[i][f[i - 1]]
  BY <1>5 DEF Iterates
<1>7. \A i \in 1 .. N : i - 1 \in 0 .. N
  BY <1>2
<1>8. \A i \in 1 .. N : f[i] = DeclareFont(f[i - 1], ds[i])
  BY <1>4, <1>6, <1>7
<1>9. Unfolds(f)
  <2>1. f = [i \in 0 .. N |-> f[i]]
    BY <1>6
  <2>2. \A i \in 0 .. N : f[i] = IF i = 0 THEN r ELSE DeclareFont(f[i - 1], ds[i])
    <3>1. \A i \in 0 .. N : i = 0 \/ i \in 1 .. N
      BY <1>2
    <3>2. QED
      BY <3>1, <1>6, <1>8
  <2> DEFINE g == [i \in 0 .. N |-> IF i = 0 THEN r
                  ELSE DeclareFont(f[i - 1], ds[i])]
  <2>3. [i \in 0 .. N |-> f[i]] = g
    BY <2>2
  <2>4. QED
    BY <2>1, <2>3
<1>10. PICK g : g = (CHOOSE h : Unfolds(h)) /\ Unfolds(g)
  BY <1>9
<1>11. g[0] = r /\ \A i \in 1 .. N : g[i] = DeclareFont(g[i - 1], ds[i])
  <2>1. 0 \in 0 .. N /\ \A i \in 1 .. N : i \in 0 .. N /\ i # 0
    BY <1>2
  <2>2. QED
    BY <2>1, <1>10
<1>12. \A i \in 0 .. N : g[i] = f[i]
  <2>1. StepAlike(g, f, N)
    BY <1>6, <1>8, <1>11 DEF StepAlike
  <2>2. QED
    BY <2>1, <1>2, RecursionUnique
<1>13. N \in 0 .. N
  BY <1>2
<1> HIDE DEF Unfolds
<1>14. ReadFonts(r, docs) = f[N]
  BY <1>1, <1>10, <1>12, <1>13
<1>15. InTurnFonts(f, r, ds)
  BY <1>6, <1>8 DEF InTurnFonts, N
<1>16. QED
  BY <1>14, <1>15 DEF N, ds

LEMMA FontsRead ==
  ASSUME NEW r \in Registries, NEW docs \in Seq(Seq(Declarations))
  PROVE  ReadFonts(r, docs) \in Registries
<1>1. Len(Declared(docs, "font")) \in Nat
  BY DeclaredOfKind, LenProperties
<1>2. QED
  BY <1>1, FontsInTurn DEF InTurnFonts

InTurnMathFonts(g, r, ds) ==
  /\ g \in [0 .. Len(ds) -> Registries] /\ g[0] = r
  /\ \A i \in 1 .. Len(ds) : g[i] = DeclareMathFont(g[i - 1], ds[i])

LEMMA MathFontsInTurn ==
  ASSUME NEW r \in Registries, NEW docs \in Seq(Seq(Declarations))
  PROVE  \E g : /\ InTurnMathFonts(g, r, Declared(docs, "mathfont"))
                /\ ReadMathFonts(r, docs) = g[Len(Declared(docs, "mathfont"))]
<1> DEFINE ds == Declared(docs, "mathfont")
           N  == Len(ds)
           step == [i \in 1 .. N |-> [x \in Registries |-> DeclareMathFont(x, ds[i])]]
           Unfolds(g) == g = [i \in 0 .. N |-> IF i = 0 THEN r
                         ELSE DeclareMathFont(g[i - 1], ds[i])]
<1>1. ReadMathFonts(r, docs) = (CHOOSE g : Unfolds(g))[N]
  BY DEF ReadMathFonts
<1>2. ds \in Seq(MathFonts) /\ N \in Nat
  BY DeclaredOfKind, LenProperties
<1>3. \A i \in 1 .. N : ds[i] \in MathFonts
  BY <1>2, ElementOfSeq
<1> HIDE DEF ds, N
<1>4. ASSUME NEW i \in 1 .. N, NEW x \in Registries
      PROVE  step[i][x] = DeclareMathFont(x, ds[i]) /\ step[i][x] \in Registries
  BY <1>3, MathFontDeclared
<1> HIDE DEF step
<1>5. PICK f : Iterates(f, r, step, N, Registries)
  <2>1. IsStep(step, N, Registries)
    BY <1>4 DEF IsStep
  <2>2. QED
    BY <2>1, <1>2, Recursion
<1>6. /\ f \in [0 .. N -> Registries] /\ f[0] = r
      /\ \A i \in 1 .. N : f[i] = step[i][f[i - 1]]
  BY <1>5 DEF Iterates
<1>7. \A i \in 1 .. N : i - 1 \in 0 .. N
  BY <1>2
<1>8. \A i \in 1 .. N : f[i] = DeclareMathFont(f[i - 1], ds[i])
  BY <1>4, <1>6, <1>7
<1>9. Unfolds(f)
  <2>1. f = [i \in 0 .. N |-> f[i]]
    BY <1>6
  <2>2. \A i \in 0 .. N : f[i] = IF i = 0 THEN r
          ELSE DeclareMathFont(f[i - 1], ds[i])
    <3>1. \A i \in 0 .. N : i = 0 \/ i \in 1 .. N
      BY <1>2
    <3>2. QED
      BY <3>1, <1>6, <1>8
  <2> DEFINE g == [i \in 0 .. N |-> IF i = 0 THEN r
                  ELSE DeclareMathFont(f[i - 1], ds[i])]
  <2>3. [i \in 0 .. N |-> f[i]] = g
    BY <2>2
  <2>4. QED
    BY <2>1, <2>3
<1>10. PICK g : g = (CHOOSE h : Unfolds(h)) /\ Unfolds(g)
  BY <1>9
<1>11. g[0] = r /\ \A i \in 1 .. N : g[i] = DeclareMathFont(g[i - 1], ds[i])
  <2>1. 0 \in 0 .. N /\ \A i \in 1 .. N : i \in 0 .. N /\ i # 0
    BY <1>2
  <2>2. QED
    BY <2>1, <1>10
<1>12. \A i \in 0 .. N : g[i] = f[i]
  <2>1. StepAlike(g, f, N)
    BY <1>6, <1>8, <1>11 DEF StepAlike
  <2>2. QED
    BY <2>1, <1>2, RecursionUnique
<1>13. N \in 0 .. N
  BY <1>2
<1> HIDE DEF Unfolds
<1>14. ReadMathFonts(r, docs) = f[N]
  BY <1>1, <1>10, <1>12, <1>13
<1>15. InTurnMathFonts(f, r, ds)
  BY <1>6, <1>8 DEF InTurnMathFonts, N
<1>16. QED
  BY <1>14, <1>15 DEF N, ds

LEMMA MathFontsRead ==
  ASSUME NEW r \in Registries, NEW docs \in Seq(Seq(Declarations))
  PROVE  ReadMathFonts(r, docs) \in Registries
<1>1. Len(Declared(docs, "mathfont")) \in Nat
  BY DeclaredOfKind, LenProperties
<1>2. QED
  BY <1>1, MathFontsInTurn DEF InTurnMathFonts

LEMMA NeutralMapType == NeutralMap \in CharMap
<1>1. <<>> \in Text /\ \A c \in 0 .. 255 : <<c>> \in Text
  BY DEF Text
<1>2. NeutralMap \in [0 .. 255 -> Text]
  BY <1>1 DEF NeutralMap
<1> DEFINE k == 255
<1>3. NeutralMap \in [0 .. k -> Text] /\ k \in Int
  BY <1>2
<1> HIDE DEF k
<1>4. QED
  BY ONLY <1>3, CharMapOf

LEMMA NeutralAdded ==
  ASSUME NEW r \in Registries
  PROVE  WithNeutralFont(r) \in Registries
<1> DEFINE n == Len(r.maps)
           m == [name |-> "LxirNeutralEncoding", map |-> NeutralMap]
           x == Append(r.maps, m)
           e == [name |-> "LxirNeutralFont", map |-> n + 1]
           y == <<e>> \o r.fonts
           q == [r EXCEPT !.maps = x]
<1>1. n \in Nat /\ r.maps \in Seq(Map) /\ r.fonts \in Seq(FontEntry)
        /\ Pointing(r.fonts, r)
      /\ Len(r.fonts) \in Nat
  BY TablesHold, LenProperties
<1>2. NeutralMap \in CharMap
  BY NeutralMapType
<1>3. m \in Map
  BY <1>2 DEF Map, Names
<1> HIDE DEF m
<1>4. x \in Seq(Map) /\ Len(x) = n + 1
  BY <1>1, <1>3
<1> HIDE DEF x
<1>5. q \in Registries
  BY <1>1, <1>4, TablesWith
<1>6. q.maps = x /\ q.fonts = r.fonts
  BY DEF Registries, Tables
<1>7. WithNeutralFont(r) = [q EXCEPT !.fonts = y]
  BY DEF WithNeutralFont, Registries, Tables, x, m
<1> HIDE DEF q
<1>8. e \in FontEntry /\ e.map = n + 1
  BY <1>1 DEF FontEntry, Names
<1> HIDE DEF e
<1>9. /\ y \in Seq(FontEntry) /\ Len(y) = Len(r.fonts) + 1 /\ y[1] = e
      /\ \A i \in 1 .. Len(r.fonts) : y[i + 1] = r.fonts[i]
  BY <1>1, <1>8
<1> HIDE DEF y
<1>10. Pointing(y, q)
  <2>1. ASSUME NEW i \in 1 .. Len(y)
        PROVE  y[i].map \in 1 .. n + 1
    <3>1. CASE i = 1
      BY <3>1, <1>1, <1>8, <1>9
    <3>2. CASE i # 1
      <4>1. i - 1 \in 1 .. Len(r.fonts) /\ (i - 1) + 1 = i
        BY <3>2, <1>1, <1>9
      <4>2. y[i] = r.fonts[i - 1] /\ r.fonts[i - 1].map \in 1 .. n
        BY <4>1, <1>1, <1>9 DEF Pointing
      <4>3. QED
        BY <4>2, <1>1
    <3>3. QED
      BY <3>1, <3>2
  <2>2. QED
    BY <2>1, <1>4, <1>6 DEF Pointing
<1>11. QED
  BY <1>5, <1>7, <1>9, <1>10, TablesWith

LEMMA NothingDeclared == NoTables \in Registries
  BY DEF NoTables, Registries, Tables, Pointing

LEMMA LfmInitType ==
  ASSUME NEW r \in Registries, NEW config \in Seq(FontFiles)
  PROVE  LfmInit(r, config) \in Registries
<1> DEFINE docs == Documents(config)
           l == ReadLigatures(r, docs)
           e == ReadEncodings(l, docs)
           f == ReadFonts(e, docs)
           m == ReadMathFonts(f, docs)
           a == ReadAccents(m, docs)
           n == WithNeutralFont(a)
<1>1. docs \in Seq(Seq(Declarations))
  BY DocumentsType
<1>2. LfmInit(r, config) = IF r.users > 0 \/ docs = <<>> THEN r
                           ELSE IF a.fonts = <<>> THEN a
                           ELSE [n EXCEPT !.users = 1]
  BY DEF LfmInit
<1> HIDE DEF docs
<1>3. l \in Registries
  BY <1>1, LigaturesRead
<1> HIDE DEF l
<1>4. e \in Registries
  BY <1>1, <1>3, EncodingsRead
<1> HIDE DEF e
<1>5. f \in Registries
  BY <1>1, <1>4, FontsRead
<1> HIDE DEF f
<1>6. m \in Registries
  BY <1>1, <1>5, MathFontsRead
<1> HIDE DEF m
<1>7. a \in Registries
  BY <1>1, <1>6, AccentsRead
<1> HIDE DEF a
<1>8. n \in Registries
  BY <1>7, NeutralAdded
<1> HIDE DEF n
<1>9. [n EXCEPT !.users = 1] \in Registries
  BY <1>8, TablesWith
<1>10. QED
  BY <1>2, <1>7, <1>9

LEMMA LfmCloseType ==
  ASSUME NEW r \in Registries
  PROVE  LfmClose(r) \in Registries
<1>1. r.users > 1 => r.users - 1 \in Nat
  BY TablesHold
<1>2. [r EXCEPT !.users = @ - 1] = [r EXCEPT !.users = r.users - 1]
  BY DEF Registries, Tables
<1> DEFINE x == r.users - 1
<1>3. x \in Nat => [r EXCEPT !.users = x] \in Registries
  BY TablesWith
<1>4. QED
  BY <1>1, <1>2, <1>3, NothingDeclared DEF LfmClose

(* The font of the postamble, unless the program ends, has a map. *)
LEMMA DvifontType ==
  ASSUME registry \in Registries, NEW d, d.index \in Int, d.space \in Nat,
         "raw" \in flags \/ FontFor(registry, NameOf(d)) # 0
  PROVE  /\ DvifontOf(d) \in Dvifont
         /\ "raw" \notin flags => DvifontOf(d).map \in 1 .. Len(registry.maps)
<1> DEFINE name == NameOf(d)
           k == FontFor(registry, name)
           m == IF "raw" \in flags THEN 0 ELSE registry.fonts[k].map
<1>1. DvifontOf(d) = [index |-> d.index, space |-> d.space, map |-> m]
  BY DEF DvifontOf
<1>2. registry.fonts \in Seq(FontEntry) /\ Len(registry.fonts) \in Nat
      /\ Pointing(registry.fonts, registry) /\ Len(registry.maps) \in Nat
  BY TablesHold, LenProperties
<1>3. k \in 0 .. Len(registry.fonts)
  <2> HIDE DEF name
  <2>1. /\ Named(registry.fonts, name) \in 0 .. Len(registry.fonts)
        /\ Named(registry.fonts, "LxirNeutralFont") \in 0 .. Len(registry.fonts)
    BY <1>2, EntryFound
  <2>2. QED
    BY <2>1 DEF FontFor
<1>4. "raw" \notin flags => k # 0
  OBVIOUS
<1> HIDE DEF k
<1>5. "raw" \notin flags => m \in 1 .. Len(registry.maps)
  BY <1>2, <1>3, <1>4 DEF Pointing
<1>6. m \in Nat
  BY <1>2, <1>5
<1> HIDE DEF m
<1>7. QED
  BY <1>1, <1>5, <1>6 DEF Dvifont

----------------------------------------------------------------------------
(* The state before the pages. *)

LEMMA Bounds == BUFFER_SIZE \in Nat /\ FontNumbers \cup {Unset} \subseteq Int
  BY InputAssumption DEF Unset

LEMMA NothingRead == Init => IInv
<1> SUFFICES ASSUME Init PROVE IInv
  OBVIOUS
<1>1. /\ File(file) /\ registry = NoTables /\ fonts = <<>> /\ list = <<>> /\ at = 0
      /\ op = [n |-> 0, code |-> "pre", arg |-> 0]
      /\ stack = <<>> /\ font = Unset /\ pages = <<>> /\ status = "start"
      /\ out = [nodes |-> <<>>, buffer |-> <<>>, buffer_size |-> BUFFER_SIZE]
  BY FilesAssumption DEF Init, NewFile
<1>2. BUFFER_SIZE \in Nat
  BY Bounds
<1>3. out.nodes = <<>> /\ out.buffer = <<>> /\ out.buffer_size = BUFFER_SIZE
  BY <1>1
<1>4. file.length \in Nat /\ nbpages \in Nat
  BY <1>1 DEF File, nbpages
<1>5. Typed
  <2>1. registry \in Registries
    BY <1>1, NothingDeclared
  <2>2. op.n \in 0 .. file.length
    BY <1>1, <1>4
  <2>3. pages \in Seq(Seq(Node)) /\ Len(pages) = 0
    BY <1>1
  <2>4. Len(pages) <= nbpages /\ \A k \in 1 .. Len(pages) : Complete(pages[k])
    BY <2>3, <1>4
  <2>5. fonts \in Seq(Dvifont) /\ list \in Seq(Dvifont) /\ stack \in Seq(Position)
    BY <1>1
  <2>6. QED
    BY <1>1, <2>1, <2>2, <2>3, <2>4, <2>5 DEF Typed
<1>6. Opened
  BY <1>1, <1>3 DEF Opened
<1>7. Encoded
  BY <1>1 DEF Encoded, Pointing
<1>8. out \in Page
  <2>1. <<>> \in Text /\ <<>> \in Seq(Node)
    BY DEF Text
  <2>2. QED
    BY <1>1, <1>2, <2>1 DEF Page
<1>9. Roomy(out)
  BY <1>2, <1>3 DEF Roomy
<1>10. Owned(out)
  BY <1>3 DEF Owned, IsOpen
<1>11. Spaced(out)
  BY <1>3 DEF Spaced, Single
<1>12. QED
  BY <1>5, <1>6, <1>7, <1>8, <1>9, <1>10, <1>11 DEF IInv

(* The tables and the fonts do not matter to a page without nodes. *)
LEMMA EmptySpaced ==
  ASSUME out.nodes = <<>>, out.buffer = <<>>, out' = out
  PROVE  Spaced(out)'
<1>1. out'.nodes = <<>> /\ out'.buffer = <<>>
  OBVIOUS
<1>2. Len(out'.nodes) = 0 /\ Len(out'.buffer) = 0
  BY <1>1
<1>3. QED
  BY <1>2 DEF Spaced, Single

(* What the steps outside of the pages leave alone. *)
LEMMA OutsideKeeps ==
  ASSUME IInv, UNCHANGED <<file, op, stack, font, out, pages>>,
         registry' \in Registries, fonts' \in Seq(Dvifont), list' \in Seq(Dvifont),
         at' \in Nat, Opened', Encoded', status' # "closed" => Spaced(out)'
  PROVE  IInv'
<1>1. Typed'
  BY DEF IInv, Typed, nbpages, Complete
<1>2. out' \in Page /\ Roomy(out)' /\ Owned(out)'
  BY DEF IInv, Roomy, Owned, IsOpen
<1>3. QED
  BY <1>1, <1>2 DEF IInv

LEMMA InitFontsStep == IInv /\ InitFonts => IInv'
<1> SUFFICES ASSUME IInv, InitFonts PROVE IInv'
  OBVIOUS
<1>1. /\ registry' = LfmInit(registry, file.config)
      /\ status = "start" /\ status' = "open"
      /\ UNCHANGED <<file, op, stack, font, out, pages>>
         /\ UNCHANGED <<fonts, at, list>>
  BY DEF InitFonts, Outside
<1>2. /\ registry \in Registries /\ file.config \in Seq(FontFiles)
      /\ fonts = <<>> /\ list = <<>> /\ out.nodes = <<>>
         /\ out.buffer = <<>> /\ at \in Nat
  BY <1>1 DEF IInv, Typed, Opened, File
<1>3. registry' \in Registries
  BY <1>1, <1>2, LfmInitType
<1>4. Opened'
  BY <1>1, <1>2 DEF Opened
<1>5. Encoded'
  BY <1>1, <1>2 DEF Encoded, Pointing
<1>6. Spaced(out)'
  BY <1>1, <1>2, EmptySpaced
<1>7. fonts' \in Seq(Dvifont) /\ list' \in Seq(Dvifont) /\ at' \in Nat
  BY <1>1, <1>2
<1>8. QED
  BY <1>1, <1>3, <1>4, <1>5, <1>6, <1>7, OutsideKeeps

LEMMA OpenFileStep == IInv /\ OpenFile => IInv'
<1> SUFFICES ASSUME IInv, OpenFile PROVE IInv'
  OBVIOUS
<1>1. /\ status = "open" /\ status' \notin {"start", "open", "between", "page", "closed"}
      /\ UNCHANGED <<file, op, stack, font, out, pages>>
      /\ UNCHANGED <<fonts, registry, at, list>>
  BY DEF OpenFile, Outside
<1>2. /\ registry \in Registries /\ fonts \in Seq(Dvifont) /\ list \in Seq(Dvifont)
      /\ at \in Nat /\ out.nodes = <<>> /\ out.buffer = <<>>
  BY <1>1 DEF IInv, Typed, Opened
<1>3. Opened'
  BY <1>1, <1>2 DEF Opened
<1>4. Encoded'
  BY <1>1 DEF IInv, Encoded, Pointing, flags
<1>5. Spaced(out)'
  BY <1>1, <1>2, EmptySpaced
<1>6. QED
  BY <1>1, <1>2, <1>3, <1>4, <1>5, OutsideKeeps

(* What the postamble says next. *)
LEMMA InstructionType ==
  ASSUME IInv
  PROVE  NextInPostamble.code = "fnt_def" =>
           NextInPostamble.index \in Int /\ NextInPostamble.space \in Nat
<1>1. file.postamble \in Seq(Instructions) /\ at \in Nat
  BY DEF IInv, Typed, File
<1>2. CASE at < Len(file.postamble)
  <2>1. Len(file.postamble) \in Nat
    BY <1>1, LenProperties
  <2>2. at + 1 \in 1 .. Len(file.postamble)
    BY <1>1, <1>2, <2>1
  <2>3. NextInPostamble \in Instructions
    BY <1>1, <1>2, <2>2, ElementOfSeq DEF NextInPostamble
  <2>4. QED
    BY <2>3, Bounds DEF Instructions
<1>3. CASE ~ (at < Len(file.postamble))
  BY <1>3 DEF NextInPostamble
<1>4. QED
  BY <1>2, <1>3

LEMMA DefineFontStep == IInv /\ DefineFont => IInv'
<1> SUFFICES ASSUME IInv, DefineFont PROVE IInv'
  OBVIOUS
<1> DEFINE d == NextInPostamble
           lost == "raw" \notin flags /\ FontFor(registry, NameOf(d)) = 0
           e == DvifontOf(d)
<1>1. /\ d.code = "fnt_def" /\ at' = at + 1
      /\ status = "postamble" /\ status' = IF lost THEN "exit" ELSE "postamble"
      /\ list' = IF lost THEN list ELSE <<e>> \o list
      /\ UNCHANGED <<file, op, stack, font, out, pages>>
         /\ UNCHANGED <<fonts, registry>>
  BY DEF DefineFont, Outside
<1>2. /\ registry \in Registries /\ fonts \in Seq(Dvifont) /\ list \in Seq(Dvifont)
      /\ at \in Nat /\ out.nodes = <<>> /\ out.buffer = <<>>
      /\ "raw" \notin flags => Pointing(fonts, registry) /\ Pointing(list, registry)
  BY <1>1 DEF IInv, Typed, Opened, Encoded
<1>3. ~ lost => e \in Dvifont
        /\ ("raw" \notin flags => e.map \in 1 .. Len(registry.maps))
  BY <1>1, <1>2, InstructionType, DvifontType
<1> HIDE DEF d, e, lost
<1>4. ~ lost => /\ list' \in Seq(Dvifont) /\ Len(list') = Len(list) + 1
                /\ Len(list) \in Nat /\ list'[1] = e
                /\ \A i \in 1 .. Len(list) : list'[i + 1] = list[i]
  BY <1>1, <1>2, <1>3
<1>5. "raw" \notin flags => Pointing(list', registry)
  <2>1. CASE lost
    BY <2>1, <1>1, <1>2
  <2>2. ASSUME ~ lost, "raw" \notin flags, NEW i \in 1 .. Len(list')
        PROVE  list'[i].map \in 1 .. Len(registry.maps)
    <3>1. CASE i = 1
      BY <3>1, <2>2, <1>3, <1>4
    <3>2. CASE i # 1
      <4>1. i - 1 \in 1 .. Len(list) /\ (i - 1) + 1 = i
        BY <3>2, <2>2, <1>4
      <4>2. list'[i] = list[i - 1]
        BY <4>1, <2>2, <1>4
      <4>3. QED
        BY <4>1, <4>2, <2>2, <1>2 DEF Pointing
    <3>3. QED
      BY <3>1, <3>2
  <2>3. QED
    BY <2>1, <2>2 DEF Pointing
<1>6. Opened'
  BY <1>1, <1>2 DEF Opened
<1>7. Encoded'
  BY <1>1, <1>2, <1>5 DEF Encoded, Pointing, flags
<1>8. Spaced(out)'
  BY <1>1, <1>2, EmptySpaced
<1>9. list' \in Seq(Dvifont) /\ at' \in Nat
  BY <1>1, <1>2, <1>4
<1>10. QED
  BY <1>1, <1>2, <1>6, <1>7, <1>8, <1>9, OutsideKeeps

LEMMA RestOfPostambleStep ==
  IInv /\ (SkipInPostamble \/ BreakInPostamble \/ EndPostamble) => IInv'
<1> SUFFICES ASSUME IInv, SkipInPostamble \/ BreakInPostamble \/ EndPostamble
             PROVE  IInv'
  OBVIOUS
<1>1. /\ status = "postamble"
      /\ status' \in {"postamble", "DVIERR_INVALID_OPCODE", "preamble"}
      /\ at' \in {at, at + 1}
      /\ \/ UNCHANGED <<fonts, list>>
         \/ fonts' = list /\ list' = <<>>
      /\ UNCHANGED <<file, op, stack, font, out, pages>> /\ UNCHANGED registry
  BY DEF SkipInPostamble, BreakInPostamble, EndPostamble, Outside
<1>2. /\ registry \in Registries /\ fonts \in Seq(Dvifont) /\ list \in Seq(Dvifont)
      /\ at \in Nat /\ out.nodes = <<>> /\ out.buffer = <<>>
      /\ "raw" \notin flags => Pointing(fonts, registry) /\ Pointing(list, registry)
  BY <1>1 DEF IInv, Typed, Opened, Encoded
<1>3. Opened'
  BY <1>1, <1>2 DEF Opened
<1>4. Encoded'
  <2>1. Pointing(<<>>, registry)
    BY DEF Pointing
  <2>2. "raw" \notin flags => Pointing(fonts', registry)
          /\ Pointing(list', registry)
    BY <2>1, <1>1, <1>2
  <2>3. QED
    BY <2>2, <1>1 DEF Encoded, Pointing, flags
<1>5. Spaced(out)'
  BY <1>1, <1>2, EmptySpaced
<1>6. at' \in Nat /\ fonts' \in Seq(Dvifont) /\ list' \in Seq(Dvifont)
  <2>1. <<>> \in Seq(Dvifont) /\ at + 1 \in Nat
    BY <1>2
  <2>2. QED
    BY ONLY <2>1, <1>1, <1>2
<1>7. QED
  BY <1>1, <1>2, <1>3, <1>4, <1>5, <1>6, OutsideKeeps

LEMMA ReadPreambleStep == IInv /\ ReadPreamble => IInv'
<1> SUFFICES ASSUME IInv, ReadPreamble PROVE IInv'
  OBVIOUS
<1>1. /\ status = "preamble" /\ status' \notin {"start", "open", "postamble", "page", "closed"}
      /\ UNCHANGED <<file, op, stack, font, out, pages>>
      /\ UNCHANGED <<fonts, registry, at, list>>
  <2>1. file.wrong \in {"nothing", "opcode", "version", "scale", "comment"}
    BY DEF IInv, Typed, File
  <2> DEFINE after == [nothing |-> "between", opcode |-> "DVIERR_INVALID_OPCODE",
                       version |-> "DVIERR_UNKNOWN_VERSION", scale |-> "abort",
                       comment |-> "DVIERR_UNEXPECTED_EOF"]
  <2>2. after[file.wrong] \notin {"start", "open", "postamble", "page", "closed"}
    BY ONLY <2>1
  <2>3. /\ status = "preamble" /\ status' = after[file.wrong]
        /\ UNCHANGED <<file, op, stack, font, out, pages>>
        /\ UNCHANGED <<fonts, registry, at, list>>
    BY DEF ReadPreamble, Outside
  <2> HIDE DEF after
  <2>4. QED
    BY <2>2, <2>3
<1>2. /\ registry \in Registries /\ fonts \in Seq(Dvifont) /\ list \in Seq(Dvifont)
      /\ at \in Nat /\ out.nodes = <<>> /\ out.buffer = <<>>
  BY <1>1 DEF IInv, Typed, Opened
<1>3. Opened'
  BY <1>1, <1>2 DEF Opened, IsOpen
<1>4. Encoded'
  BY <1>1 DEF IInv, Encoded, Pointing, flags
<1>5. Spaced(out)'
  BY <1>1, <1>2, EmptySpaced
<1>6. QED
  BY <1>1, <1>2, <1>3, <1>4, <1>5, OutsideKeeps

LEMMA CloseFontsStep == IInv /\ CloseFonts => IInv'
<1> SUFFICES ASSUME IInv, CloseFonts PROVE IInv'
  OBVIOUS
<1>1. /\ registry' = LfmClose(registry) /\ fonts' = <<>> /\ status' = "closed"
      /\ UNCHANGED <<file, op, stack, font, out, pages>> /\ UNCHANGED <<at, list>>
  BY DEF CloseFonts, Outside
<1>2. registry \in Registries /\ list \in Seq(Dvifont) /\ at \in Nat
  BY DEF IInv, Typed
<1>3. registry' \in Registries
  BY <1>1, <1>2, LfmCloseType
<1>4. Opened'
  BY <1>1 DEF Opened
<1>5. Encoded'
  BY <1>1 DEF Encoded, Pointing
<1>6. fonts' \in Seq(Dvifont)
  BY <1>1
<1>7. QED
  BY <1>1, <1>2, <1>3, <1>4, <1>5, <1>6, OutsideKeeps

----------------------------------------------------------------------------
(* The pages. *)

LEMMA SameFonts ==
  ASSUME UNCHANGED <<registry, fonts>>
  PROVE  \A f : Spaceless(f)' <=> Spaceless(f)
  BY DEF Spaceless, MapOf, CheckFont, SelectInSeq, Min

(* A good page stays one while its font and the fonts are the same, ...    *)
LEMMA GoodStays ==
  ASSUME NEW o, Good(o), out' = o, UNCHANGED <<file, registry, fonts, font>>
  PROVE  out' \in Page /\ Roomy(out)' /\ Owned(out)' /\ Spaced(out)'
<1>1. o \in Page /\ Roomy(o) /\ Owned(o) /\ Spaced(o)
  BY DEF Good
<1>2. out' \in Page /\ Roomy(out)' /\ Owned(out)'
  BY <1>1 DEF Roomy, Owned, IsOpen, Last
<1>3. Spaced(out)'
  <2>1. \A f : Spaceless(f)' <=> Spaceless(f)
    BY SameFonts
  <2>2. Normal' <=> Normal
    BY DEF Normal, flags
  <2>3. QED
    BY <1>1, <2>1, <2>2 DEF Spaced, Between, Single
<1>4. QED
  BY <1>2, <1>3

(* ... and so does one without an open text when a font is chosen.         *)
LEMMA GoodWithFont ==
  ASSUME NEW o, Good(o), ~ IsOpen(o.nodes), o.buffer = <<>>, out' = o,
         UNCHANGED <<file, registry, fonts>>
  PROVE  out' \in Page /\ Roomy(out)' /\ Owned(out)' /\ Spaced(out)'
<1>1. o \in Page /\ Roomy(o) /\ Owned(o) /\ Spaced(o)
  BY DEF Good
<1>2. out' \in Page /\ Roomy(out)' /\ Owned(out)'
  BY <1>1 DEF Roomy, Owned, IsOpen, Last
<1>3. Spaced(out)'
  <2>1. \A f : Spaceless(f)' <=> Spaceless(f)
    BY SameFonts
  <2>2. Normal' <=> Normal
    BY DEF Normal, flags
  <2>3. Len(out'.buffer) = 0
    OBVIOUS
  <2>4. Single(out.buffer)'
    BY <2>3 DEF Single
  <2>5. QED
    BY <1>1, <2>1, <2>2, <2>4 DEF Spaced, Between
<1>4. QED
  BY <1>2, <1>3

(* What a step of the pages has to show. *)
LEMMA PageStep ==
  ASSUME IInv, NEW code, NEW a, Read(code, a), UNCHANGED <<at, list>>,
         stack' \in Seq(Position), font' \in FontNumbers \cup {Unset},
         pages' \in Seq(Seq(Node)), Len(pages') <= nbpages,
         \A k \in 1 .. Len(pages') : Complete(pages'[k]),
         Opened', status # "closed",
         out' \in Page /\ Roomy(out)' /\ Owned(out)' /\ Spaced(out)'
  PROVE  IInv'
<1>1. /\ op.n < file.length /\ op' = [n |-> op.n + 1, code |-> code, arg |-> a]
      /\ UNCHANGED <<file, registry, fonts>>
  BY DEF Read
<1>2. op'.n \in 0 .. file'.length
  <2>1. op.n \in 0 .. file.length /\ file.length \in Nat
    BY DEF IInv, Typed, File
  <2>2. QED
    BY <2>1, <1>1
<1>3. Typed'
  BY <1>1, <1>2 DEF IInv, Typed, nbpages, Complete
<1>4. Encoded'
  BY <1>1 DEF IInv, Encoded, Pointing, flags
<1>5. QED
  BY <1>3, <1>4 DEF IInv

(* Within a page. *)
LEMMA InPage ==
  ASSUME IInv, status = "page"
  PROVE  /\ Good(out) /\ font \in Int /\ BUFFER_SIZE \in Nat
         /\ stack \in Seq(Position) /\ stack # <<>> /\ Top \in Position
         /\ registry \in Registries /\ fonts \in Seq(Dvifont)
         /\ "raw" \notin flags => Pointing(fonts, registry)
<1>1. /\ Typed /\ Opened /\ Encoded /\ Good(out)
  BY DEF IInv, Good
<1>2. stack \in Seq(Position) /\ stack # <<>>
  BY <1>1 DEF Typed, Opened
<1>3. Top \in Position
  BY <1>2, LastOf DEF Top
<1>4. QED
  BY <1>1, <1>2, <1>3, Bounds DEF Typed, Encoded

LEMMA OpcodeStep ==
  ASSUME IInv, NEW code, NEW a, NEW o, NEW st, Opcode(code, a, o, st),
         status = "page" => Good(o) /\ st \in Seq(Position) /\ st # <<>>,
         UNCHANGED <<at, list>>
  PROVE  IInv'
<1>1. /\ Read(code, a) /\ status = "page" /\ out' = o /\ stack' = st
      /\ UNCHANGED <<font, pages, status>>
  BY DEF Opcode
<1>2. UNCHANGED <<file, registry, fonts>>
  BY <1>1 DEF Read
<1>3. out' \in Page /\ Roomy(out)' /\ Owned(out)' /\ Spaced(out)'
  BY <1>1, <1>2, GoodStays
<1>4. Opened'
  BY <1>1, <1>2 DEF IInv, Opened, nbpages
<1>5. /\ font' \in FontNumbers \cup {Unset}
      /\ pages' \in Seq(Seq(Node)) /\ Len(pages') <= nbpages
      /\ \A k \in 1 .. Len(pages') : Complete(pages'[k])
  BY <1>1 DEF IInv, Typed
<1>6. QED
  BY <1>1, <1>3, <1>4, <1>5, PageStep

LEMMA WithTopType ==
  ASSUME stack \in Seq(Position), stack # <<>>, NEW p \in Position
  PROVE  WithTop(p) \in Seq(Position) /\ WithTop(p) # <<>>
<1> DEFINE s == Front(stack)
<1>1. s \in Seq(Position)
  BY FrontOf
<1> HIDE DEF s
<1>2. Append(s, p) \in Seq(Position) /\ Append(s, p) # <<>>
  BY <1>1
<1>3. QED
  BY <1>2 DEF WithTop, s

(* Rules, specials and controls. *)
LEMMA NodesAdded ==
  ASSUME NEW o, Good(o), BUFFER_SIZE \in Nat
  PROVE  /\ \A p \in Position : Good(AppendRule(o, p))
         /\ Good(AppendXxx(o))
         /\ \A k \in Controls, a \in Int : Good(AppendControl(o, k, a))
<1> DEFINE c == CloseText(o)
<1>1. Good(c) /\ ~ IsOpen(c.nodes)
  BY ClosedText
<1> HIDE DEF c
<1>2. ASSUME NEW node \in OtherNode
      PROVE  Good(AppendNode(c, node))
  BY <1>1, OtherAppended
<1>3. ASSUME NEW p \in Position
      PROVE  Good(AppendRule(o, p))
  <2>1. p.h \in Int /\ p.v \in Int
    BY DEF Position, State
  <2>2. [type |-> "rule", h |-> p.h, v |-> p.v] \in OtherNode
    BY <2>1 DEF OtherNode
  <2>3. QED
    BY <2>2, <1>2 DEF AppendRule, c
<1>4. Good(AppendXxx(o))
  <2>1. [type |-> "xxx"] \in OtherNode
    BY DEF OtherNode
  <2>2. QED
    BY <2>1, <1>2 DEF AppendXxx, c
<1>5. ASSUME NEW k \in Controls, NEW a \in Int
      PROVE  Good(AppendControl(o, k, a))
  <2>1. [type |-> "control", control |-> k, param |-> a] \in OtherNode
    BY DEF OtherNode
  <2>2. QED
    BY <2>1, <1>2 DEF AppendControl, c
<1>6. QED
  BY <1>3, <1>4, <1>5

LEMMA SpaceOrNot ==
  ASSUME NEW o, Good(o), NEW p \in Position, NEW skip, font \in Int, BUFFER_SIZE \in Nat
  PROVE  Good(WithSpace(o, p, skip))
  BY SpaceAppended DEF WithSpace

(* A position that is moved. *)
LEMMA Moved ==
  ASSUME NEW p \in Position, NEW a \in Int
  PROVE  /\ [p EXCEPT !.h = @ + a] \in Position
         /\ [p EXCEPT !.v = @ + a] \in Position
         /\ \A r \in {"w", "x"} :
              p[r] \in Int /\ [p EXCEPT ![r] = a, !.h = @ + a] \in Position
         /\ \A r \in {"y", "z"} :
              p[r] \in Int /\ [p EXCEPT ![r] = a, !.v = @ + a] \in Position
<1> DEFINE Registers == {"h", "v", "w", "x", "y", "z"}
<1>1. DOMAIN State = Registers
  BY DEF State
<1>2. /\ p \in [Registers -> Int]
      /\ [Registers -> Int] = Position
  BY <1>1 DEF Position
<1>3. \A r \in Registers : p[r] \in Int
  BY <1>2
<1>4. {"h", "v", "w", "x", "y", "z"} \subseteq Registers
  OBVIOUS
<1> HIDE DEF Registers
<1>5. ASSUME NEW q \in [Registers -> Int], NEW r \in Registers, NEW b \in Int
      PROVE  [q EXCEPT ![r] = b] \in [Registers -> Int]
  BY ONLY <1>5
<1>6. p["h"] + a \in Int /\ p["v"] + a \in Int /\ "h" \in Registers
        /\ "v" \in Registers
  BY <1>3, <1>4
<1>7. /\ [p EXCEPT !.h = @ + a] \in Position
      /\ [p EXCEPT !.v = @ + a] \in Position
  BY ONLY <1>2, <1>5, <1>6
<1>8. ASSUME NEW r \in {"w", "x"}
      PROVE  p[r] \in Int /\ [p EXCEPT ![r] = a, !.h = @ + a] \in Position
  <2> DEFINE q == [p EXCEPT ![r] = a]
  <2>1. r \in Registers /\ r # "h"
    BY <1>4
  <2>2. q \in [Registers -> Int]
    BY <1>2, <1>5, <2>1
  <2>3. q["h"] = p["h"]
    BY ONLY <1>2, <1>6, <2>1
  <2>4. [q EXCEPT !["h"] = p["h"] + a] \in [Registers -> Int]
    BY <1>5, <1>6, <2>2
  <2>5. [p EXCEPT ![r] = a, !.h = @ + a] = [q EXCEPT !["h"] = q["h"] + a]
    OBVIOUS
  <2> HIDE DEF q
  <2>6. QED
    BY ONLY <1>2, <1>3, <2>1, <2>3, <2>4, <2>5
<1>9. ASSUME NEW r \in {"y", "z"}
      PROVE  p[r] \in Int /\ [p EXCEPT ![r] = a, !.v = @ + a] \in Position
  <2> DEFINE q == [p EXCEPT ![r] = a]
  <2>1. r \in Registers /\ r # "v"
    BY <1>4
  <2>2. q \in [Registers -> Int]
    BY <1>2, <1>5, <2>1
  <2>3. q["v"] = p["v"]
    BY ONLY <1>2, <1>6, <2>1
  <2>4. [q EXCEPT !["v"] = p["v"] + a] \in [Registers -> Int]
    BY <1>5, <1>6, <2>2
  <2>5. [p EXCEPT ![r] = a, !.v = @ + a] = [q EXCEPT !["v"] = q["v"] + a]
    OBVIOUS
  <2> HIDE DEF q
  <2>6. QED
    BY ONLY <1>2, <1>3, <2>1, <2>3, <2>4, <2>5
<1>10. QED
  BY <1>7, <1>8, <1>9

LEMMA MoveStep ==
  ASSUME IInv, UNCHANGED <<at, list>>,
         \/ PutRule \/ Push \/ Xxx \/ Skipped
         \/ \E a \in Moves : SetRule(a) \/ Right(a) \/ Down(a)
         \/ \E r \in {"w", "x"} : UseAcross(r) \/ \E a \in Moves : SetAcross(r, a)
         \/ \E r \in {"y", "z"} : UseAlong(r) \/ \E a \in Moves : SetAlong(r, a)
  PROVE  IInv'
<1>1. ASSUME status = "page"
      PROVE  /\ Good(out) /\ font \in Int /\ BUFFER_SIZE \in Nat
             /\ stack \in Seq(Position) /\ stack # <<>> /\ Top \in Position
  BY <1>1, InPage
<1>2. Moves \subseteq Int
  BY InputAssumption
<1>3. CASE PutRule
  <2>1. Opcode("rule", 0, AppendRule(out, Top), stack)
    BY <1>3 DEF PutRule
  <2>2. status = "page" => Good(AppendRule(out, Top))
    BY <1>1, NodesAdded
  <2>3. QED
    BY <2>1, <2>2, <1>1, OpcodeStep
<1>4. CASE Push
  <2> DEFINE st == Append(stack, Top)
             o == AppendControl(out, "push", 0)
  <2>1. Opcode("push", 0, o, st)
    BY <1>4 DEF Push
  <2>2. status = "page" => Good(o)
    BY <1>1, NodesAdded DEF Controls
  <2>3. status = "page" => st \in Seq(Position) /\ st # <<>>
    BY <1>1
  <2> HIDE DEF st, o
  <2>4. QED
    BY <2>1, <2>2, <2>3, OpcodeStep
<1>5. CASE Xxx
  <2>1. Opcode("xxx", 0, AppendXxx(out), stack)
    BY <1>5 DEF Xxx
  <2>2. status = "page" => Good(AppendXxx(out))
    BY <1>1, NodesAdded
  <2>3. QED
    BY <2>1, <2>2, <1>1, OpcodeStep
<1>6. CASE Skipped
  <2>1. PICK code \in {"nop", "fnt_def"} : Opcode(code, 0, out, stack)
    BY <1>6 DEF Skipped
  <2>2. QED
    BY <2>1, <1>1, OpcodeStep
<1>7. ASSUME NEW a \in Moves, SetRule(a)
      PROVE  IInv'
  <2> DEFINE st == WithTop([Top EXCEPT !.h = @ + a])
             o == AppendRule(out, Top)
  <2>1. Opcode("rule", a, o, st)
    BY <1>7 DEF SetRule
  <2>2. status = "page" => Good(o)
    BY <1>1, NodesAdded
  <2>3. status = "page" => st \in Seq(Position) /\ st # <<>>
    BY <1>1, <1>2, Moved, WithTopType
  <2> HIDE DEF st, o
  <2>4. QED
    BY <2>1, <2>2, <2>3, OpcodeStep
<1>8. ASSUME NEW a \in Moves, Right(a)
      PROVE  IInv'
  <2> DEFINE st == WithTop([Top EXCEPT !.h = @ + a])
             c == AppendControl(out, "right", a)
  <2>1. PICK skip \in SpaceSkip(a) : Opcode("right", a, WithSpace(c, Top, skip), st)
    BY <1>8 DEF Right
  <2>2. status = "page" => Good(c)
    BY <1>1, <1>2, NodesAdded DEF Controls
  <2>3. status = "page" => st \in Seq(Position) /\ st # <<>>
    BY <1>1, <1>2, Moved, WithTopType
  <2> HIDE DEF st, c
  <2>4. status = "page" => Good(WithSpace(c, Top, skip))
    BY <1>1, <2>2, SpaceOrNot
  <2>5. QED
    BY <2>1, <2>3, <2>4, OpcodeStep
<1>9. ASSUME NEW a \in Moves, Down(a)
      PROVE  IInv'
  <2> DEFINE st == WithTop([Top EXCEPT !.v = @ + a])
             o == AppendControl(out, "down", a)
  <2>1. Opcode("down", a, o, st)
    BY <1>9 DEF Down
  <2>2. status = "page" => Good(o)
    BY <1>1, <1>2, NodesAdded DEF Controls
  <2>3. status = "page" => st \in Seq(Position) /\ st # <<>>
    BY <1>1, <1>2, Moved, WithTopType
  <2> HIDE DEF st, o
  <2>4. QED
    BY <2>1, <2>2, <2>3, OpcodeStep
<1>10. ASSUME NEW r \in {"w", "x"}, UseAcross(r)
       PROVE  IInv'
  <2> DEFINE p == [Top EXCEPT !.h = @ + Top[r]]
             st == WithTop(p)
  <2>1. PICK skip \in SpaceSkip(Top[r]) : Opcode(r, 0, WithSpace(out, p, skip), st)
    BY <1>10 DEF UseAcross
  <2>2. status = "page" => p \in Position
    <3>1. status = "page" => Top[r] \in Int
      BY <1>1, Moved
    <3>2. QED
      BY <3>1, <1>1, Moved
  <2> HIDE DEF p
  <2>3. status = "page" => st \in Seq(Position) /\ st # <<>>
    BY <1>1, <2>2, WithTopType
  <2> HIDE DEF st
  <2>4. status = "page" => Good(WithSpace(out, p, skip))
    BY <1>1, <2>2, SpaceOrNot
  <2>5. QED
    BY <2>1, <2>3, <2>4, OpcodeStep
<1>11. ASSUME NEW r \in {"w", "x"}, NEW a \in Moves, SetAcross(r, a)
       PROVE  IInv'
  <2> DEFINE p == [Top EXCEPT ![r] = a, !.h = @ + a]
             c == AppendControl(out, r, a)
             st == WithTop(p)
  <2>1. PICK skip \in SpaceSkip(a) : Opcode(r, a, WithSpace(c, p, skip), st)
    BY <1>11 DEF SetAcross
  <2>2. status = "page" => p \in Position
    BY <1>1, <1>2, Moved
  <2>3. status = "page" => Good(c)
    BY <1>1, <1>2, NodesAdded DEF Controls
  <2> HIDE DEF p, c
  <2>4. status = "page" => st \in Seq(Position) /\ st # <<>>
    BY <1>1, <2>2, WithTopType
  <2> HIDE DEF st
  <2>5. status = "page" => Good(WithSpace(c, p, skip))
    BY <1>1, <2>2, <2>3, SpaceOrNot
  <2>6. QED
    BY <2>1, <2>4, <2>5, OpcodeStep
<1>12. ASSUME NEW r \in {"y", "z"}, UseAlong(r)
       PROVE  IInv'
  <2> DEFINE p == [Top EXCEPT !.v = @ + Top[r]]
             st == WithTop(p)
  <2>1. Opcode(r, 0, CloseText(out), st)
    BY <1>12 DEF UseAlong
  <2>2. status = "page" => p \in Position
    <3>1. status = "page" => Top[r] \in Int
      BY <1>1, Moved
    <3>2. QED
      BY <3>1, <1>1, Moved
  <2> HIDE DEF p
  <2>3. status = "page" => st \in Seq(Position) /\ st # <<>>
    BY <1>1, <2>2, WithTopType
  <2> HIDE DEF st
  <2>4. status = "page" => Good(CloseText(out))
    BY <1>1, ClosedText
  <2>5. QED
    BY <2>1, <2>3, <2>4, OpcodeStep
<1>13. ASSUME NEW r \in {"y", "z"}, NEW a \in Moves, SetAlong(r, a)
       PROVE  IInv'
  <2> DEFINE p == [Top EXCEPT ![r] = a, !.v = @ + a]
             o == AppendControl(out, r, a)
             st == WithTop(p)
  <2>1. Opcode(r, a, o, st)
    BY <1>13 DEF SetAlong
  <2>2. status = "page" => p \in Position
    BY <1>1, <1>2, Moved
  <2>3. status = "page" => Good(o)
    BY <1>1, <1>2, NodesAdded DEF Controls
  <2> HIDE DEF p, o
  <2>4. status = "page" => st \in Seq(Position) /\ st # <<>>
    BY <1>1, <2>2, WithTopType
  <2> HIDE DEF st
  <2>5. QED
    BY <2>1, <2>3, <2>4, OpcodeStep
<1>14. QED
  BY <1>3, <1>4, <1>5, <1>6, <1>7, <1>8, <1>9, <1>10, <1>11, <1>12, <1>13

(* The steps that leave the page list and the positions alone, and need    *)
(* not stay in the page.                                                   *)
LEMMA LeavingStep ==
  ASSUME IInv, status = "page", NEW code, NEW a, Read(code, a), NEW o, Good(o), out' = o,
         UNCHANGED <<stack, font, pages>>, UNCHANGED <<at, list>>,
         status' \notin {"start", "open", "postamble", "preamble", "between", "closed"}
  PROVE  IInv'
<1>1. UNCHANGED <<file, registry, fonts>>
  BY DEF Read
<1>2. out' \in Page /\ Roomy(out)' /\ Owned(out)' /\ Spaced(out)'
  BY <1>1, GoodStays
<1>3. Opened'
  BY <1>1 DEF IInv, Opened, nbpages
<1>4. /\ font' \in FontNumbers \cup {Unset} /\ stack' \in Seq(Position)
      /\ pages' \in Seq(Seq(Node)) /\ Len(pages') <= nbpages
      /\ \A k \in 1 .. Len(pages') : Complete(pages'[k])
  BY DEF IInv, Typed
<1>5. QED
  BY <1>2, <1>3, <1>4, PageStep

LEMMA CharStep ==
  ASSUME IInv, UNCHANGED <<at, list>>, NEW c \in Characters, SetChar(c) \/ PutChar(c)
  PROVE  IInv'
<1>1. c \in Int /\ Signed(c) \in Int
  BY InputAssumption DEF Signed
<1>2. ASSUME NEW code, NEW ch \in Int, Read(code, ch), status = "page",
             out' = AppendText(out, ch), status' = TextError(ch),
             UNCHANGED <<stack, font, pages>>
      PROVE  IInv'
  <2>1. Good(AppendText(out, ch))
    BY <1>2, InPage, TextAppended
  <2>2. status' \in {"page", "DVIERR_INVALID_CHAR"}
    BY <1>2 DEF TextError
  <2> DEFINE o == AppendText(out, ch)
  <2>3. Good(o) /\ out' = o
    BY <1>2, <2>1
  <2> HIDE DEF o
  <2>4. QED
    BY <1>2, <2>2, <2>3, LeavingStep
<1>3. CASE SetChar(c)
  BY <1>1, <1>2, <1>3 DEF SetChar
<1>4. CASE PutChar(c)
  <2> DEFINE ch == Signed(c)
  <2>1. /\ Read("put", ch) /\ status = "page"
        /\ out' = AppendText(out, ch) /\ status' = TextError(ch)
        /\ UNCHANGED <<stack, font, pages>>
    BY <1>4 DEF PutChar
  <2>2. ch \in Int
    BY <1>1
  <2> HIDE DEF ch
  <2>3. QED
    BY <2>1, <2>2, <1>2
<1>5. QED
  BY <1>3, <1>4

LEMMA BrokenStep ==
  ASSUME IInv, UNCHANGED <<at, list>>, Invalid \/ Truncated
  PROVE  IInv'
<1>1. status = "page"
  BY DEF Invalid, Truncated
<1>2. Good(out) /\ Good(CloseText(out))
  BY <1>1, InPage, ClosedText
<1>3. CASE Invalid
  <2>1. PICK code \in {"bop", "other"} : Read(code, 0)
    BY <1>3 DEF Invalid
  <2>2. /\ status' = "DVIERR_INVALID_OPCODE" /\ out' = out
        /\ UNCHANGED <<stack, font, pages>>
    BY <1>3 DEF Invalid
  <2>3. QED
    BY <2>1, <2>2, <1>1, <1>2, LeavingStep
<1>4. CASE Truncated
  <2>1. PICK o \in {out, CloseText(out)} : out' = o
    BY <1>4 DEF Truncated
  <2>2. /\ Read("eof", 0) /\ status' = "DVIERR_UNEXPECTED_EOF"
        /\ UNCHANGED <<stack, font, pages>>
    BY <1>4 DEF Truncated
  <2>3. Good(o)
    BY <2>1, <1>2
  <2>4. QED
    BY <2>1, <2>2, <2>3, <1>1, LeavingStep
<1>5. QED
  BY <1>3, <1>4

LEMMA PopStep ==
  ASSUME IInv, UNCHANGED <<at, list>>, Pop
  PROVE  IInv'
<1>1. CASE Len(stack) > 1
  <2> DEFINE st == Front(stack)
             o == AppendControl(out, "pop", 0)
  <2>1. Opcode("pop", 0, o, st)
    BY <1>1 DEF Pop
  <2>2. status = "page" => Good(o)
    BY InPage, NodesAdded DEF Controls
  <2>3. status = "page" => st \in Seq(Position) /\ st # <<>>
    <3>1. status = "page" => stack \in Seq(Position) /\ stack # <<>>
      BY InPage
    <3>2. status = "page" => st \in Seq(Position) /\ Len(st) = Len(stack) - 1
      BY <3>1, FrontOf
    <3> HIDE DEF st
    <3>3. QED
      BY <3>1, <3>2, <1>1, LenProperties
  <2> HIDE DEF st, o
  <2>4. QED
    BY <2>1, <2>2, <2>3, OpcodeStep
<1>2. CASE ~ (Len(stack) > 1)
  <2>1. /\ Read("pop", 0) /\ status = "page" /\ status' = "DVIERR_INVALID_POP"
        /\ out' = out /\ UNCHANGED <<stack, font, pages>>
    BY <1>2 DEF Pop
  <2>2. QED
    BY <2>1, InPage, LeavingStep
<1>3. QED
  BY <1>1, <1>2

LEMMA FontStep ==
  ASSUME IInv, UNCHANGED <<at, list>>, NEW f \in FontNumbers, SelectFont(f)
  PROVE  IInv'
<1> DEFINE o == CloseText(out)
<1>1. /\ Read("fnt", f) /\ status = "page" /\ out' = o /\ font' = f
      /\ status' \in {"page", "DVIERR_INVALID_FONT"} /\ UNCHANGED <<stack, pages>>
  BY DEF SelectFont
<1>2. Good(o) /\ ~ IsOpen(o.nodes) /\ o.buffer = <<>>
  BY <1>1, InPage, ClosedText
<1> HIDE DEF o
<1>3. UNCHANGED <<file, registry, fonts>>
  BY <1>1 DEF Read
<1>4. out' \in Page /\ Roomy(out)' /\ Owned(out)' /\ Spaced(out)'
  BY <1>1, <1>2, <1>3, GoodWithFont
<1>5. Opened'
  BY <1>1, <1>3 DEF IInv, Opened, nbpages
<1>6. /\ font' \in FontNumbers \cup {Unset} /\ stack' \in Seq(Position)
      /\ pages' \in Seq(Seq(Node)) /\ Len(pages') <= nbpages
      /\ \A k \in 1 .. Len(pages') : Complete(pages'[k])
  BY <1>1 DEF IInv, Typed
<1>7. QED
  BY <1>1, <1>4, <1>5, <1>6, PageStep

LEMMA EndOfPageStep ==
  ASSUME IInv, UNCHANGED <<at, list>>, EndOfPage
  PROVE  IInv'
<1> DEFINE o == CloseText(out)
           nodes == o.nodes
<1>1. /\ Read("eop", 0) /\ status = "page" /\ out' = o /\ UNCHANGED <<stack, font>>
      /\ \/ status' = "DVIERR_INVALID_STACK" /\ pages' = pages
         \/ status' = "between" /\ pages' = Append(pages, nodes)
  BY DEF EndOfPage
<1>2. Good(o) /\ ~ IsOpen(nodes) /\ o.buffer = <<>>
  BY <1>1, InPage, ClosedText
<1> HIDE DEF o
<1>3. UNCHANGED <<file, registry, fonts>>
  BY <1>1 DEF Read
<1>4. out' \in Page /\ Roomy(out)' /\ Owned(out)' /\ Spaced(out)'
  BY <1>1, <1>2, <1>3, GoodStays
<1>5. Opened'
  BY <1>1, <1>2, <1>3 DEF Opened
<1>6. /\ pages \in Seq(Seq(Node)) /\ Len(pages) < nbpages /\ Len(pages) \in Nat
      /\ nbpages \in Nat /\ \A k \in 1 .. Len(pages) : Complete(pages[k])
  BY <1>1, LenProperties DEF IInv, Typed, Opened, File, nbpages
<1>7. nodes \in Seq(Node) /\ Complete(nodes)
  BY <1>2, AllComplete DEF Good, Page
<1> HIDE DEF nodes
<1>8. /\ pages' \in Seq(Seq(Node)) /\ Len(pages') <= nbpages
      /\ \A k \in 1 .. Len(pages') : Complete(pages'[k])
  <2>1. CASE pages' = pages
    BY <2>1, <1>6
  <2>2. CASE pages' = Append(pages, nodes)
    <3>1. /\ pages' \in Seq(Seq(Node)) /\ Len(pages') = Len(pages) + 1
          /\ pages'[Len(pages) + 1] = nodes
          /\ \A k \in 1 .. Len(pages) : pages'[k] = pages[k]
      BY <2>2, <1>6, <1>7, AppendProperties
    <3>2. \A k \in 1 .. Len(pages') : k \in 1 .. Len(pages) \/ k = Len(pages) + 1
      BY <3>1, <1>6
    <3>3. \A k \in 1 .. Len(pages') : Complete(pages'[k])
      <4>1. ASSUME NEW k \in 1 .. Len(pages')
            PROVE  Complete(pages'[k])
        BY <3>1, <3>2, <1>6, <1>7
      <4>2. QED
        BY <4>1
    <3>4. Len(pages') <= nbpages
      BY ONLY <3>1, <1>6
    <3>5. QED
      BY <3>1, <3>3, <3>4
  <2>3. QED
    BY <2>1, <2>2, <1>1
<1>9. font' \in FontNumbers \cup {Unset} /\ stack' \in Seq(Position)
  BY <1>1 DEF IInv, Typed
<1>10. QED
  BY <1>1, <1>4, <1>5, <1>8, <1>9, PageStep

LEMMA BetweenStep ==
  ASSUME IInv, UNCHANGED <<at, list>>, ReadBop \/ ReadPost \/ ReadBetween
  PROVE  IInv'
<1>1. status = "between" /\ UNCHANGED <<font, pages>>
  BY DEF ReadBop, ReadPost, ReadBetween
<1>2. PICK code : Read(code, 0)
  BY DEF ReadBop, ReadPost, ReadBetween
<1>3. UNCHANGED <<file, registry, fonts>>
  BY <1>2 DEF Read
<1>4. /\ Good(out) /\ ~ IsOpen(out.nodes) /\ out.buffer = <<>>
  BY <1>1 DEF IInv, Opened, Good
<1>5. /\ font' \in FontNumbers \cup {Unset}
      /\ pages' \in Seq(Seq(Node)) /\ Len(pages') <= nbpages
      /\ \A k \in 1 .. Len(pages') : Complete(pages'[k])
  BY <1>1 DEF IInv, Typed
<1>6. CASE UNCHANGED <<stack, out>>
           /\ status' \in {"DVIERR_TOO_MANY_PAGES", "end", "between", "DVIERR_INVALID_OPCODE"}
  <2>1. out' \in Page /\ Roomy(out)' /\ Owned(out)' /\ Spaced(out)'
    BY <1>1, <1>3, <1>4, <1>6, GoodStays
  <2>2. Opened'
    BY <1>4, <1>6 DEF Opened
  <2>3. stack' \in Seq(Position)
    BY <1>6 DEF IInv, Typed
  <2>4. QED
    BY <1>1, <1>2, <1>5, <2>1, <2>2, <2>3, PageStep
<1>7. CASE /\ stack' = <<State>> /\ status' = "page" /\ ~ (Len(pages) >= nbpages)
           /\ out' = [out EXCEPT !.nodes = <<[type |-> "bop"]>>]
  <2> DEFINE node == [type |-> "bop"]
             o == [out EXCEPT !.nodes = <<node>>]
  <2>1. node \in Node /\ node.type # "text"
    BY DEF Node, OtherNode
  <2>2. out \in Page /\ Roomy(out) /\ Owned(out) /\ Spaced(out)
    BY <1>4 DEF Good
  <2> HIDE DEF node
  <2>3. o \in Page /\ o.nodes = <<node>> /\ o.buffer = <<>>
          /\ o.buffer_size = out.buffer_size
    <3>1. <<node>> \in Seq(Node)
      BY <2>1
    <3>2. out \in [nodes : Seq(Node), buffer : Text, buffer_size : Nat]
      BY <2>2 DEF Page
    <3>3. /\ o \in [nodes : Seq(Node), buffer : Text, buffer_size : Nat]
          /\ o.nodes = <<node>> /\ o.buffer = out.buffer
             /\ o.buffer_size = out.buffer_size
      BY ONLY <3>1, <3>2
    <3>4. QED
      BY <3>3, <1>4 DEF Page
  <2>4. out' = o
    BY <1>7 DEF node
  <2> HIDE DEF o
  <2>5. Len(o.nodes) = 1 /\ o.nodes[1] = node /\ Last(o.nodes) = node
    BY <2>3 DEF Last
  <2>6. ~ IsOpen(o.nodes)
    BY <2>1, <2>5 DEF IsOpen
  <2>7. Roomy(o)
    BY <2>2, <2>3, <1>4 DEF Roomy
  <2>8. Owned(o)
    BY <2>3, <2>5, <2>6 DEF Owned
  <2>9. Spaced(o)
    <3>1. Len(o.buffer) = 0
      BY <2>3
    <3>2. Single(o.buffer)
      BY <3>1 DEF Single
    <3>3. QED
      BY <2>1, <2>5, <3>2 DEF Spaced
  <2>10. out' \in Page /\ Roomy(out)' /\ Owned(out)' /\ Spaced(out)'
    <3>1. Good(o)
      BY <2>3, <2>7, <2>8, <2>9 DEF Good
    <3>2. QED
      BY <3>1, <2>4, <1>1, <1>3, GoodStays
  <2>11. State \in Position
    BY DEF State, Position
  <2>12. stack' \in Seq(Position) /\ stack' # <<>>
    BY <2>11, <1>7
  <2>13. Opened'
    <3>1. Len(pages) < nbpages
      <4>1. nbpages \in Nat /\ Len(pages) \in Nat
        BY LenProperties DEF IInv, Typed, File, nbpages
      <4>2. QED
        BY <4>1, <1>7
    <3>2. QED
      BY <3>1, <2>12, <1>1, <1>3, <1>7 DEF Opened, nbpages
  <2>14. QED
    BY <1>1, <1>2, <1>5, <2>10, <2>12, <2>13, PageStep
<1>8. QED
  BY <1>6, <1>7 DEF ReadBop, ReadPost, ReadBetween

LEMMA NothingDone ==
  ASSUME IInv, UNCHANGED fileVars
  PROVE  IInv'
<1>1. UNCHANGED <<file, registry, fonts, op, stack, font, out, pages, status, at, list>>
  BY DEF fileVars, vars
<1>2. Typed'
  BY <1>1 DEF IInv, Typed, nbpages
<1>3. Opened' /\ Encoded'
  BY <1>1 DEF IInv, Opened, Encoded, Pointing, flags, nbpages
<1>4. out' \in Page /\ Roomy(out)' /\ Owned(out)'
  BY <1>1 DEF IInv, Roomy, Owned
<1>5. status' # "closed" => Spaced(out)'
  <2> SUFFICES ASSUME status # "closed" PROVE Spaced(out)'
    BY <1>1
  <2>1. Good(out)
    BY DEF IInv, Good
  <2>2. QED
    BY <2>1, <1>1, GoodStays
<1>6. QED
  BY <1>2, <1>3, <1>4, <1>5 DEF IInv

LEMMA PageReads ==
  ASSUME IInv, UNCHANGED <<at, list>>, ReadPages
  PROVE  IInv'
<1>1. CASE ReadBop \/ ReadPost \/ ReadBetween
  BY <1>1, BetweenStep
<1>2. CASE \E c \in Characters : SetChar(c) \/ PutChar(c)
  BY <1>2, CharStep
<1>3. CASE \/ PutRule \/ Push \/ Xxx \/ Skipped
           \/ \E a \in Moves : SetRule(a) \/ Right(a) \/ Down(a)
           \/ \E r \in {"w", "x"} : UseAcross(r) \/ \E a \in Moves : SetAcross(r, a)
           \/ \E r \in {"y", "z"} : UseAlong(r) \/ \E a \in Moves : SetAlong(r, a)
  BY ONLY <1>3, IInv, UNCHANGED <<at, list>>, MoveStep
<1>4. CASE EndOfPage
  BY <1>4, EndOfPageStep
<1>5. CASE Pop
  BY <1>5, PopStep
<1>6. CASE Invalid \/ Truncated
  BY <1>6, BrokenStep
<1>7. CASE \E f \in FontNumbers : SelectFont(f)
  BY <1>7, FontStep
<1>8. QED
  BY <1>1, <1>2, <1>3, <1>4, <1>5, <1>6, <1>7 DEF ReadPages

LEMMA Inductive == IInv /\ [Next]_fileVars => IInv'
<1> SUFFICES ASSUME IInv, [Next]_fileVars PROVE IInv'
  OBVIOUS
<1>1. CASE InitFonts
  BY <1>1, InitFontsStep
<1>2. CASE OpenFile
  BY <1>2, OpenFileStep
<1>3. CASE DefineFont
  BY <1>3, DefineFontStep
<1>4. CASE SkipInPostamble \/ BreakInPostamble \/ EndPostamble
  BY <1>4, RestOfPostambleStep
<1>5. CASE ReadPreamble
  BY <1>5, ReadPreambleStep
<1>6. CASE CloseFonts
  BY <1>6, CloseFontsStep
<1>7. CASE ReadPages /\ UNCHANGED <<at, list>>
  BY <1>7, PageReads
<1>8. CASE UNCHANGED fileVars
  BY <1>8, NothingDone
<1>9. QED
  BY <1>1, <1>2, <1>3, <1>4, <1>5, <1>6, <1>7, <1>8 DEF Next

----------------------------------------------------------------------------
(* Whatever the file holds and wherever it breaks off: the texts of a page *)
(* but an open one at its end are complete, the buffer holds what the open *)
(* one has, in room enough, and the fonts point to maps of the tables.     *)
THEOREM Invariance == Spec => []IInv
<1>1. Init => IInv
  BY NothingRead
<1>2. IInv /\ [Next]_fileVars => IInv'
  BY Inductive
<1>3. QED
  BY <1>1, <1>2, PTL DEF Spec

(* dvi_append_text and dvi_append_space never write past the buffer, which *)
(* never shrinks; all bytes are bytes, the position is one, and there are  *)
(* no more pages than the postamble says.                                  *)
THEOREM TypeCorrectness == Spec => []TypeOK
<1>1. IInv => TypeOK
  <2> SUFFICES ASSUME IInv PROVE TypeOK
    OBVIOUS
  <2>1. /\ op.n \in 0 .. file.length /\ font \in FontNumbers \cup {Unset}
        /\ stack \in Seq(Position) /\ Len(pages) <= nbpages
        /\ out \in Page /\ Roomy(out)
    BY DEF IInv, Typed
  <2>2. out.buffer \in Seq(0 .. 255) /\ out.buffer_size \in Nat
    BY <2>1 DEF Page, Text
  <2>3. /\ \A i \in DOMAIN stack : stack[i] \in Position
        /\ \A i \in DOMAIN out.buffer : out.buffer[i] \in 0 .. 255
    <3>1. DOMAIN stack = 1 .. Len(stack) /\ DOMAIN out.buffer = 1 .. Len(out.buffer)
      BY <2>1, <2>2, LenProperties
    <3>2. \A i \in DOMAIN stack : stack[i] \in Position
      BY <2>1, <3>1, ElementOfSeq
    <3>3. \A i \in DOMAIN out.buffer : out.buffer[i] \in 0 .. 255
      BY <2>2, <3>1, ElementOfSeq
    <3>4. QED
      BY <3>2, <3>3
  <2>4. QED
    BY <2>1, <2>2, <2>3 DEF TypeOK, Roomy, Position
<1>2. QED
  BY <1>1, Invariance, PTL

(* dvi_close_text_node comes before every node after a text and before the *)
(* end of the page: no byte of a text is lost to the next one.             *)
THEOREM TextsComplete == Spec => []BufferOfLastText
<1>1. IInv => BufferOfLastText
  <2> SUFFICES ASSUME IInv PROVE BufferOfLastText
    OBVIOUS
  <2>1. Owned(out) /\ pages \in Seq(Seq(Node))
        /\ \A k \in 1 .. Len(pages) : Complete(pages[k])
    BY DEF IInv, Typed
  <2>2. DOMAIN pages = 1 .. Len(pages)
        /\ \A k \in DOMAIN pages : DOMAIN pages[k] = 1 .. Len(pages[k])
    BY <2>1, LenProperties, ElementOfSeq
  <2>3. QED
    BY <2>1, <2>2 DEF BufferOfLastText, Owned, Complete
<1>2. QED
  BY <1>1, Invariance, PTL

(* Under "normal", the spaces that dvi_append_space makes out of moves are *)
(* single and between two glyphs, as long as the tables are open.          *)
THEOREM SpacesAreSingle == Spec => []SpacesBetweenGlyphs
<1>1. IInv => SpacesBetweenGlyphs
  <2> SUFFICES ASSUME IInv, Normal, status # "closed",
                      NEW i \in DOMAIN out.nodes,
                      out.nodes[i].type = "text", out.nodes[i].closed,
                      NEW j \in DOMAIN out.nodes[i].content,
                      out.nodes[i].content[j] = SPACE, Spaceless(out.nodes[i].font)
               PROVE  /\ 1 < j /\ j < Len(out.nodes[i].content)
                      /\ out.nodes[i].content[j - 1] # SPACE
    BY DEF SpacesBetweenGlyphs, Normal
  <2> DEFINE n == out.nodes[i]
  <2>1. out \in Page /\ Spaced(out)
    BY DEF IInv
  <2>2. i \in 1 .. Len(out.nodes) /\ n \in Node
    BY <2>1, LenProperties, ElementOfSeq DEF Page
  <2>3. Between(n.content)
    BY <2>1, <2>2 DEF Spaced
  <2>4. n \in TextNode
    BY <2>2 DEF Node, OtherNode
  <2>5. n.content \in Seq(0 .. 255)
    BY <2>4 DEF TextNode, Text
  <2> HIDE DEF n
  <2>6. DOMAIN n.content = 1 .. Len(n.content)
    BY <2>5, LenProperties
  <2>7. j \in 1 .. Len(n.content) /\ n.content[j] = SPACE
    BY <2>6 DEF n
  <2>8. 1 < j /\ j < Len(n.content) /\ n.content[j - 1] # SPACE
    BY ONLY <2>3, <2>7, Zenon DEF Between
  <2>9. QED
    BY <2>8 DEF n
<1>2. QED
  BY <1>1, Invariance, PTL

----------------------------------------------------------------------------
(***************************************************************************)
(* Part 2. What is looked up is what config.xml says, for every            *)
(* configuration. Which of several declarations is found is a matter of    *)
(* which is the first, or the last, of a list: the proofs follow the       *)
(* declaration in force from the files into the list of the documents, the *)
(* list of the declarations of a kind, and the table.                      *)
(***************************************************************************)

(* e is the first, or the last, element of s that is in T; none is. *)
FirstIn(s, T, e) ==
  \E i \in 1 .. Len(s) : s[i] = e /\ e \in T /\ \A j \in 1 .. i - 1 : s[j] \notin T
LastIn(s, T, e) ==
  \E i \in 1 .. Len(s) : s[i] = e /\ e \in T
    /\ \A j \in i + 1 .. Len(s) : s[j] \notin T
NoneIn(s, T) == \A i \in 1 .. Len(s) : s[i] \notin T

----------------------------------------------------------------------------
(* One more element at the end. *)

LEMMA AppendedNone ==
  ASSUME NEW E, NEW s \in Seq(E), NEW x \in E, NEW T
  PROVE  NoneIn(Append(s, x), T) <=> NoneIn(s, T) /\ x \notin T
<1>1. /\ Len(s) \in Nat /\ Len(Append(s, x)) = Len(s) + 1
      /\ Append(s, x)[Len(s) + 1] = x
      /\ \A i \in 1 .. Len(s) : Append(s, x)[i] = s[i]
  BY AppendProperties, LenProperties
<1>2. \A i : i \in 1 .. Len(s) + 1 <=> i \in 1 .. Len(s) \/ i = Len(s) + 1
  BY <1>1
<1>3. QED
  BY <1>1, <1>2 DEF NoneIn

LEMMA AppendedFirst ==
  ASSUME NEW E, NEW s \in Seq(E), NEW x \in E, NEW T, NEW e
  PROVE  /\ FirstIn(s, T, e) => FirstIn(Append(s, x), T, e)
         /\ NoneIn(s, T) /\ x \in T => FirstIn(Append(s, x), T, x)
<1> DEFINE t == Append(s, x)
           n == Len(s)
<1>1. /\ n \in Nat /\ Len(t) = n + 1 /\ t[n + 1] = x
      /\ \A i \in 1 .. n : t[i] = s[i]
  BY AppendProperties, LenProperties
<1> HIDE DEF t
<1>2. ASSUME FirstIn(s, T, e)
      PROVE  FirstIn(t, T, e)
  <2>1. PICK i \in 1 .. n : s[i] = e /\ e \in T
               /\ \A j \in 1 .. i - 1 : s[j] \notin T
    BY <1>2 DEF FirstIn
  <2>2. i \in 1 .. n + 1 /\ \A j \in 1 .. i - 1 : j \in 1 .. n
    BY <1>1
  <2>3. t[i] = e /\ \A j \in 1 .. i - 1 : t[j] \notin T
    BY <2>1, <2>2, <1>1
  <2>4. QED
    BY <2>1, <2>2, <2>3, <1>1 DEF FirstIn
<1>3. ASSUME NoneIn(s, T), x \in T
      PROVE  FirstIn(t, T, x)
  <2>1. n + 1 \in 1 .. n + 1 /\ \A j \in 1 .. (n + 1) - 1 : j \in 1 .. n
    BY <1>1
  <2>2. \A j \in 1 .. (n + 1) - 1 : t[j] \notin T
    BY <2>1, <1>1, <1>3 DEF NoneIn
  <2>3. QED
    BY <2>1, <2>2, <1>1, <1>3 DEF FirstIn
<1>4. QED
  BY <1>2, <1>3 DEF t

LEMMA AppendedLast ==
  ASSUME NEW E, NEW s \in Seq(E), NEW x \in E, NEW T, NEW e
  PROVE  /\ LastIn(s, T, e) /\ x \notin T => LastIn(Append(s, x), T, e)
         /\ x \in T => LastIn(Append(s, x), T, x)
<1> DEFINE t == Append(s, x)
           n == Len(s)
<1>1. /\ n \in Nat /\ Len(t) = n + 1 /\ t[n + 1] = x
      /\ \A i \in 1 .. n : t[i] = s[i]
  BY AppendProperties, LenProperties
<1> HIDE DEF t
<1>2. ASSUME LastIn(s, T, e), x \notin T
      PROVE  LastIn(t, T, e)
  <2>1. PICK i \in 1 .. n : s[i] = e /\ e \in T
               /\ \A j \in i + 1 .. n : s[j] \notin T
    BY <1>2 DEF LastIn
  <2>2. i \in 1 .. n + 1 /\ \A j \in i + 1 .. n + 1 : j = n + 1 \/ j \in i + 1 .. n
    BY <1>1
  <2>3. \A j \in i + 1 .. n : j \in 1 .. n
    BY <1>1
  <2>4. t[i] = e /\ \A j \in i + 1 .. n + 1 : t[j] \notin T
    BY <2>1, <2>2, <2>3, <1>1, <1>2
  <2>5. QED
    BY <2>1, <2>2, <2>4, <1>1 DEF LastIn
<1>3. ASSUME x \in T
      PROVE  LastIn(t, T, x)
  <2>1. n + 1 \in 1 .. n + 1 /\ \A j \in (n + 1) + 1 .. n + 1 : FALSE
    BY <1>1
  <2>2. QED
    BY <2>1, <1>1, <1>3 DEF LastIn
<1>4. QED
  BY <1>2, <1>3 DEF t

(* Two lists one after the other. *)

LEMMA JoinedNone ==
  ASSUME NEW E, NEW a \in Seq(E), NEW b \in Seq(E), NEW T
  PROVE  NoneIn(a \o b, T) <=> NoneIn(a, T) /\ NoneIn(b, T)
<1>1. /\ Len(a) \in Nat /\ Len(b) \in Nat /\ Len(a \o b) = Len(a) + Len(b)
      /\ \A i \in 1 .. Len(a) : (a \o b)[i] = a[i]
      /\ \A i \in 1 .. Len(b) : (a \o b)[Len(a) + i] = b[i]
  BY LenProperties
<1> DEFINE c == a \o b
<1> HIDE DEF c
<1>2. \A i \in 1 .. Len(a) + Len(b) : i \in 1 .. Len(a)
        \/ (i - Len(a) \in 1 .. Len(b) /\ Len(a) + (i - Len(a)) = i)
  BY <1>1
<1>3. /\ \A i \in 1 .. Len(a) : i \in 1 .. Len(a) + Len(b)
      /\ \A i \in 1 .. Len(b) : Len(a) + i \in 1 .. Len(a) + Len(b)
  BY <1>1
<1>4. /\ Len(c) = Len(a) + Len(b)
      /\ \A i \in 1 .. Len(a) : c[i] = a[i]
      /\ \A i \in 1 .. Len(b) : c[Len(a) + i] = b[i]
  BY <1>1 DEF c
<1>5. NoneIn(a, T) /\ NoneIn(b, T) => NoneIn(c, T)
  <2> SUFFICES ASSUME NoneIn(a, T), NoneIn(b, T), NEW i \in 1 .. Len(a) + Len(b)
               PROVE  c[i] \notin T
    BY <1>4 DEF NoneIn
  <2>1. CASE i \in 1 .. Len(a)
    BY <2>1, <1>4 DEF NoneIn
  <2>2. CASE i - Len(a) \in 1 .. Len(b) /\ Len(a) + (i - Len(a)) = i
    <3>1. c[Len(a) + (i - Len(a))] = b[i - Len(a)]
      BY <2>2, <1>4
    <3>2. QED
      BY <2>2, <3>1 DEF NoneIn
  <2>3. QED
    BY <2>1, <2>2, <1>2
<1>6. NoneIn(c, T) => NoneIn(a, T) /\ NoneIn(b, T)
  BY <1>3, <1>4 DEF NoneIn
<1>7. QED
  BY <1>5, <1>6 DEF c

LEMMA JoinedLast ==
  ASSUME NEW E, NEW a \in Seq(E), NEW b \in Seq(E), NEW T, NEW e
  PROVE  /\ LastIn(b, T, e) => LastIn(a \o b, T, e)
         /\ LastIn(a, T, e) /\ NoneIn(b, T) => LastIn(a \o b, T, e)
<1> DEFINE c == a \o b
           m == Len(a)
           n == Len(b)
<1>1. /\ m \in Nat /\ n \in Nat /\ Len(c) = m + n
      /\ \A i \in 1 .. m : c[i] = a[i]
      /\ \A i \in 1 .. n : c[m + i] = b[i]
  BY LenProperties
<1> HIDE DEF c
<1>2. ASSUME LastIn(b, T, e)
      PROVE  LastIn(c, T, e)
  <2>1. PICK i \in 1 .. n : b[i] = e /\ e \in T
               /\ \A j \in i + 1 .. n : b[j] \notin T
    BY <1>2 DEF LastIn
  <2>2. /\ m + i \in 1 .. m + n
        /\ \A j \in (m + i) + 1 .. m + n : j - m \in i + 1 .. n /\ j - m \in 1 .. n
                                           /\ m + (j - m) = j
    BY <1>1
  <2>3. \A j \in (m + i) + 1 .. m + n : c[j] \notin T
    BY <2>1, <2>2, <1>1
  <2>4. QED
    BY <2>1, <2>2, <2>3, <1>1 DEF LastIn
<1>3. ASSUME LastIn(a, T, e), NoneIn(b, T)
      PROVE  LastIn(c, T, e)
  <2>1. PICK i \in 1 .. m : a[i] = e /\ e \in T
               /\ \A j \in i + 1 .. m : a[j] \notin T
    BY <1>3 DEF LastIn
  <2>2. i \in 1 .. m + n
    BY <1>1
  <2>3. ASSUME NEW j \in i + 1 .. m + n
        PROVE  c[j] \notin T
    <3>1. CASE j \in i + 1 .. m
      <4>1. j \in 1 .. m
        BY <3>1
      <4>2. QED
        BY <3>1, <4>1, <2>1, <1>1
    <3>2. CASE j \notin i + 1 .. m
      <4>1. j - m \in 1 .. n /\ m + (j - m) = j
        BY <3>2, <1>1
      <4>2. c[m + (j - m)] = b[j - m]
        BY <4>1, <1>1
      <4>3. QED
        BY <4>1, <4>2, <1>3 DEF NoneIn
    <3>3. QED
      BY <3>1, <3>2
  <2>4. QED
    BY <2>1, <2>2, <2>3, <1>1 DEF LastIn
<1>4. QED
  BY <1>2, <1>3 DEF c

(* The other way round. *)
LEMMA Reversed ==
  ASSUME NEW E, NEW s \in Seq(E), NEW T, NEW e
  PROVE  /\ LastIn(s, T, e) => FirstIn(Reverse(s), T, e)
         /\ FirstIn(s, T, e) => LastIn(Reverse(s), T, e)
         /\ NoneIn(s, T) => NoneIn(Reverse(s), T)
<1> DEFINE n == Len(s)
           r == Reverse(s)
<1>1. n \in Nat
  BY LenProperties
<1>2. r = [i \in 1 .. n |-> s[(n - i) + 1]]
  BY DEF Reverse
<1> HIDE DEF r, n
<1>3. Len(r) = n /\ \A i \in 1 .. n : r[i] = s[(n - i) + 1]
  BY <1>1, <1>2
<1>4. ASSUME LastIn(s, T, e)
      PROVE  FirstIn(r, T, e)
  <2>1. PICK i \in 1 .. n : s[i] = e /\ e \in T
               /\ \A j \in i + 1 .. n : s[j] \notin T
    BY <1>4 DEF LastIn, n
  <2>2. (n - i) + 1 \in 1 .. n /\ (n - ((n - i) + 1)) + 1 = i
    BY <1>1
  <2>3. \A j \in 1 .. ((n - i) + 1) - 1 : j \in 1 .. n /\ (n - j) + 1 \in i + 1 .. n
    BY <1>1
  <2>4. r[(n - i) + 1] = e
    BY <2>1, <2>2, <1>3
  <2>5. \A j \in 1 .. ((n - i) + 1) - 1 : r[j] \notin T
    BY <2>1, <2>3, <1>3
  <2>6. QED
    BY <2>1, <2>2, <2>4, <2>5, <1>3 DEF FirstIn
<1>5. ASSUME FirstIn(s, T, e)
      PROVE  LastIn(r, T, e)
  <2>1. PICK i \in 1 .. n : s[i] = e /\ e \in T
               /\ \A j \in 1 .. i - 1 : s[j] \notin T
    BY <1>5 DEF FirstIn, n
  <2>2. (n - i) + 1 \in 1 .. n /\ (n - ((n - i) + 1)) + 1 = i
    BY <1>1
  <2>3. \A j \in ((n - i) + 1) + 1 .. n : j \in 1 .. n /\ (n - j) + 1 \in 1 .. i - 1
    BY <1>1
  <2>4. r[(n - i) + 1] = e
    BY <2>1, <2>2, <1>3
  <2>5. \A j \in ((n - i) + 1) + 1 .. n : r[j] \notin T
    BY <2>1, <2>3, <1>3
  <2>6. QED
    BY <2>1, <2>2, <2>4, <2>5, <1>3 DEF LastIn
<1>6. ASSUME NoneIn(s, T)
      PROVE  NoneIn(r, T)
  <2>1. \A i \in 1 .. n : (n - i) + 1 \in 1 .. n
    BY <1>1
  <2>2. QED
    BY <2>1, <1>3, <1>6 DEF NoneIn, n
<1>7. QED
  BY <1>4, <1>5, <1>6 DEF r

(* The elements that are in S: what is in T among them is what is in both. *)

LEMMA AmongNone ==
  ASSUME NEW E, NEW s \in Seq(E), NEW S, NEW T, NoneIn(s, S \cap T)
  PROVE  NoneIn(Among(s, S), T)
<1>1. Among(s, S) \in Seq(E) /\ Elements(Among(s, S)) = Elements(s) \cap S
  BY AmongProperties
<1> DEFINE a == Among(s, S)
<1> HIDE DEF a
<1>2. ASSUME NEW i \in 1 .. Len(a)
      PROVE  a[i] \notin T
  <2>1. a[i] \in Elements(s) \cap S
    BY <1>1 DEF Elements, a
  <2>2. PICK j \in 1 .. Len(s) : s[j] = a[i]
    BY <2>1 DEF Elements
  <2>3. QED
    BY <2>1, <2>2 DEF NoneIn
<1>3. QED
  BY <1>2 DEF NoneIn, a

LEMMA AmongFirst ==
  ASSUME NEW E, NEW s \in Seq(E), NEW S, NEW T, NEW e, FirstIn(s, S \cap T, e)
  PROVE  FirstIn(Among(s, S), T, e)
<1>0. PICK f : AmongUpTo(f, s, S, E)
  BY AmongByRecursion
<1> DEFINE N == Len(s)
<1>1. /\ f \in [0 .. N -> Seq(E)] /\ f[0] = <<>>
      /\ \A i \in 1 .. N : f[i] = IF s[i] \in S
           THEN Append(f[i - 1], s[i]) ELSE f[i - 1]
      /\ Among(s, S) = f[N]
      /\ N \in Nat /\ \A i \in 1 .. N : s[i] \in E
  BY <1>0, LenProperties, ElementOfSeq DEF AmongUpTo
<1>2. PICK p \in 1 .. N : s[p] = e /\ e \in S /\ e \in T
             /\ \A j \in 1 .. p - 1 : s[j] \notin S \cap T
  BY DEF FirstIn
<1> HIDE DEF N
<1> DEFINE G == {n \in 0 .. N : /\ n < p => NoneIn(f[n], T)
                                /\ p <= n => FirstIn(f[n], T, e)}
<1>3. 0 \in G
  <2>1. NoneIn(<<>>, T)
    BY DEF NoneIn
  <2>2. 0 \in 0 .. N /\ ~(p <= 0)
    BY <1>1
  <2>3. QED
    BY <1>1, <2>1, <2>2
<1>4. ASSUME NEW k \in 0 .. N - 1, k \in G
      PROVE  k + 1 \in G
  <2>1. /\ k \in 0 .. N /\ k + 1 \in 0 .. N /\ k + 1 \in 1 .. N /\ (k + 1) - 1 = k
    BY <1>1
  <2>2. /\ f[k] \in Seq(E) /\ s[k + 1] \in E
        /\ f[k + 1] = IF s[k + 1] \in S THEN Append(f[k], s[k + 1]) ELSE f[k]
    BY <1>1, <2>1
  <2>3. CASE k + 1 < p
    <3>1. k < p /\ ~(p <= k + 1) /\ k + 1 \in 1 .. p - 1
      BY <2>1, <2>3
    <3>2. NoneIn(f[k], T) /\ s[k + 1] \notin S \cap T
      BY <3>1, <1>2, <1>4
    <3>3. NoneIn(f[k + 1], T)
      BY <3>2, <2>2, AppendedNone
    <3>4. QED
      BY <3>1, <3>3, <2>1
  <2>4. CASE k + 1 = p
    <3>1. k < p /\ ~(k + 1 < p)
      BY <2>1, <2>4
    <3>2. NoneIn(f[k], T) /\ s[k + 1] = e /\ f[k + 1] = Append(f[k], e)
      BY <3>1, <1>2, <1>4, <2>2, <2>4
    <3>3. FirstIn(f[k + 1], T, e)
      BY <3>2, <2>2, <1>2, AppendedFirst
    <3>4. QED
      BY <3>1, <3>3, <2>1
  <2>5. CASE p < k + 1
    <3>1. p <= k /\ ~(k + 1 < p)
      BY <2>1, <2>5
    <3>2. FirstIn(f[k], T, e)
      BY <3>1, <1>4
    <3>3. FirstIn(f[k + 1], T, e)
      BY <3>2, <2>2, AppendedFirst
    <3>4. QED
      BY <3>1, <3>3, <2>1
  <2>6. QED
    BY <2>1, <2>3, <2>4, <2>5
<1> HIDE DEF G
<1>5. \A n \in 0 .. N : n \in G
  BY <1>1, <1>3, <1>4, BoundedInduction, Zenon
<1>6. N \in 0 .. N /\ p <= N
  BY <1>1
<1>7. QED
  BY <1>1, <1>5, <1>6 DEF G

LEMMA AmongLast ==
  ASSUME NEW E, NEW s \in Seq(E), NEW S, NEW T, NEW e, LastIn(s, S \cap T, e)
  PROVE  LastIn(Among(s, S), T, e)
<1>0. PICK f : AmongUpTo(f, s, S, E)
  BY AmongByRecursion
<1> DEFINE N == Len(s)
<1>1. /\ f \in [0 .. N -> Seq(E)]
      /\ \A i \in 1 .. N : f[i] = IF s[i] \in S
           THEN Append(f[i - 1], s[i]) ELSE f[i - 1]
      /\ Among(s, S) = f[N]
      /\ N \in Nat /\ \A i \in 1 .. N : s[i] \in E
  BY <1>0, LenProperties, ElementOfSeq DEF AmongUpTo
<1>2. PICK p \in 1 .. N : s[p] = e /\ e \in S /\ e \in T
             /\ \A j \in p + 1 .. N : s[j] \notin S \cap T
  BY DEF LastIn
<1> HIDE DEF N
<1> DEFINE G == {n \in 0 .. N : p <= n => LastIn(f[n], T, e)}
<1>3. 0 \in G
  <2>2. 0 \in 0 .. N /\ ~(p <= 0)
    BY <1>1
  <2>3. QED
    BY <2>2
<1>4. ASSUME NEW k \in 0 .. N - 1, k \in G
      PROVE  k + 1 \in G
  <2>1. /\ k \in 0 .. N /\ k + 1 \in 0 .. N /\ k + 1 \in 1 .. N /\ (k + 1) - 1 = k
    BY <1>1
  <2>2. /\ f[k] \in Seq(E) /\ s[k + 1] \in E
        /\ f[k + 1] = IF s[k + 1] \in S THEN Append(f[k], s[k + 1]) ELSE f[k]
    BY <1>1, <2>1
  <2>3. CASE k + 1 < p
    <3>1. ~(p <= k + 1)
      BY <2>1, <2>3
    <3>2. QED
      BY <3>1, <2>1
  <2>4. CASE k + 1 = p
    <3>1. f[k + 1] = Append(f[k], e) /\ e \in E
      BY <1>2, <2>2, <2>4
    <3>2. LastIn(f[k + 1], T, e)
      BY <3>1, <2>2, <1>2, AppendedLast
    <3>3. QED
      BY <3>2, <2>1
  <2>5. CASE p < k + 1
    <3>1. p <= k /\ k + 1 \in p + 1 .. N
      BY <2>1, <2>5
    <3>2. LastIn(f[k], T, e) /\ s[k + 1] \notin S \cap T
      BY <3>1, <1>2, <1>4
    <3>3. LastIn(f[k + 1], T, e)
      BY <3>2, <2>2, AppendedLast
    <3>4. QED
      BY <3>3, <2>1
  <2>6. QED
    BY <2>1, <2>3, <2>4, <2>5
<1> HIDE DEF G
<1>5. \A n \in 0 .. N : n \in G
  BY <1>1, <1>3, <1>4, BoundedInduction, Zenon
<1>6. N \in 0 .. N /\ p <= N
  BY <1>1
<1>7. QED
  BY <1>1, <1>5, <1>6 DEF G

(* One list of all: the last of it is the last of the last list that has   *)
(* one.                                                                    *)
LEMMA FlattenedNone ==
  ASSUME NEW E, NEW ss \in Seq(Seq(E)), NEW T, \A i \in 1 .. Len(ss) :
           NoneIn(ss[i], T)
  PROVE  NoneIn(FlattenSeq(ss), T)
<1>1. \A i \in 1 .. Len(ss) : ss[i] \in Seq(E \ T)
  <2>1. ASSUME NEW i \in 1 .. Len(ss)
        PROVE  ss[i] \in Seq(E \ T)
    <3>1. ss[i] \in Seq(E) /\ NoneIn(ss[i], T)
      OBVIOUS
    <3>2. Elements(ss[i]) \subseteq E \ T
      BY <3>1, ElementOfSeq DEF Elements, NoneIn
    <3>3. QED
      BY <3>1, <3>2, SeqOfElements
  <2>2. QED
    BY <2>1
<1>2. ss \in Seq(Seq(E \ T))
  <2> DEFINE A == Seq(E)
             B == Seq(E \ T)
  <2>1. ss \in Seq(A) /\ Elements(ss) \subseteq B
    BY <1>1 DEF Elements
  <2> HIDE DEF A, B
  <2>2. ss \in Seq(B)
    BY <2>1, SeqOfElements
  <2>3. QED
    BY <2>2 DEF B
<1>3. FlattenSeq(ss) \in Seq(E \ T)
  BY <1>2, FlattenType
<1>4. QED
  BY <1>3, ElementOfSeq DEF NoneIn

LEMMA FlattenedLast ==
  ASSUME NEW E, NEW ss \in Seq(Seq(E)), NEW T, NEW e, NEW p \in 1 .. Len(ss),
         LastIn(ss[p], T, e), \A i \in p + 1 .. Len(ss) : NoneIn(ss[i], T)
  PROVE  LastIn(FlattenSeq(ss), T, e)
<1> DEFINE N == Len(ss)
<1>1. N \in Nat /\ N # 0 /\ \A i \in 1 .. N : ss[i] \in Seq(E)
  BY LenProperties
<1>2. PICK f : Flattens(f, ss, E) /\ FlattenSeq(ss) = f[N]
  BY <1>1, FlattenByRecursion
<1>3. /\ f \in [1 .. N -> Seq(E)] /\ f[1] = ss[1]
      /\ \A i \in 2 .. N : f[i] = f[i - 1] \o ss[i]
  BY <1>2 DEF Flattens
<1> HIDE DEF N
<1> DEFINE G == {n \in 0 .. N : p <= n => LastIn(f[n], T, e)}
<1>4. 0 \in G
  <2>1. 0 \in 0 .. N /\ ~(p <= 0)
    BY <1>1 DEF N
  <2>2. QED
    BY <2>1
<1>5. ASSUME NEW k \in 0 .. N - 1, k \in G
      PROVE  k + 1 \in G
  <2>1. k + 1 \in 0 .. N /\ k + 1 \in 1 .. N /\ p \in 1 .. N
    BY <1>1 DEF N
  <2>2. CASE k + 1 < p
    <3>1. ~(p <= k + 1)
      BY <2>1, <2>2
    <3>2. QED
      BY <3>1, <2>1
  <2>3. CASE k + 1 = p
    <3>1. CASE k = 0
      <4>1. f[k + 1] = ss[p]
        BY <3>1, <2>3, <1>3
      <4>2. QED
        BY <4>1, <2>1
    <3>2. CASE k # 0
      <4>1. k + 1 \in 2 .. N /\ k \in 1 .. N /\ (k + 1) - 1 = k
        BY <3>2, <2>1, <1>1
      <4>2. f[k + 1] = f[k] \o ss[p] /\ f[k] \in Seq(E) /\ ss[p] \in Seq(E)
        BY <4>1, <2>1, <2>3, <1>1, <1>3
      <4>3. LastIn(f[k + 1], T, e)
        BY <4>2, JoinedLast
      <4>4. QED
        BY <4>3, <2>1
    <3>3. QED
      BY <3>1, <3>2
  <2>4. CASE p < k + 1
    <3>1. p <= k /\ k + 1 \in p + 1 .. N /\ k + 1 \in 2 .. N /\ k \in 1 .. N
            /\ (k + 1) - 1 = k
      BY <2>1, <2>4, <1>1
    <3>2. LastIn(f[k], T, e) /\ NoneIn(ss[k + 1], T)
      BY <3>1, <1>5 DEF N
    <3>3. f[k + 1] = f[k] \o ss[k + 1] /\ f[k] \in Seq(E) /\ ss[k + 1] \in Seq(E)
      BY <3>1, <2>1, <1>1, <1>3
    <3>4. LastIn(f[k + 1], T, e)
      BY <3>2, <3>3, JoinedLast
    <3>5. QED
      BY <3>4, <2>1
  <2>5. QED
    BY <2>1, <2>2, <2>3, <2>4
<1> HIDE DEF G
<1>6. \A n \in 0 .. N : n \in G
  BY <1>1, <1>4, <1>5, BoundedInduction, Zenon
<1>7. N \in 0 .. N /\ p <= N
  BY <1>1 DEF N
<1>8. QED
  BY <1>2, <1>6, <1>7 DEF G

----------------------------------------------------------------------------
(* From the files to the declarations of a kind. *)

LEMMA FileHas ==
  ASSUME NEW config \in Seq(FontFiles), NEW i \in 1 .. Len(config)
  PROVE  /\ config[i] \in FontFiles /\ config[i].content \in Seq(Declarations)
         /\ config[i].present \in BOOLEAN
         /\ DOMAIN config = 1 .. Len(config)
         /\ DOMAIN config[i].content = 1 .. Len(config[i].content)
         /\ Len(config[i].content) \in Nat
<1>1. config[i] \in FontFiles /\ DOMAIN config = 1 .. Len(config)
  BY LenProperties, ElementOfSeq
<1>2. config[i].content \in Seq(Declarations) /\ config[i].present \in BOOLEAN
  BY <1>1 DEF FontFiles
<1>3. QED
  BY <1>1, <1>2, LenProperties

LEMMA PlaceOf ==
  ASSUME NEW config \in Seq(FontFiles), NEW kind, NEW p \in Choice!Places(config, kind)
  PROVE  /\ p = <<p[1], p[2]>>
         /\ p[1] \in 1 .. Len(config) /\ config[p[1]].present
         /\ p[2] \in 1 .. Len(config[p[1]].content)
         /\ Choice!At(config, p) = config[p[1]].content[p[2]]
         /\ Choice!At(config, p).kind = kind
<1>1. /\ p = <<p[1], p[2]>> /\ p[1] \in DOMAIN config /\ config[p[1]].present
      /\ p[2] \in DOMAIN config[p[1]].content
      /\ Choice!At(config, p).kind = kind
  <2>1. PICK i \in DOMAIN config,
             j \in UNION {DOMAIN config[k].content : k \in DOMAIN config} :
               p = <<i, j>>
    BY DEF Choice!Places
  <2>2. p[1] = i /\ p[2] = j
    BY <2>1
  <2>3. config[p[1]].present /\ p[2] \in DOMAIN config[p[1]].content
        /\ Choice!At(config, p).kind = kind
    BY DEF Choice!Places
  <2>4. QED
    BY <2>1, <2>2, <2>3
<1>2. p[1] \in 1 .. Len(config)
  BY <1>1, LenProperties
<1>3. p[2] \in 1 .. Len(config[p[1]].content)
  BY <1>1, <1>2, FileHas
<1>4. QED
  BY <1>1, <1>2, <1>3 DEF Choice!At

LEMMA IsPlace ==
  ASSUME NEW config \in Seq(FontFiles), NEW kind,
         NEW i \in 1 .. Len(config), config[i].present,
         NEW j \in 1 .. Len(config[i].content), config[i].content[j].kind = kind
  PROVE  /\ <<i, j>> \in Choice!Places(config, kind)
         /\ Choice!At(config, <<i, j>>) = config[i].content[j]
<1>1. i \in DOMAIN config /\ j \in DOMAIN config[i].content
  BY FileHas
<1>2. Choice!At(config, <<i, j>>) = config[i].content[j]
  BY DEF Choice!At
<1>3. <<i, j>> \in {<<a, b>> : a \in DOMAIN config,
                               b \in UNION {DOMAIN config[k].content :
                                 k \in DOMAIN config}}
  BY <1>1
<1>4. <<i, j>>[1] = i /\ <<i, j>>[2] = j
  OBVIOUS
<1>5. QED
  BY <1>1, <1>2, <1>3, <1>4 DEF Choice!Places

(* The first file that has one, and in it the last. *)
Wins(config, T, d) ==
  \E i \in 1 .. Len(config) :
    /\ config[i].present /\ LastIn(config[i].content, T, d)
    /\ \A k \in 1 .. i - 1 : config[k].present => NoneIn(config[k].content, T)

AreOf(T, kind) == \A d \in T : d.kind = kind
PlacesIn(config, kind, T) == {p \in Choice!Places(config, kind) :
                             Choice!At(config, p) \in T}

LEMMA InForceWins ==
  ASSUME NEW config \in Seq(FontFiles), NEW kind, NEW T, AreOf(T, kind),
         PlacesIn(config, kind, T) # {}
  PROVE  Wins(config, T, Choice!InForce(config, PlacesIn(config, kind, T)))
<1> DEFINE P == PlacesIn(config, kind, T)
           n == Len(config)
           I == {p[1] : p \in P}
           i == Min(I)
           c == config[i].content
           J == {j \in 1 .. Len(c) : c[j] \in T}
           j == Max(J)
<1>1. ASSUME NEW p \in P
      PROVE  /\ p = <<p[1], p[2]>> /\ p[1] \in 1 .. n /\ config[p[1]].present
             /\ p[2] \in 1 .. Len(config[p[1]].content)
             /\ config[p[1]].content[p[2]] \in T
             /\ p[1] \in I
  <2>1. p \in Choice!Places(config, kind) /\ Choice!At(config, p) \in T
    BY DEF PlacesIn
  <2>2. QED
    BY <2>1, PlaceOf
<1>2. ASSUME NEW a \in 1 .. n, config[a].present, NEW b \in 1 .. Len(config[a].content),
             config[a].content[b] \in T
      PROVE  <<a, b>> \in P /\ a \in I
               /\ Choice!At(config, <<a, b>>) = config[a].content[b]
  <2>1. config[a].content[b].kind = kind
    BY <1>2 DEF AreOf
  <2>2. <<a, b>> \in P /\ Choice!At(config, <<a, b>>) = config[a].content[b]
    BY <2>1, <1>2, IsPlace DEF PlacesIn
  <2>3. <<a, b>>[1] = a
    OBVIOUS
  <2>4. QED
    BY <2>2, <2>3
<1>3. n \in Nat /\ I \in SUBSET (1 .. n) /\ I # {}
  BY <1>1, LenProperties
<1>4. i \in I /\ \A a \in I : i <= a
  <2> HIDE DEF I, n
  <2>1. QED
    BY <1>3, MinOf
<1> HIDE DEF i, P, n
<1>5. i \in 1 .. n /\ config[i].present /\ Len(c) \in Nat
  <2>1. PICK p \in P : i = p[1]
    BY <1>4
  <2>2. QED
    BY <2>1, <1>1, FileHas DEF n
<1>6. J \in SUBSET (1 .. Len(c)) /\ J # {}
  <2>1. PICK p \in P : i = p[1]
    BY <1>4
  <2>2. p[2] \in J
    BY <2>1, <1>1
  <2>3. QED
    BY <2>2
<1> HIDE DEF I
<1>7. j \in J /\ \A b \in J : j >= b
  <2> HIDE DEF J, c
  <2>1. QED
    BY <1>5, <1>6, MaxOf
<1> HIDE DEF j
<1>8. j \in 1 .. Len(c) /\ c[j] \in T
  BY <1>7
<1>9. <<i, j>> \in P /\ Choice!At(config, <<i, j>>) = c[j]
  BY <1>2, <1>5, <1>8
<1> DEFINE First(p) == p \in P /\ \A q \in P \ {p} : Choice!Overrides(p, q)
<1>10. First(<<i, j>>)
  <2> SUFFICES ASSUME NEW q \in P, q # <<i, j>>
               PROVE  Choice!Overrides(<<i, j>>, q)
    BY <1>9
  <2>1. /\ q = <<q[1], q[2]>> /\ q[1] \in 1 .. n /\ i <= q[1]
        /\ q[2] \in 1 .. Len(config[q[1]].content)
        /\ config[q[1]].content[q[2]] \in T
    BY <1>1, <1>4
  <2>2. CASE q[1] = i
    <3>1. q[2] \in J
      BY <2>1, <2>2
    <3>2. q[2] <= j /\ q[2] # j /\ q[2] \in Int
      BY <3>1, <2>1, <2>2, <1>7
    <3>3. j \in Int
      BY <1>8
    <3>4. j > q[2] /\ i = q[1]
      BY <3>2, <3>3, <2>2
    <3>5. QED
      BY <3>4 DEF Choice!Overrides
  <2>3. CASE q[1] # i
    <3>1. i < q[1]
      BY <2>1, <2>3, <1>5
    <3>2. QED
      BY <3>1 DEF Choice!Overrides
  <2>4. QED
    BY <2>2, <2>3
<1>11. ASSUME NEW p, First(p)
       PROVE  p = <<i, j>>
  <2> SUFFICES ASSUME p # <<i, j>>
               PROVE  FALSE
    OBVIOUS
  <2>1. /\ Choice!Overrides(p, <<i, j>>) /\ Choice!Overrides(<<i, j>>, p)
    BY <1>9, <1>10, <1>11
  <2>2. p[1] \in Int /\ p[2] \in Int /\ i \in Int /\ j \in Int
    <3>1. p[1] \in 1 .. n /\ p[2] \in 1 .. Len(config[p[1]].content)
      BY <1>1, <1>11
    <3>2. QED
      BY <3>1, <1>5, <1>8
  <2>3. /\ p[1] < i \/ (p[1] = i /\ p[2] > j)
        /\ i < p[1] \/ (i = p[1] /\ j > p[2])
    BY <2>1 DEF Choice!Overrides
  <2>4. QED
    BY <2>2, <2>3
<1>12. Choice!InForce(config, P) = c[j]
  <2>1. (CHOOSE p \in P : \A q \in P \ {p} : Choice!Overrides(p, q)) = <<i, j>>
    BY <1>10, <1>11
  <2>2. QED
    BY <2>1, <1>9 DEF Choice!InForce
<1>13. LastIn(c, T, c[j])
  <2>1. ASSUME NEW b \in j + 1 .. Len(c)
        PROVE  c[b] \notin T
    <3>1. b \in 1 .. Len(c) /\ ~ (j >= b)
      BY <1>5, <1>8
    <3>2. QED
      BY <3>1, <1>7
  <2>2. QED
    BY <2>1, <1>8 DEF LastIn
<1>14. \A k \in 1 .. i - 1 : config[k].present => NoneIn(config[k].content, T)
  <2> SUFFICES ASSUME NEW k \in 1 .. i - 1, config[k].present,
                      NEW b \in 1 .. Len(config[k].content), config[k].content[b] \in T
               PROVE  FALSE
    BY DEF NoneIn
  <2>1. k \in 1 .. n /\ ~ (i <= k)
    BY <1>3, <1>5
  <2>2. k \in I
    BY <2>1, <1>2
  <2>3. QED
    BY <2>1, <2>2, <1>4
<1>15. QED
  BY <1>5, <1>12, <1>13, <1>14 DEF Wins, P, n

LEMMA NowhereDeclared ==
  ASSUME NEW config \in Seq(FontFiles), NEW kind, NEW T, AreOf(T, kind),
         PlacesIn(config, kind, T) = {}
  PROVE  \A k \in 1 .. Len(config) : config[k].present =>
           NoneIn(config[k].content, T)
<1> SUFFICES ASSUME NEW k \in 1 .. Len(config), config[k].present,
                    NEW b \in 1 .. Len(config[k].content), config[k].content[b] \in T
             PROVE  FALSE
  BY DEF NoneIn
<1>1. config[k].content[b].kind = kind
  BY DEF AreOf
<1>2. <<k, b>> \in PlacesIn(config, kind, T)
  BY <1>1, IsPlace DEF PlacesIn
<1>3. QED
  BY <1>2

(* read_config *)
LEMMA DocumentsAre ==
  ASSUME NEW config \in Seq(FontFiles), Choice!Usable(config)
  PROVE  LET found == Reverse(Among(config, Present(config)))
         IN  /\ found \in Seq(FontFiles)
             /\ Documents(config) \in Seq(Seq(Declarations))
             /\ Len(Documents(config)) = Len(found)
             /\ \A i \in 1 .. Len(found) : Documents(config)[i] = found[i].content
<1> DEFINE found == Reverse(Among(config, Present(config)))
           docs == [i \in DOMAIN found |-> found[i].content]
<1>1. found \in Seq(FontFiles)
  BY AmongProperties, ReverseType
<1>2. ~ \E i \in DOMAIN config : ~ config[i].present /\ ~ config[i].optional
  BY DEF Choice!Usable
<1>3. Documents(config) = docs
  BY <1>2 DEF Documents
<1> HIDE DEF found
<1>4. DOMAIN found = 1 .. Len(found) /\ Len(found) \in Nat
  BY <1>1, LenProperties
<1>5. Len(docs) = Len(found)
        /\ \A i \in 1 .. Len(found) : docs[i] = found[i].content
  BY <1>4
<1>6. Documents(config) \in Seq(Seq(Declarations))
  BY DocumentsType
<1>7. QED
  BY <1>1, <1>3, <1>5, <1>6 DEF found

LEMMA PresentAre ==
  ASSUME NEW config \in Seq(FontFiles), NEW i \in 1 .. Len(config)
  PROVE  config[i] \in Present(config) <=> config[i].present
<1>1. config[i] \in ToSet(config)
  <2>1. i \in DOMAIN config
    BY FileHas
  <2>2. QED
    BY <2>1 DEF ToSet
<1>2. QED
  BY <1>1 DEF Present

LEMMA DocumentsLast ==
  ASSUME NEW config \in Seq(FontFiles), Choice!Usable(config), NEW T, NEW d,
         Wins(config, T, d)
  PROVE  LastIn(FlattenSeq(Documents(config)), T, d)
<1> DEFINE here == Among(config, Present(config))
           found == Reverse(here)
           docs == Documents(config)
           F == {f \in FontFiles : ~ NoneIn(f.content, T)}
<1>1. PICK i \in 1 .. Len(config) :
        /\ config[i].present /\ LastIn(config[i].content, T, d)
        /\ \A k \in 1 .. i - 1 : config[k].present => NoneIn(config[k].content, T)
  BY DEF Wins
<1>2. config[i] \in F
  BY <1>1, FileHas DEF LastIn, NoneIn
<1>3. FirstIn(config, Present(config) \cap F, config[i])
  <2>1. config[i] \in Present(config) \cap F
    BY <1>1, <1>2, PresentAre
  <2>2. ASSUME NEW k \in 1 .. i - 1
        PROVE  config[k] \notin Present(config) \cap F
    <3>1. k \in 1 .. Len(config)
      OBVIOUS
    <3>2. CASE config[k].present
      BY <3>2, <1>1
    <3>3. CASE ~ config[k].present
      BY <3>1, <3>3, PresentAre
    <3>4. QED
      BY <3>2, <3>3
  <2>3. QED
    BY <2>1, <2>2 DEF FirstIn
<1> HIDE DEF F
<1>4. FirstIn(here, F, config[i]) /\ here \in Seq(FontFiles)
  BY <1>3, AmongFirst, AmongProperties
<1> HIDE DEF here
<1>5. LastIn(found, F, config[i])
  BY <1>4, Reversed
<1>6. /\ found \in Seq(FontFiles) /\ docs \in Seq(Seq(Declarations))
         /\ Len(docs) = Len(found)
      /\ \A k \in 1 .. Len(found) : docs[k] = found[k].content
  BY DocumentsAre DEF here
<1> HIDE DEF found, docs
<1>7. PICK p \in 1 .. Len(found) : found[p] = config[i]
             /\ \A j \in p + 1 .. Len(found) : found[j] \notin F
  BY <1>5 DEF LastIn
<1>8. LastIn(docs[p], T, d)
  BY <1>1, <1>6, <1>7
<1>9. ASSUME NEW k \in p + 1 .. Len(docs)
      PROVE  NoneIn(docs[k], T)
  <2>1. k \in 1 .. Len(found) /\ k \in p + 1 .. Len(found)
    BY <1>6
  <2>2. found[k] \in FontFiles /\ found[k] \notin F /\ docs[k] = found[k].content
    BY <2>1, <1>6, <1>7, ElementOfSeq
  <2>3. QED
    BY <2>2 DEF F
<1>10. p \in 1 .. Len(docs)
  BY <1>6
<1>11. LastIn(FlattenSeq(docs), T, d)
  BY <1>6, <1>8, <1>9, <1>10, FlattenedLast
<1>12. QED
  BY <1>11 DEF docs

LEMMA DocumentsNone ==
  ASSUME NEW config \in Seq(FontFiles), Choice!Usable(config), NEW T,
         \A k \in 1 .. Len(config) : config[k].present =>
           NoneIn(config[k].content, T)
  PROVE  NoneIn(FlattenSeq(Documents(config)), T)
<1> DEFINE here == Among(config, Present(config))
           found == Reverse(here)
           docs == Documents(config)
           F == {f \in FontFiles : ~ NoneIn(f.content, T)}
<1>1. NoneIn(config, Present(config) \cap F)
  BY PresentAre DEF NoneIn
<1> HIDE DEF F
<1>2. NoneIn(here, F) /\ here \in Seq(FontFiles)
  BY <1>1, AmongNone, AmongProperties
<1> HIDE DEF here
<1>3. NoneIn(found, F)
  BY <1>2, Reversed
<1>4. /\ found \in Seq(FontFiles) /\ docs \in Seq(Seq(Declarations))
         /\ Len(docs) = Len(found)
      /\ \A k \in 1 .. Len(found) : docs[k] = found[k].content
  BY DocumentsAre DEF here
<1> HIDE DEF found, docs
<1>5. ASSUME NEW k \in 1 .. Len(docs)
      PROVE  NoneIn(docs[k], T)
  <2>1. found[k] \in FontFiles /\ found[k] \notin F /\ docs[k] = found[k].content
    BY <1>3, <1>4, ElementOfSeq DEF NoneIn
  <2>2. QED
    BY <2>1 DEF F
<1>6. NoneIn(FlattenSeq(docs), T)
  BY <1>4, <1>5, FlattenedNone
<1>7. QED
  BY <1>6 DEF docs

(* read_data: of the declarations of a kind, those in T are looked for     *)
(* from the end; the last of them is the one in force.                     *)
LEMMA DeclaredInForce ==
  ASSUME NEW config \in Seq(FontFiles), Choice!Usable(config), NEW kind,
         NEW T, AreOf(T, kind)
  PROVE  LET ds == Declared(Documents(config), kind)
             P  == PlacesIn(config, kind, T)
         IN  /\ P # {} => LastIn(ds, T, Choice!InForce(config, P))
             /\ P = {} => NoneIn(ds, T)
<1> DEFINE docs == Documents(config)
           all == FlattenSeq(docs)
           S == {d \in ToSet(all) : d.kind = kind}
           ds == Declared(docs, kind)
           P == PlacesIn(config, kind, T)
<1>1. all \in Seq(Declarations)
  BY DocumentsAre, FlattenType
<1>2. ds = Among(all, S)
  BY DEF Declared
<1> HIDE DEF ds, P
<1>3. \A i \in 1 .. Len(all) : all[i] \in T <=> all[i] \in S \cap T
  <2> HIDE DEF all
  <2>1. DOMAIN all = 1 .. Len(all)
    BY <1>1, LenProperties
  <2>2. QED
    BY <2>1 DEF ToSet, AreOf
<1>4. ASSUME P # {}
      PROVE  LastIn(ds, T, Choice!InForce(config, P))
  <2> DEFINE d == Choice!InForce(config, P)
  <2>1. Wins(config, T, d)
    BY <1>4, InForceWins DEF P
  <2> HIDE DEF d
  <2>2. LastIn(all, T, d)
    BY <2>1, DocumentsLast
  <2> HIDE DEF all, S
  <2>3. LastIn(all, S \cap T, d)
    <3>1. PICK i \in 1 .. Len(all) : all[i] = d /\ d \in T
                 /\ \A j \in i + 1 .. Len(all) : all[j] \notin T
      BY <2>2 DEF LastIn
    <3>2. all[i] \in S \cap T
      BY <3>1, <1>3
    <3>3. QED
      BY <3>1, <3>2 DEF LastIn
  <2>4. LastIn(ds, T, d)
    BY <2>3, <1>1, <1>2, AmongLast
  <2>5. QED
    BY <2>4 DEF d
<1>5. ASSUME P = {}
      PROVE  NoneIn(ds, T)
  <2>1. NoneIn(all, T)
    BY <1>5, NowhereDeclared, DocumentsNone DEF P
  <2> HIDE DEF all, S
  <2>2. NoneIn(all, S \cap T)
    BY <2>1 DEF NoneIn
  <2>3. QED
    BY <2>2, <1>1, <1>2, AmongNone
<1>6. QED
  BY <1>4, <1>5 DEF ds, P

----------------------------------------------------------------------------
(* The places of a table. *)

LEMMA FirstPlace ==
  ASSUME NEW n \in Nat, NEW I \in SUBSET (1 .. n),
         NEW k, k = IF I # {} THEN Min(I) ELSE 0
  PROVE  /\ k \in 0 .. n
         /\ k = 0 <=> I = {}
         /\ k # 0 => k \in I /\ k \in 1 .. n /\ \A j \in 1 .. k - 1 : j \notin I
<1>1. CASE I = {}
  BY <1>1
<1>2. CASE I # {}
  <2>1. k \in I /\ \A j \in I : k <= j
    BY <1>2, MinOf
  <2>2. QED
    BY <2>1, <1>2
<1>3. QED
  BY <1>1, <1>2

LEMMA LastPlace ==
  ASSUME NEW n \in Nat, NEW I \in SUBSET (1 .. n),
         NEW k, k = IF I # {} THEN Max(I) ELSE 0
  PROVE  /\ k \in 0 .. n
         /\ k = 0 <=> I = {}
         /\ k # 0 => k \in I /\ k \in 1 .. n /\ \A j \in k + 1 .. n : j \notin I
<1>1. CASE I = {}
  BY <1>1
<1>2. CASE I # {}
  <2>1. k \in I /\ \A j \in I : k >= j
    BY <1>2, MaxOf
  <2>2. QED
    BY <2>1, <1>2
<1>3. QED
  BY <1>1, <1>2

(* k is the place of the first entry of that name, or 0. *)
IsNamed(table, name, k) ==
  \/ k = 0 /\ \A i \in 1 .. Len(table) : table[i].name # name
  \/ /\ k \in 1 .. Len(table) /\ table[k].name = name
     /\ \A i \in 1 .. k - 1 : table[i].name # name

LEMMA NamedPlace ==
  ASSUME NEW table, Len(table) \in Nat, NEW name
  PROVE  IsNamed(table, name, Named(table, name))
<1> DEFINE n == Len(table)
           I == {i \in 1 .. n : table[i].name = name}
           k == IF I # {} THEN Min(I) ELSE 0
<1>1. Named(table, name) = k
  BY DEF Named, SelectInSeq
<1>2. n \in Nat /\ I \in SUBSET (1 .. n)
  OBVIOUS
<1>3. \A i \in 1 .. n : i \in I <=> table[i].name = name
  OBVIOUS
<1> HIDE DEF I
<1>4. /\ k \in 0 .. n
      /\ k = 0 <=> I = {}
      /\ k # 0 => k \in I /\ k \in 1 .. n /\ \A j \in 1 .. k - 1 : j \notin I
  <2> HIDE DEF n
  <2>1. QED
    BY <1>2, FirstPlace
<1> HIDE DEF k, n
<1>5. CASE k = 0
  BY <1>1, <1>3, <1>4, <1>5 DEF IsNamed, n
<1>6. CASE k # 0
  <2>1. k \in 1 .. n /\ \A j \in 1 .. k - 1 : j \in 1 .. n
    BY <1>2, <1>4, <1>6
  <2>2. table[k].name = name /\ \A j \in 1 .. k - 1 : table[j].name # name
    BY <1>3, <1>4, <1>6, <2>1
  <2>3. QED
    BY <1>1, <2>1, <2>2 DEF IsNamed, n
<1>7. QED
  BY <1>5, <1>6

LEMMA NamedOnce ==
  ASSUME NEW table, Len(table) \in Nat, NEW name, NEW k, IsNamed(table, name, k)
  PROVE  Named(table, name) = k
<1> DEFINE m == Named(table, name)
<1>1. IsNamed(table, name, m)
  BY NamedPlace
<1> HIDE DEF m
<1>2. CASE k = 0
  BY <1>1, <1>2 DEF IsNamed, m
<1>3. CASE k # 0 /\ m = 0
  BY <1>1, <1>3 DEF IsNamed
<1>4. CASE k # 0 /\ m # 0
  <2>1. /\ k \in 1 .. Len(table) /\ table[k].name = name
        /\ \A i \in 1 .. k - 1 : table[i].name # name
    BY <1>4 DEF IsNamed
  <2>2. /\ m \in 1 .. Len(table) /\ table[m].name = name
        /\ \A i \in 1 .. m - 1 : table[i].name # name
    BY <1>1, <1>4 DEF IsNamed
  <2>3. ~ (k < m) /\ ~ (m < k)
    <3>1. k < m => k \in 1 .. m - 1
      BY <2>1, <2>2
    <3>2. m < k => m \in 1 .. k - 1
      BY <2>1, <2>2
    <3>3. QED
      BY <3>1, <3>2, <2>1, <2>2
  <2>4. m = k
    BY <2>1, <2>2, <2>3
  <2>5. QED
    BY <2>4 DEF m
<1>5. QED
  BY <1>2, <1>3, <1>4

(* A table with another entry at its head. *)
LEMMA NamedShifts ==
  ASSUME NEW E, NEW table \in Seq(E), NEW e \in E, NEW name
  PROVE  LET longer == <<e>> \o table
             k == Named(table, name)
         IN  Named(longer, name) = IF e.name = name THEN 1
                                   ELSE IF k = 0 THEN 0 ELSE k + 1
<1> DEFINE longer == <<e>> \o table
           k == Named(table, name)
<1>1. /\ Len(table) \in Nat /\ Len(longer) = Len(table) + 1 /\ longer[1] = e
      /\ \A i \in 1 .. Len(table) : longer[i + 1] = table[i]
  BY LenProperties
<1>2. IsNamed(table, name, k)
  BY <1>1, NamedPlace
<1> HIDE DEF longer, k
<1>3. \A i \in 2 .. Len(table) + 1 : i - 1 \in 1 .. Len(table) /\ (i - 1) + 1 = i
  BY <1>1
<1>4. CASE e.name = name
  <2>1. 1 \in 1 .. Len(longer) /\ \A i \in 1 .. 1 - 1 : FALSE
    BY <1>1
  <2>2. IsNamed(longer, name, 1)
    BY <2>1, <1>1, <1>4 DEF IsNamed
  <2>3. Named(longer, name) = 1
    BY <2>2, <1>1, NamedOnce
  <2>4. QED
    BY <2>3, <1>4 DEF longer
<1>5. CASE e.name # name /\ k = 0
  <2>1. \A i \in 1 .. Len(table) : table[i].name # name
    BY <1>2, <1>5 DEF IsNamed
  <2>2. ASSUME NEW i \in 1 .. Len(longer)
        PROVE  longer[i].name # name
    <3>1. i = 1 \/ i \in 2 .. Len(table) + 1
      BY <1>1
    <3>2. i # 1 => longer[i] = table[i - 1] /\ i - 1 \in 1 .. Len(table)
      BY <3>1, <1>1, <1>3
    <3>3. QED
      BY <3>1, <3>2, <2>1, <1>1, <1>5
  <2>3. IsNamed(longer, name, 0)
    BY <2>2 DEF IsNamed
  <2>4. Named(longer, name) = 0
    BY <2>3, <1>1, NamedOnce
  <2>5. QED
    BY <2>4, <1>5 DEF longer, k
<1>6. CASE e.name # name /\ k # 0
  <2>1. /\ k \in 1 .. Len(table) /\ table[k].name = name
        /\ \A i \in 1 .. k - 1 : table[i].name # name
    BY <1>2, <1>6 DEF IsNamed
  <2>2. k + 1 \in 1 .. Len(longer) /\ longer[k + 1].name = name
    BY <2>1, <1>1
  <2>3. ASSUME NEW i \in 1 .. (k + 1) - 1
        PROVE  longer[i].name # name
    <3>1. i = 1 \/ (i - 1 \in 1 .. k - 1 /\ i \in 2 .. Len(table) + 1)
      BY <2>1, <1>1
    <3>2. i # 1 => longer[i] = table[i - 1]
      BY <3>1, <1>1, <1>3
    <3>3. QED
      BY <3>1, <3>2, <2>1, <1>1, <1>6
  <2>4. IsNamed(longer, name, k + 1)
    BY <2>2, <2>3 DEF IsNamed
  <2>5. Named(longer, name) = k + 1
    BY <2>4, <1>1, NamedOnce
  <2>6. QED
    BY <2>5, <1>6 DEF longer, k
<1>7. QED
  BY <1>4, <1>5, <1>6

(* A table in which the names stay. *)
LEMMA NamedStays ==
  ASSUME NEW table, Len(table) \in Nat, NEW other, Len(other) = Len(table),
         \A i \in 1 .. Len(table) : other[i].name = table[i].name, NEW name
  PROVE  Named(other, name) = Named(table, name)
<1> DEFINE k == Named(table, name)
<1>1. IsNamed(table, name, k)
  BY NamedPlace
<1> HIDE DEF k
<1>2. IsNamed(other, name, k)
  <2>1. CASE k = 0
    BY <2>1, <1>1 DEF IsNamed
  <2>2. CASE k # 0
    <3>1. k \in 1 .. Len(table) /\ \A i \in 1 .. k - 1 : i \in 1 .. Len(table)
      BY <1>1, <2>2 DEF IsNamed
    <3>2. QED
      BY <3>1, <1>1, <2>2 DEF IsNamed
  <2>3. QED
    BY <2>1, <2>2
<1>3. Len(other) \in Nat
  OBVIOUS
<1>4. QED
  BY <1>2, <1>3, NamedOnce DEF k

----------------------------------------------------------------------------
(* Ligatures and encodings. *)

LEMMA DeclarationAt ==
  ASSUME NEW config \in Seq(FontFiles), NEW kind, NEW p \in Choice!Places(config, kind)
  PROVE  Choice!At(config, p) \in {d \in Declarations : d.kind = kind}
<1>1. /\ p[1] \in 1 .. Len(config) /\ p[2] \in 1 .. Len(config[p[1]].content)
      /\ Choice!At(config, p) = config[p[1]].content[p[2]]
      /\ Choice!At(config, p).kind = kind
  BY PlaceOf
<1>2. config[p[1]].content \in Seq(Declarations)
  BY <1>1, FileHas
<1>3. QED
  BY <1>1, <1>2, ElementOfSeq

LigaturesFor(text) == {d \in Declarations : d.kind = "ligature" /\ d.src = text}

LEMMA LigatureInForce ==
  ASSUME NEW config \in Seq(FontFiles), Choice!Usable(config), NEW value,
         NEW r, r.ligatures = Reverse(Declared(Documents(config), "ligature"))
  PROVE  Ligature(r, value) = Choice!Text(config, value)
<1> DEFINE T == LigaturesFor(value)
           P == PlacesIn(config, "ligature", T)
           ds == Declared(Documents(config), "ligature")
           s == Reverse(ds)
           I == {i \in 1 .. Len(s) : s[i].src = value}
           k == IF I # {} THEN Min(I) ELSE 0
<1>1. Choice!Ligatures(config, value) = P
  BY DeclarationAt DEF Choice!Ligatures, PlacesIn, LigaturesFor
<1>2. AreOf(T, "ligature")
  BY DEF AreOf, LigaturesFor
<1>3. /\ P # {} => LastIn(ds, T, Choice!InForce(config, P))
      /\ P = {} => NoneIn(ds, T)
  <2> HIDE DEF T
  <2>1. QED
    BY <1>2, DeclaredInForce
<1>4. ds \in Seq({d \in Declarations : d.kind = "ligature"})
  BY DocumentsAre, DeclaredType
<1> HIDE DEF ds, P
<1>5. /\ P # {} => FirstIn(s, T, Choice!InForce(config, P))
      /\ P = {} => NoneIn(s, T)
      /\ s \in Seq({d \in Declarations : d.kind = "ligature"}) /\ Len(s) \in Nat
  <2> HIDE DEF T
  <2>1. QED
    BY <1>3, <1>4, Reversed, ReverseType, LenProperties
<1>6. Ligature(r, value) = IF k = 0 THEN value ELSE s[k].dst
  BY DEF Ligature, SelectInSeq, ds
<1> HIDE DEF s
<1>7. \A i \in 1 .. Len(s) : i \in I <=> s[i] \in T
  BY <1>5, ElementOfSeq DEF LigaturesFor
<1>8. /\ k = 0 <=> I = {}
      /\ k # 0 => k \in I /\ k \in 1 .. Len(s) /\ \A j \in 1 .. k - 1 : j \notin I
  <2>1. I \in SUBSET (1 .. Len(s))
    OBVIOUS
  <2> HIDE DEF I
  <2>2. QED
    BY <2>1, <1>5, FirstPlace
<1>9. Choice!Text(config, value) = IF P = {} THEN value
        ELSE Choice!InForce(config, P).dst
  BY <1>1 DEF Choice!Text
<1> HIDE DEF T, k
<1>10. CASE P = {}
  <2>1. I = {}
    BY <1>5, <1>7, <1>10 DEF NoneIn
  <2>2. QED
    BY <2>1, <1>6, <1>8, <1>9, <1>10
<1>11. CASE P # {}
  <2>1. PICK i \in 1 .. Len(s) : /\ s[i] = Choice!InForce(config, P) /\ s[i] \in T
                                 /\ \A j \in 1 .. i - 1 : s[j] \notin T
    BY <1>5, <1>11 DEF FirstIn
  <2>2. i \in I /\ k # 0
    BY <2>1, <1>7, <1>8
  <2> HIDE DEF I
  <2>3. k \in I /\ k \in 1 .. Len(s) /\ \A j \in 1 .. k - 1 : j \notin I
    BY <2>2, <1>8
  <2>4. ~ (i < k) /\ ~ (k < i)
    <3>1. i < k => i \in 1 .. k - 1
      BY <2>1, <2>3
    <3>2. k < i => k \in 1 .. i - 1
      BY <2>1, <2>3
    <3>3. QED
      BY <3>1, <3>2, <2>1, <2>2, <2>3, <1>7
  <2>5. i = k
    BY <2>1, <2>3, <2>4
  <2>6. QED
    BY <2>1, <2>2, <2>5, <1>6, <1>9, <1>11
<1>12. QED
  BY <1>10, <1>11

LEMMA NewMapIs ==
  ASSUME NEW l, NEW d
  PROVE  /\ NewMap(l, d).name = d.name
         /\ NewMap(l, d).map = [c \in 0 .. Len(d.values) - 1 |-> Ligature(l, d.values[c + 1])]
<1> DEFINE map == [c \in 0 .. Len(d.values) - 1 |-> Ligature(l, d.values[c + 1])]
<1>1. NewMap(l, d) = [name |-> d.name, map |-> map]
  BY DEF NewMap
<1> HIDE DEF map
<1>2. NewMap(l, d).name = d.name /\ NewMap(l, d).map = map
  BY <1>1
<1>3. QED
  BY <1>2 DEF map

EncodingsFor(name) ==
  {d \in Declarations : d.kind = "encoding" /\ d.name = name /\ d.values # <<>>}

EncodingMaps(config, l) ==
  LET es == Declared(Documents(config), "encoding")
      ds == Among(es, {d \in ToSet(es) : d.values # <<>>})
  IN  [i \in DOMAIN ds |-> NewMap(l, ds[i])]

LEMMA EncodingInForce ==
  ASSUME NEW config \in Seq(FontFiles), Choice!Usable(config), NEW name,
         NEW l, l.ligatures = Reverse(Declared(Documents(config), "ligature")),
         NEW r, r.maps = EncodingMaps(config, l)
  PROVE  LET k == FindEncoding(r, name)
         IN  /\ k = 0 <=> Choice!Encodings(config, name) = {}
             /\ k # 0 => /\ k \in 1 .. Len(r.maps)
                         /\ r.maps[k].map = Choice!Encoding(config, name)
<1> DEFINE T == EncodingsFor(name)
           K == {d \in Declarations : d.kind = "encoding"}
           P == PlacesIn(config, "encoding", T)
           d == Choice!InForce(config, P)
           es == Declared(Documents(config), "encoding")
           S == {x \in ToSet(es) : x.values # <<>>}
           ds == Among(es, S)
           ms == [i \in DOMAIN ds |-> NewMap(l, ds[i])]
           I == {i \in 1 .. Len(ms) : ms[i].name = name}
           k == IF I # {} THEN Max(I) ELSE 0
<1>1. Choice!Encodings(config, name) = P
  BY DeclarationAt DEF Choice!Encodings, PlacesIn, EncodingsFor
<1>2. AreOf(T, "encoding") /\ \A x \in T : x.values # <<>> /\ x.name = name
  BY DEF AreOf, EncodingsFor
<1>3. /\ P # {} => LastIn(es, T, d)
      /\ P = {} => NoneIn(es, T)
  <2> HIDE DEF T
  <2>1. QED
    BY <1>2, DeclaredInForce
<1>4. es \in Seq(K)
  BY DocumentsAre, DeclaredType
<1> HIDE DEF K, es, P, d
<1>5. \A i \in 1 .. Len(es) : es[i] \in T <=> es[i] \in S \cap T
  <2> HIDE DEF T
  <2>1. DOMAIN es = 1 .. Len(es)
    BY <1>4, LenProperties
  <2>2. QED
    BY <2>1, <1>2 DEF ToSet
<1>6. P # {} => LastIn(es, S \cap T, d)
  <2> HIDE DEF T, S
  <2> SUFFICES ASSUME P # {}
               PROVE  LastIn(es, S \cap T, d)
    OBVIOUS
  <2>1. PICK i \in 1 .. Len(es) : es[i] = d /\ d \in T
               /\ \A j \in i + 1 .. Len(es) : es[j] \notin T
    BY <1>3 DEF LastIn
  <2>2. d \in S \cap T
    BY <2>1, <1>5
  <2>3. \A j \in i + 1 .. Len(es) : es[j] \notin S \cap T
    BY <2>1
  <2>4. QED
    BY <2>1, <2>2, <2>3 DEF LastIn
<1>7. P = {} => NoneIn(es, S \cap T)
  BY <1>3 DEF NoneIn
<1>8. /\ ds \in Seq(K) /\ Elements(ds) = Elements(es) \cap S
      /\ P # {} => LastIn(ds, T, d)
      /\ P = {} => NoneIn(ds, T)
  <2> HIDE DEF T, S
  <2>1. QED
    BY <1>4, <1>6, <1>7, AmongProperties, AmongLast, AmongNone
<1>9. \A i \in 1 .. Len(ds) : ds[i] \in K /\ ds[i].values # <<>>
  <2>1. \A i \in 1 .. Len(ds) : ds[i] \in S
    <3> HIDE DEF S, ds
    <3>1. QED
      BY <1>8 DEF Elements
  <2> HIDE DEF ds
  <2>2. QED
    BY <2>1, <1>8, ElementOfSeq
<1> HIDE DEF ds
<1>10. DOMAIN ds = 1 .. Len(ds) /\ Len(ds) \in Nat
  BY <1>8, LenProperties
<1>11. /\ Len(ms) = Len(ds)
       /\ \A i \in 1 .. Len(ds) : ms[i] = NewMap(l, ds[i])
  BY <1>10
<1>12. FindEncoding(r, name) = k
  <2>1. r.maps = ms
    BY DEF EncodingMaps, ds, es
  <2> HIDE DEF ms
  <2>2. QED
    BY <2>1 DEF FindEncoding, SelectLastInSeq
<1> HIDE DEF ms
<1>13. \A i \in 1 .. Len(ds) : i \in I <=> ds[i] \in T
  <2>1. ASSUME NEW i \in 1 .. Len(ds)
        PROVE  i \in I <=> ds[i].name = name
    <3>1. ms[i] = NewMap(l, ds[i]) /\ i \in 1 .. Len(ms)
      BY <1>11
    <3>2. NewMap(l, ds[i]).name = ds[i].name
      BY NewMapIs
    <3>3. ms[i].name = ds[i].name
      BY <3>1, <3>2, Zenon
    <3>4. QED
      BY <3>1, <3>3
  <2> HIDE DEF I
  <2>2. QED
    BY <2>1, <1>9 DEF EncodingsFor, K
<1>14. /\ k = 0 <=> I = {}
       /\ k # 0 => k \in I /\ k \in 1 .. Len(ds)
          /\ \A j \in k + 1 .. Len(ds) : j \notin I
  <2>1. I \in SUBSET (1 .. Len(ds))
    BY <1>11
  <2> HIDE DEF I
  <2>2. QED
    BY <2>1, <1>10, LastPlace
<1>15. \A i \in I : i \in 1 .. Len(ds)
  BY <1>11
<1> HIDE DEF T, k, I
<1>16. CASE P = {}
  <2>1. I = {}
    BY <1>8, <1>13, <1>15, <1>16 DEF NoneIn
  <2>2. QED
    BY <2>1, <1>1, <1>12, <1>14, <1>16
<1>17. CASE P # {}
  <2>1. PICK i \in 1 .. Len(ds) : ds[i] = d /\ d \in T
               /\ \A j \in i + 1 .. Len(ds) : ds[j] \notin T
    BY <1>8, <1>17 DEF LastIn
  <2>2. i \in I /\ k # 0
    BY <2>1, <1>13, <1>14
  <2>3. k \in I /\ k \in 1 .. Len(ds) /\ \A j \in k + 1 .. Len(ds) : j \notin I
    BY <2>2, <1>14
  <2>4. ~ (i < k) /\ ~ (k < i)
    <3>1. i < k => k \in i + 1 .. Len(ds)
      BY <2>1, <2>3, <1>10
    <3>2. k < i => i \in k + 1 .. Len(ds)
      BY <2>1, <2>3, <1>10
    <3>3. QED
      BY <3>1, <3>2, <2>1, <2>2, <2>3, <1>13
  <2>5. i = k
    BY <2>1, <2>3, <2>4
  <2>6. r.maps = ms /\ ms[k].map
          = [c \in 0 .. Len(d.values) - 1 |-> Ligature(l, d.values[c + 1])]
    <3>1. r.maps = ms
      BY DEF EncodingMaps, ms, ds, es
    <3>2. ms[k] = NewMap(l, d)
      BY <2>1, <2>5, <1>11
    <3>3. NewMap(l, d).map = [c \in 0 .. Len(d.values) - 1 |-> Ligature(l, d.values[c + 1])]
      BY NewMapIs
    <3>4. QED
      BY <3>1, <3>2, <3>3, Zenon
  <2>7. Choice!Encoding(config, name)
          = [c \in 0 .. Len(d.values) - 1 |-> Choice!Text(config, d.values[c + 1])]
    BY <1>1 DEF Choice!Encoding, d
  <2>8. \A c \in 0 .. Len(d.values) - 1 :
          Ligature(l, d.values[c + 1]) = Choice!Text(config, d.values[c + 1])
    BY LigatureInForce
  <2>9. ms[k].map = Choice!Encoding(config, name)
    BY <2>6, <2>7, <2>8
  <2>10. QED
    BY <2>2, <2>3, <2>6, <2>9, <1>1, <1>11, <1>12, <1>17
<1>18. QED
  BY <1>16, <1>17

----------------------------------------------------------------------------
(* Fonts. *)

(* The map of the font, and the map and the variant of the font of         *)
(* formulas, of that name.                                                 *)
Entry(r, name) ==
  IF Named(r.fonts, name) = 0 THEN 0 ELSE r.fonts[Named(r.fonts, name)].map
MathEntry(r, name) ==
  IF Named(r.mathfonts, name) = 0 THEN <<>>
  ELSE LET e == r.mathfonts[Named(r.mathfonts, name)] IN <<e.map, e.variant>>

LEMMA SameMaps ==
  ASSUME NEW r, NEW q, q.maps = r.maps, NEW name
  PROVE  FindEncoding(q, name) = FindEncoding(r, name)
  BY DEF FindEncoding

LEMMA DeclareFontKeeps ==
  ASSUME NEW r \in Registries, NEW d \in Fonts
  PROVE  LET q == DeclareFont(r, d)
         IN  /\ q.maps = r.maps /\ q.mathfonts = r.mathfonts
             /\ q.ligatures = r.ligatures /\ q.accents = r.accents
                /\ q.users = r.users
<1> DEFINE m == FindEncoding(r, d.encoding)
           f == Named(r.fonts, d.name)
           x == [r.fonts EXCEPT ![f].map = m]
           y == <<[name |-> d.name, map |-> m]>> \o r.fonts
<1>1. DeclareFont(r, d) = IF m = 0 THEN r
                          ELSE IF f # 0 THEN [r EXCEPT !.fonts[f].map = m]
                          ELSE [r EXCEPT !.fonts = y]
  BY DEF DeclareFont
<1>2. [r EXCEPT !.fonts[f].map = m] = [r EXCEPT !.fonts = x]
  BY DEF Registries, Tables
<1> HIDE DEF m, f, x, y
<1>3. \A z : LET q == [r EXCEPT !.fonts = z]
             IN  /\ q.maps = r.maps /\ q.mathfonts = r.mathfonts
                 /\ q.ligatures = r.ligatures /\ q.accents = r.accents
                    /\ q.users = r.users
  BY DEF Registries, Tables
<1>4. QED
  BY <1>1, <1>2, <1>3

LEMMA DeclareFontEffect ==
  ASSUME NEW r \in Registries, NEW d \in Fonts, NEW name
  PROVE  LET m == FindEncoding(r, d.encoding)
         IN  Entry(DeclareFont(r, d), name)
               = IF m # 0 /\ name = d.name THEN m ELSE Entry(r, name)
<1> DEFINE m == FindEncoding(r, d.encoding)
           s == r.fonts
           f == Named(s, d.name)
           k == Named(s, name)
           e == [name |-> d.name, map |-> m]
           b == [s[f] EXCEPT !.map = m]
           x == [s EXCEPT ![f] = b]
           y == <<e>> \o s
           q == DeclareFont(r, d)
<1>1. s \in Seq(FontEntry) /\ Len(s) \in Nat /\ DOMAIN s = 1 .. Len(s)
  BY TablesHold, LenProperties
<1>2. m \in Nat
  BY EncodingFound, TablesHold, LenProperties
<1>3. q = IF m = 0 THEN r
          ELSE IF f # 0 THEN [r EXCEPT !.fonts[f].map = m]
            ELSE [r EXCEPT !.fonts = y]
  BY DEF DeclareFont
<1>4. [r EXCEPT !.fonts[f].map = m] = [r EXCEPT !.fonts = x]
  BY DEF Registries, Tables
<1>5. d.name \in STRING
  BY DEF Fonts
<1>6. \A z : [r EXCEPT !.fonts = z].fonts = z
  BY DEF Registries, Tables
<1>7. Entry(r, name) = IF k = 0 THEN 0 ELSE s[k].map
  BY DEF Entry
<1>8. IsNamed(s, d.name, f) /\ IsNamed(s, name, k)
  BY <1>1, NamedPlace
<1> HIDE DEF m, f, k, x, y
<1>9. CASE m = 0
  BY <1>3, <1>9 DEF m
<1>10. CASE m # 0 /\ f # 0
  <2>1. q.fonts = x
    BY <1>3, <1>4, <1>6, <1>10
  <2>2. f \in 1 .. Len(s) /\ s[f].name = d.name /\ s[f] \in FontEntry
    BY <1>1, <1>8, <1>10, ElementOfSeq DEF IsNamed
  <2>3. b \in FontEntry /\ b.map = m /\ b.name = d.name
    BY <1>2, <2>2 DEF FontEntry
  <2> HIDE DEF b, s
  <2>4. Len(x) = Len(s) /\ x[f] = b /\ \A i \in 1 .. Len(s) : i # f => x[i] = s[i]
    BY <1>1, <2>2, <2>3 DEF x
  <2>5. \A i \in 1 .. Len(s) : x[i].name = s[i].name
    BY <2>2, <2>3, <2>4
  <2>6. Named(x, name) = k
    BY <1>1, <2>4, <2>5, NamedStays DEF k
  <2>7. Entry(q, name) = IF k = 0 THEN 0 ELSE x[k].map
    BY <2>1, <2>6 DEF Entry
  <2>8. CASE name = d.name
    BY <1>10, <2>3, <2>4, <2>7, <2>8 DEF k, f, m
  <2>9. CASE name # d.name /\ k # 0
    <3>1. k \in 1 .. Len(s) /\ s[k].name = name
      BY <1>8, <2>9 DEF IsNamed
    <3>2. x[k] = s[k]
      BY <3>1, <2>2, <2>4, <2>9
    <3>3. QED
      BY <3>2, <2>7, <2>9, <1>7
  <2>10. CASE name # d.name /\ k = 0
    BY <2>7, <2>10, <1>7
  <2>11. QED
    BY <2>8, <2>9, <2>10
<1>11. CASE m # 0 /\ f = 0
  <2>1. q.fonts = y
    BY <1>3, <1>6, <1>11
  <2>2. e \in FontEntry /\ e.name = d.name /\ e.map = m
    BY <1>2, <1>5 DEF FontEntry, Names
  <2> HIDE DEF e
  <2>3. /\ y[1] = e
        /\ \A i \in 1 .. Len(s) : y[i + 1] = s[i]
    BY <1>1, <2>2 DEF y
  <2>4. Named(y, name) = IF e.name = name THEN 1 ELSE IF k = 0 THEN 0 ELSE k + 1
    <3> HIDE DEF s
    <3>1. QED
      BY <1>1, <2>2, NamedShifts DEF y, k
  <2> HIDE DEF s
  <2>5. Entry(q, name) = IF Named(y, name) = 0 THEN 0 ELSE y[Named(y, name)].map
    BY <2>1 DEF Entry
  <2>6. CASE name = d.name
    <3>1. Named(y, name) = 1
      BY <2>2, <2>4, <2>6
    <3>2. QED
      BY <3>1, <2>2, <2>3, <2>5, <2>6, <1>11 DEF m
  <2>7. CASE name # d.name /\ k = 0
    <3>1. Named(y, name) = 0
      BY <2>2, <2>4, <2>7
    <3>2. QED
      BY <3>1, <2>5, <2>7, <1>7
  <2>8. CASE name # d.name /\ k # 0
    <3>1. k \in 1 .. Len(s)
      BY <1>8, <2>8 DEF IsNamed
    <3>2. Named(y, name) = k + 1 /\ k + 1 # 0 /\ y[k + 1] = s[k]
      BY <3>1, <2>2, <2>3, <2>4, <2>8, <1>1
    <3>3. QED
      BY <3>2, <2>5, <2>8, <1>7
  <2>9. QED
    BY <2>6, <2>7, <2>8
<1>12. QED
  BY <1>9, <1>10, <1>11

(* The font of a name has the encoding its last declaration names, of      *)
(* those that name one there is.                                           *)
FontsFor(r, name) ==
  {d \in Declarations : d.kind = "font" /\ d.name = name
    /\ FindEncoding(r, d.encoding) # 0}

LEMMA LastFontStands ==
  ASSUME NEW r \in Registries, r.fonts = <<>>, NEW ds \in Seq(Fonts),
         NEW g, InTurnFonts(g, r, ds), NEW name
  PROVE  LET q == g[Len(ds)]
             T == FontsFor(r, name)
         IN  /\ q.maps = r.maps /\ q.mathfonts = r.mathfonts
             /\ q.ligatures = r.ligatures /\ q.accents = r.accents
                /\ q.users = r.users
             /\ NoneIn(ds, T) => Entry(q, name) = 0
             /\ \A d : LastIn(ds, T, d) =>
                  Entry(q, name) = FindEncoding(r, d.encoding)
<1> DEFINE N == Len(ds)
           T == FontsFor(r, name)
           Same(q) == /\ q.maps = r.maps /\ q.mathfonts = r.mathfonts
                      /\ q.ligatures = r.ligatures /\ q.accents = r.accents
                         /\ q.users = r.users
           Stands(i) ==
             /\ (\A j \in 1 .. i : ds[j] \notin T) => Entry(g[i], name) = 0
             /\ \A p \in 1 .. i :
                  ds[p] \in T /\ (\A j \in p + 1 .. i : ds[j] \notin T) =>
                    Entry(g[i], name) = FindEncoding(r, ds[p].encoding)
           G == {i \in 0 .. N : Same(g[i]) /\ Stands(i)}
<1>1. /\ g \in [0 .. N -> Registries] /\ g[0] = r
      /\ \A i \in 1 .. N : g[i] = DeclareFont(g[i - 1], ds[i])
      /\ N \in Nat /\ \A i \in 1 .. N : ds[i] \in Fonts
  BY LenProperties, ElementOfSeq DEF InTurnFonts
<1>2. \A i \in 1 .. N : ds[i] \in T <=> ds[i].name = name
        /\ FindEncoding(r, ds[i].encoding) # 0
  BY <1>1 DEF FontsFor, Declarations, Fonts
<1> HIDE DEF N, T
<1>3. 0 \in G
  <2>1. Named(r.fonts, name) = 0
    <3>1. IsNamed(<<>>, name, 0) /\ Len(<<>>) \in Nat
      BY DEF IsNamed
    <3>2. QED
      BY <3>1, NamedOnce
  <2>2. Entry(g[0], name) = 0
    BY <1>1, <2>1 DEF Entry
  <2>3. Same(g[0])
    BY <1>1
  <2>4. Stands(0)
    BY <2>2
  <2>5. 0 \in 0 .. N
    BY <1>1
  <2> HIDE DEF Same, Stands
  <2>6. QED
    BY <2>3, <2>4, <2>5
<1>4. ASSUME NEW k \in 0 .. N - 1, k \in G
      PROVE  k + 1 \in G
  <2>1. k \in 0 .. N /\ k + 1 \in 0 .. N /\ k + 1 \in 1 .. N /\ (k + 1) - 1 = k
    BY <1>1
  <2> DEFINE d == ds[k + 1]
             q == g[k]
             m == FindEncoding(r, d.encoding)
  <2>2. g[k + 1] = DeclareFont(q, d) /\ q \in Registries /\ d \in Fonts
    BY <1>1, <2>1
  <2>3. Same(q) /\ Stands(k)
    BY <1>4
  <2> HIDE DEF q, d
  <2>4. Same(g[k + 1])
    BY <2>2, <2>3, DeclareFontKeeps
  <2>5. FindEncoding(q, d.encoding) = m
    BY <2>3, SameMaps
  <2>6. Entry(g[k + 1], name) = IF m # 0 /\ name = d.name THEN m ELSE Entry(q, name)
    BY <2>2, <2>5, DeclareFontEffect
  <2>7. d \in T <=> d.name = name /\ m # 0
    BY <1>2, <2>1 DEF d
  <2> HIDE DEF m, Same
  <2>8. Entry(g[k + 1], name) = IF d \in T THEN m ELSE Entry(q, name)
    BY <2>6, <2>7
  <2>9. \A j : j \in 1 .. k + 1 <=> j \in 1 .. k \/ j = k + 1
    BY <2>1
  <2>10. (\A j \in 1 .. k + 1 : ds[j] \notin T) => Entry(g[k + 1], name) = 0
    <3> SUFFICES ASSUME \A j \in 1 .. k + 1 : ds[j] \notin T
                 PROVE  Entry(g[k + 1], name) = 0
      OBVIOUS
    <3>1. d \notin T /\ \A j \in 1 .. k : ds[j] \notin T
      BY <2>9 DEF d
    <3>2. QED
      BY <3>1, <2>3, <2>8 DEF q
  <2>11. ASSUME NEW p \in 1 .. k + 1, ds[p] \in T, \A j \in p + 1 .. k + 1 :
                  ds[j] \notin T
         PROVE  Entry(g[k + 1], name) = FindEncoding(r, ds[p].encoding)
    <3>1. CASE p = k + 1
      BY <3>1, <2>8, <2>11 DEF d, m
    <3>2. CASE p # k + 1
      <4>1. p \in 1 .. k /\ k + 1 \in p + 1 .. k + 1
              /\ \A j \in p + 1 .. k : j \in p + 1 .. k + 1
        BY <3>2, <2>1
      <4>2. d \notin T /\ \A j \in p + 1 .. k : ds[j] \notin T
        BY <4>1, <2>11 DEF d
      <4>3. Entry(q, name) = FindEncoding(r, ds[p].encoding)
        BY <4>1, <4>2, <2>3, <2>11 DEF q
      <4>4. QED
        BY <4>2, <4>3, <2>8
    <3>3. QED
      BY <3>1, <3>2
  <2>12. Stands(k + 1)
    BY <2>10, <2>11
  <2> HIDE DEF Stands
  <2>13. QED
    BY <2>1, <2>4, <2>12
<1> HIDE DEF G
<1>5. \A n \in 0 .. N : n \in G
  BY <1>1, <1>3, <1>4, BoundedInduction, Zenon
<1>6. Same(g[N]) /\ Stands(N)
  <2>1. N \in 0 .. N
    BY <1>1
  <2>2. N \in G
    BY <1>5, <2>1
  <2> HIDE DEF Same, Stands
  <2>3. QED
    BY <2>2 DEF G
<1>7. NoneIn(ds, T) => Entry(g[N], name) = 0
  BY <1>6 DEF NoneIn, N
<1>8. ASSUME NEW d, LastIn(ds, T, d)
      PROVE  Entry(g[N], name) = FindEncoding(r, d.encoding)
  <2>1. PICK p \in 1 .. N : ds[p] = d /\ d \in T
               /\ \A j \in p + 1 .. N : ds[j] \notin T
    BY <1>8 DEF LastIn, N
  <2>2. QED
    BY <1>6, <2>1
<1>9. QED
  BY <1>6, <1>7, <1>8 DEF N, T

----------------------------------------------------------------------------
(* Fonts of formulas. *)

LEMMA DeclareMathFontKeeps ==
  ASSUME NEW r \in Registries, NEW d
  PROVE  LET q == DeclareMathFont(r, d)
         IN  /\ q.maps = r.maps /\ q.fonts = r.fonts
             /\ q.ligatures = r.ligatures /\ q.accents = r.accents
                /\ q.users = r.users
<1> DEFINE m == FindEncoding(r, d.encoding)
           y == <<[name |-> d.name, map |-> m, variant |-> d.variant]>> \o r.mathfonts
<1>1. DeclareMathFont(r, d) = IF m = 0 THEN r ELSE [r EXCEPT !.mathfonts = y]
  BY DEF DeclareMathFont
<1> HIDE DEF m, y
<1>2. LET q == [r EXCEPT !.mathfonts = y]
      IN  /\ q.maps = r.maps /\ q.fonts = r.fonts
          /\ q.ligatures = r.ligatures /\ q.accents = r.accents /\ q.users = r.users
  BY DEF Registries, Tables
<1>3. QED
  BY <1>1, <1>2

LEMMA DeclareMathFontEffect ==
  ASSUME NEW r \in Registries, NEW d \in MathFonts, NEW name
  PROVE  LET m == FindEncoding(r, d.encoding)
         IN  MathEntry(DeclareMathFont(r, d), name)
               = IF m # 0 /\ name = d.name THEN <<m, d.variant>>
                 ELSE MathEntry(r, name)
<1> DEFINE m == FindEncoding(r, d.encoding)
           s == r.mathfonts
           k == Named(s, name)
           e == [name |-> d.name, map |-> m, variant |-> d.variant]
           y == <<e>> \o s
           q == DeclareMathFont(r, d)
           j == Named(y, name)
<1>1. s \in Seq(MathFontEntry) /\ Len(s) \in Nat
  BY TablesHold, LenProperties
<1>2. m \in Nat
  BY EncodingFound, TablesHold, LenProperties
<1>3. q = IF m = 0 THEN r ELSE [r EXCEPT !.mathfonts = y]
  BY DEF DeclareMathFont
<1>4. [r EXCEPT !.mathfonts = y].mathfonts = y
  BY DEF Registries, Tables
<1>5. MathEntry(r, name) = IF k = 0 THEN <<>> ELSE <<s[k].map, s[k].variant>>
  BY DEF MathEntry
<1>6. IsNamed(s, name, k)
  BY <1>1, NamedPlace
<1>7. e \in MathFontEntry /\ e.name = d.name /\ e.map = m /\ e.variant = d.variant
  BY <1>2 DEF MathFontEntry, MathFonts
<1> HIDE DEF m, e
<1>8. y[1] = e /\ \A i \in 1 .. Len(s) : y[i + 1] = s[i]
  BY <1>1, <1>7
<1>9. j = IF e.name = name THEN 1 ELSE IF k = 0 THEN 0 ELSE k + 1
  <2> HIDE DEF s
  <2>1. QED
    BY <1>1, <1>7, NamedShifts
<1> HIDE DEF y, k, s
<1>10. CASE m = 0
  BY <1>3, <1>10 DEF m
<1>11. CASE m # 0
  <2>1. MathEntry(q, name) = IF j = 0 THEN <<>> ELSE <<y[j].map, y[j].variant>>
    BY <1>3, <1>4, <1>11 DEF MathEntry
  <2> HIDE DEF j
  <2>2. CASE name = d.name
    <3>1. j = 1
      BY <1>7, <1>9, <2>2
    <3>2. y[j] = e
      BY <3>1, <1>8, Zenon
    <3>3. QED
      BY <3>1, <3>2, <2>1, <2>2, <1>7, <1>11 DEF m
  <2>3. CASE name # d.name /\ k = 0
    <3>1. j = 0
      BY <1>7, <1>9, <2>3
    <3>2. QED
      BY <3>1, <2>1, <2>3, <1>5
  <2>4. CASE name # d.name /\ k # 0
    <3>1. k \in 1 .. Len(s)
      BY <1>6, <2>4 DEF IsNamed
    <3>2. j = k + 1 /\ k + 1 # 0 /\ y[k + 1] = s[k]
      BY <3>1, <1>1, <1>7, <1>8, <1>9, <2>4
    <3>3. y[j] = s[k]
      BY <3>2, Zenon
    <3>4. QED
      BY <3>2, <3>3, <2>1, <2>4, <1>5
  <2>5. QED
    BY <2>2, <2>3, <2>4
<1>12. QED
  BY <1>10, <1>11

(* As for the fonts; the variant is that of the same declaration.          *)
MathFontsFor(r, name) ==
  {d \in Declarations : d.kind = "mathfont" /\ d.name = name
    /\ FindEncoding(r, d.encoding) # 0}

LEMMA LastMathFontStands ==
  ASSUME NEW r \in Registries, r.mathfonts = <<>>, NEW ds \in Seq(MathFonts),
         NEW g, InTurnMathFonts(g, r, ds), NEW name
  PROVE  LET q == g[Len(ds)]
             T == MathFontsFor(r, name)
         IN  /\ q.maps = r.maps /\ q.fonts = r.fonts
             /\ q.ligatures = r.ligatures /\ q.accents = r.accents
                /\ q.users = r.users
             /\ NoneIn(ds, T) => MathEntry(q, name) = <<>>
             /\ \A d : LastIn(ds, T, d) =>
                  MathEntry(q, name) = <<FindEncoding(r, d.encoding), d.variant>>
<1> DEFINE N == Len(ds)
           T == MathFontsFor(r, name)
           Same(q) == /\ q.maps = r.maps /\ q.fonts = r.fonts
                      /\ q.ligatures = r.ligatures /\ q.accents = r.accents
                         /\ q.users = r.users
           Stands(i) ==
             /\ (\A j \in 1 .. i : ds[j] \notin T) => MathEntry(g[i], name) = <<>>
             /\ \A p \in 1 .. i :
                  ds[p] \in T /\ (\A j \in p + 1 .. i : ds[j] \notin T) =>
                    MathEntry(g[i], name)
                      = <<FindEncoding(r, ds[p].encoding), ds[p].variant>>
           G == {i \in 0 .. N : Same(g[i]) /\ Stands(i)}
<1>1. /\ g \in [0 .. N -> Registries] /\ g[0] = r
      /\ \A i \in 1 .. N : g[i] = DeclareMathFont(g[i - 1], ds[i])
      /\ N \in Nat /\ \A i \in 1 .. N : ds[i] \in MathFonts
  BY LenProperties, ElementOfSeq DEF InTurnMathFonts
<1>2. \A i \in 1 .. N : ds[i] \in T <=> ds[i].name = name
        /\ FindEncoding(r, ds[i].encoding) # 0
  BY <1>1 DEF MathFontsFor, Declarations, MathFonts
<1> HIDE DEF N, T
<1>3. 0 \in G
  <2>1. Named(r.mathfonts, name) = 0
    <3>1. IsNamed(<<>>, name, 0) /\ Len(<<>>) \in Nat
      BY DEF IsNamed
    <3>2. QED
      BY <3>1, NamedOnce
  <2>2. MathEntry(g[0], name) = <<>>
    BY <1>1, <2>1 DEF MathEntry
  <2>3. Same(g[0])
    BY <1>1
  <2>4. Stands(0)
    BY <2>2
  <2>5. 0 \in 0 .. N
    BY <1>1
  <2> HIDE DEF Same, Stands
  <2>6. QED
    BY <2>3, <2>4, <2>5
<1>4. ASSUME NEW k \in 0 .. N - 1, k \in G
      PROVE  k + 1 \in G
  <2>1. k \in 0 .. N /\ k + 1 \in 0 .. N /\ k + 1 \in 1 .. N /\ (k + 1) - 1 = k
    BY <1>1
  <2> DEFINE d == ds[k + 1]
             q == g[k]
             m == FindEncoding(r, d.encoding)
  <2>2. g[k + 1] = DeclareMathFont(q, d) /\ q \in Registries /\ d \in MathFonts
    BY <1>1, <2>1
  <2>3. Same(q) /\ Stands(k)
    BY <1>4
  <2> HIDE DEF q, d
  <2>4. Same(g[k + 1])
    BY <2>2, <2>3, DeclareMathFontKeeps
  <2>5. FindEncoding(q, d.encoding) = m
    BY <2>3, SameMaps
  <2>6. MathEntry(g[k + 1], name) = IF m # 0
          /\ name = d.name THEN <<m, d.variant>> ELSE MathEntry(q, name)
    BY <2>2, <2>5, DeclareMathFontEffect
  <2>7. d \in T <=> d.name = name /\ m # 0
    BY <1>2, <2>1 DEF d
  <2> HIDE DEF m, Same
  <2>8. MathEntry(g[k + 1], name) = IF d \in T THEN <<m, d.variant>>
          ELSE MathEntry(q, name)
    BY <2>6, <2>7
  <2>9. \A j : j \in 1 .. k + 1 <=> j \in 1 .. k \/ j = k + 1
    BY <2>1
  <2>10. (\A j \in 1 .. k + 1 : ds[j] \notin T) => MathEntry(g[k + 1], name) = <<>>
    <3> SUFFICES ASSUME \A j \in 1 .. k + 1 : ds[j] \notin T
                 PROVE  MathEntry(g[k + 1], name) = <<>>
      OBVIOUS
    <3>1. d \notin T /\ \A j \in 1 .. k : ds[j] \notin T
      BY <2>9 DEF d
    <3>2. QED
      BY <3>1, <2>3, <2>8 DEF q
  <2>11. ASSUME NEW p \in 1 .. k + 1, ds[p] \in T, \A j \in p + 1 .. k + 1 :
                  ds[j] \notin T
         PROVE  MathEntry(g[k + 1], name)
                  = <<FindEncoding(r, ds[p].encoding), ds[p].variant>>
    <3>1. CASE p = k + 1
      BY <3>1, <2>8, <2>11 DEF d, m
    <3>2. CASE p # k + 1
      <4>1. p \in 1 .. k /\ k + 1 \in p + 1 .. k + 1
              /\ \A j \in p + 1 .. k : j \in p + 1 .. k + 1
        BY <3>2, <2>1
      <4>2. d \notin T /\ \A j \in p + 1 .. k : ds[j] \notin T
        BY <4>1, <2>11 DEF d
      <4>3. MathEntry(q, name) = <<FindEncoding(r, ds[p].encoding), ds[p].variant>>
        BY <4>1, <4>2, <2>3, <2>11 DEF q
      <4>4. QED
        BY <4>2, <4>3, <2>8
    <3>3. QED
      BY <3>1, <3>2
  <2>12. Stands(k + 1)
    BY <2>10, <2>11
  <2> HIDE DEF Stands
  <2>13. QED
    BY <2>1, <2>4, <2>12
<1> HIDE DEF G
<1>5. \A n \in 0 .. N : n \in G
  BY <1>1, <1>3, <1>4, BoundedInduction, Zenon
<1>6. Same(g[N]) /\ Stands(N)
  <2>1. N \in 0 .. N
    BY <1>1
  <2>2. N \in G
    BY <1>5, <2>1
  <2> HIDE DEF Same, Stands
  <2>3. QED
    BY <2>2 DEF G
<1>7. NoneIn(ds, T) => MathEntry(g[N], name) = <<>>
  BY <1>6 DEF NoneIn, N
<1>8. ASSUME NEW d, LastIn(ds, T, d)
      PROVE  MathEntry(g[N], name) = <<FindEncoding(r, d.encoding), d.variant>>
  <2>1. PICK p \in 1 .. N : ds[p] = d /\ d \in T
               /\ \A j \in p + 1 .. N : ds[j] \notin T
    BY <1>8 DEF LastIn, N
  <2>2. QED
    BY <1>6, <2>1
<1>9. QED
  BY <1>6, <1>7, <1>8 DEF N, T

----------------------------------------------------------------------------
(* lfm_init *)

NeutralEncoding == [name |-> "LxirNeutralEncoding", map |-> NeutralMap]
NeutralEntry(n) == [name |-> "LxirNeutralFont", map |-> n]
NeutralAtEnd(e, r) == r.maps = Append(e.maps, NeutralEncoding)

(* e is the tables with the encodings read, f with the fonts and m with    *)
(* the fonts of formulas.                                                  *)
EncodingsAreRead(config, l, e) ==
  /\ l.ligatures = Reverse(Declared(Documents(config), "ligature"))
  /\ e \in Registries /\ e.users = 0 /\ e.fonts = <<>> /\ e.mathfonts = <<>>
     /\ e.accents = <<>>
  /\ e.maps = EncodingMaps(config, l)
FontsAreRead(config, e, f) ==
  /\ f = ReadFonts(e, Documents(config)) /\ f \in Registries
  /\ f.maps = e.maps /\ f.mathfonts = <<>> /\ f.accents = <<>> /\ f.users = 0
MathFontsAreRead(config, f, m) ==
  /\ m = ReadMathFonts(f, Documents(config)) /\ m \in Registries
  /\ m.maps = f.maps /\ m.fonts = f.fonts /\ m.accents = <<>> /\ m.users = 0
Filled(config, r) ==
  \E l, e, f, m :
    /\ EncodingsAreRead(config, l, e) /\ FontsAreRead(config, e, f)
    /\ MathFontsAreRead(config, f, m)
    /\ NeutralAtEnd(e, r)
    /\ r.fonts = <<NeutralEntry(Len(e.maps) + 1)>> \o f.fonts
    /\ r.mathfonts = m.mathfonts
    /\ r.accents = Reverse(Declared(Documents(config), "accent"))

LEMMA EncodingsFirst ==
  ASSUME NEW config \in Seq(FontFiles)
  PROVE  LET l == ReadLigatures(NoTables, Documents(config))
         IN  EncodingsAreRead(config, l, ReadEncodings(l, Documents(config)))
<1> DEFINE docs == Documents(config)
           l == ReadLigatures(NoTables, docs)
           e == ReadEncodings(l, docs)
           ls == Reverse(Declared(docs, "ligature"))
           es == Declared(docs, "encoding")
           ds == Among(es, {d \in ToSet(es) : d.values # <<>>})
           ms == [i \in DOMAIN ds |-> NewMap(l, ds[i])]
<1>1. docs \in Seq(Seq(Declarations))
  BY DocumentsType
<1>2. l \in Registries
  <2> HIDE DEF docs
  <2>1. QED
    BY <1>1, NothingDeclared, LigaturesRead
<1>3. e \in Registries
  <2> HIDE DEF docs, l
  <2>1. QED
    BY <1>1, <1>2, EncodingsRead
<1>4. ls \in Seq(Ligatures)
  <2> HIDE DEF docs
  <2>1. QED
    BY <1>1, DeclaredOfKind, ReverseType
<1>5. /\ l.ligatures = ls /\ l.users = 0 /\ l.maps = <<>> /\ l.fonts = <<>>
      /\ l.mathfonts = <<>> /\ l.accents = <<>>
  <2>1. l = [NoTables EXCEPT !.ligatures = ls \o <<>>]
    BY DEF ReadLigatures, NoTables
  <2> HIDE DEF ls
  <2>2. ls \o <<>> = ls
    BY <1>4
  <2>3. l = [NoTables EXCEPT !.ligatures = ls]
    BY <2>1, <2>2
  <2> HIDE DEF l
  <2>4. QED
    BY <2>3 DEF NoTables
<1>6. DOMAIN ds = 1 .. Len(ds) /\ Len(ds) \in Nat
  <2> HIDE DEF docs
  <2>1. es \in Seq(Encodings)
    BY <1>1, DeclaredOfKind
  <2> HIDE DEF es
  <2>2. QED
    BY <2>1, AmongProperties, LenProperties
<1>7. e = [l EXCEPT !.maps = <<>> \o ms]
  BY <1>5 DEF ReadEncodings
<1> HIDE DEF l, ds
<1>8. <<>> \o ms = ms
  BY <1>6
<1> HIDE DEF ms
<1>9. e = [l EXCEPT !.maps = ms]
  BY <1>7, <1>8
<1> HIDE DEF e
<1>10. e.maps = ms /\ e.users = 0 /\ e.fonts = <<>> /\ e.mathfonts = <<>>
         /\ e.accents = <<>>
  BY <1>2, <1>5, <1>9 DEF Registries, Tables
<1>11. l.ligatures = Reverse(Declared(docs, "ligature"))
  BY <1>5
<1> HIDE DEF ls
<1>12. QED
  BY <1>3, <1>10, <1>11 DEF EncodingsAreRead, EncodingMaps, ms, ds, es, e, l, docs

LEMMA FontsNext ==
  ASSUME NEW config \in Seq(FontFiles), NEW l, NEW e, EncodingsAreRead(config, l, e)
  PROVE  FontsAreRead(config, e, ReadFonts(e, Documents(config)))
<1> DEFINE docs == Documents(config)
           ds == Declared(docs, "font")
           f == ReadFonts(e, docs)
<1>1. docs \in Seq(Seq(Declarations))
  BY DocumentsType
<1>2. e \in Registries /\ e.users = 0 /\ e.fonts = <<>>
        /\ e.mathfonts = <<>> /\ e.accents = <<>>
  BY DEF EncodingsAreRead
<1> HIDE DEF docs
<1>3. ds \in Seq(Fonts)
  BY <1>1, DeclaredOfKind
<1>4. PICK g : InTurnFonts(g, e, ds) /\ f = g[Len(ds)]
  BY <1>1, <1>2, FontsInTurn
<1> HIDE DEF ds
<1>5. /\ g[Len(ds)].maps = e.maps /\ g[Len(ds)].mathfonts = e.mathfonts
      /\ g[Len(ds)].accents = e.accents /\ g[Len(ds)].users = e.users
      /\ NoneIn(ds, FontsFor(e, "tenrm")) => Entry(g[Len(ds)], "tenrm") = 0
  <2>1. e \in Registries /\ e.fonts = <<>> /\ ds \in Seq(Fonts)
          /\ InTurnFonts(g, e, ds)
    BY <1>2, <1>3, <1>4
  <2>2. QED
    BY ONLY <2>1, LastFontStands
<1>6. f \in Registries
  BY <1>1, <1>2, FontsRead
<1> HIDE DEF f
<1>7. f.maps = e.maps /\ f.mathfonts = <<>> /\ f.accents = <<>> /\ f.users = 0
  BY <1>2, <1>4, <1>5
<1>8. QED
  BY <1>6, <1>7 DEF FontsAreRead, f, docs

LEMMA MathFontsNext ==
  ASSUME NEW config \in Seq(FontFiles), NEW e, NEW f, FontsAreRead(config, e, f)
  PROVE  MathFontsAreRead(config, f, ReadMathFonts(f, Documents(config)))
<1> DEFINE docs == Documents(config)
           ds == Declared(docs, "mathfont")
           m == ReadMathFonts(f, docs)
<1>1. docs \in Seq(Seq(Declarations))
  BY DocumentsType
<1>2. f \in Registries /\ f.users = 0 /\ f.mathfonts = <<>> /\ f.accents = <<>>
  BY DEF FontsAreRead
<1> HIDE DEF docs
<1>3. ds \in Seq(MathFonts)
  BY <1>1, DeclaredOfKind
<1>4. PICK g : InTurnMathFonts(g, f, ds) /\ m = g[Len(ds)]
  BY <1>1, <1>2, MathFontsInTurn
<1> HIDE DEF ds
<1>5. /\ g[Len(ds)].maps = f.maps /\ g[Len(ds)].fonts = f.fonts
      /\ g[Len(ds)].accents = f.accents /\ g[Len(ds)].users = f.users
      /\ NoneIn(ds, MathFontsFor(f, "tenrm")) =>
           MathEntry(g[Len(ds)], "tenrm") = <<>>
  <2>1. f \in Registries /\ f.mathfonts = <<>> /\ ds \in Seq(MathFonts)
        /\ InTurnMathFonts(g, f, ds)
    BY <1>2, <1>3, <1>4
  <2>2. QED
    BY ONLY <2>1, LastMathFontStands
<1>6. m \in Registries
  BY <1>1, <1>2, MathFontsRead
<1> HIDE DEF m
<1>7. m.maps = f.maps /\ m.fonts = f.fonts /\ m.accents = <<>> /\ m.users = 0
  BY <1>2, <1>4, <1>5
<1>8. QED
  BY <1>6, <1>7 DEF MathFontsAreRead, m, docs

LEMMA TablesFilled ==
  ASSUME NEW config \in Seq(FontFiles), LfmInit(NoTables, config).users # 0
  PROVE  Filled(config, LfmInit(NoTables, config)) /\ Choice!Usable(config)
<1> DEFINE docs == Documents(config)
           l == ReadLigatures(NoTables, docs)
           e == ReadEncodings(l, docs)
           f == ReadFonts(e, docs)
           m == ReadMathFonts(f, docs)
           as == Reverse(Declared(docs, "accent"))
           a == ReadAccents(m, docs)
           n == WithNeutralFont(a)
           r == LfmInit(NoTables, config)
<1>1. r = IF NoTables.users > 0 \/ docs = <<>> THEN NoTables
          ELSE IF a.fonts = <<>> THEN a ELSE [n EXCEPT !.users = 1]
  BY DEF LfmInit
<1>2. /\ EncodingsAreRead(config, l, e) /\ FontsAreRead(config, e, f)
      /\ MathFontsAreRead(config, f, m)
  <2>1. EncodingsAreRead(config, l, e)
    BY EncodingsFirst
  <2> HIDE DEF l, e
  <2>2. FontsAreRead(config, e, f)
    BY <2>1, FontsNext
  <2> HIDE DEF f
  <2>3. MathFontsAreRead(config, f, m)
    BY <2>2, MathFontsNext
  <2>4. QED
    BY <2>1, <2>2, <2>3
<1>3. docs \in Seq(Seq(Declarations))
  BY DocumentsType
<1>4. docs # <<>> => Choice!Usable(config)
  BY DEF Documents, Choice!Usable
<1>5. a = [m EXCEPT !.accents = as \o m.accents]
  BY DEF ReadAccents
<1>6. m \in Registries /\ m.users = 0 /\ m.accents = <<>>
  <2> HIDE DEF m
  <2>1. QED
    BY <1>2 DEF MathFontsAreRead
<1> HIDE DEF m, docs, e, f, l, r, a
<1>7. as \in Seq(Accents)
  BY <1>3, DeclaredOfKind, ReverseType
<1> HIDE DEF as
<1>8. a = [m EXCEPT !.accents = as] /\ a \in Registries
  <2>1. as \o <<>> = as
    BY <1>7
  <2>2. a = [m EXCEPT !.accents = as]
    BY <2>1, <1>5, <1>6
  <2>3. QED
    BY <2>2, <1>6, <1>7, TablesWith
<1>9. /\ a.users = 0 /\ a.maps = m.maps /\ a.fonts = m.fonts
      /\ a.mathfonts = m.mathfonts /\ a.accents = as
  BY <1>6, <1>8 DEF Registries, Tables
<1>10. r = [n EXCEPT !.users = 1] /\ docs # <<>>
  <2>1. r.users # 0
    BY DEF r
  <2>2. NoTables.users = 0
    BY DEF NoTables
  <2> HIDE DEF n
  <2>3. QED
    BY <2>1, <2>2, <1>1, <1>9
<1>11. /\ r.maps = Append(m.maps, NeutralEncoding)
       /\ r.fonts = <<NeutralEntry(Len(m.maps) + 1)>> \o m.fonts
       /\ r.mathfonts = m.mathfonts /\ r.accents = as
  <2>1. n = [a EXCEPT !.maps = Append(a.maps, NeutralEncoding),
                      !.fonts = <<NeutralEntry(Len(a.maps) + 1)>> \o a.fonts]
    BY DEF WithNeutralFont, NeutralEncoding, NeutralEntry
  <2> HIDE DEF n
  <2> DEFINE x == Append(a.maps, NeutralEncoding)
             y == <<NeutralEntry(Len(a.maps) + 1)>> \o a.fonts
  <2>2. n = [a EXCEPT !.maps = x, !.fonts = y]
    BY <2>1
  <2> HIDE DEF x, y
  <2>3. n.maps = x /\ n.fonts = y /\ n.mathfonts = a.mathfonts
          /\ n.accents = a.accents
        /\ r.maps = n.maps /\ r.fonts = n.fonts /\ r.mathfonts = n.mathfonts
        /\ r.accents = n.accents
    BY <2>2, <1>8, <1>10 DEF Registries, Tables
  <2>4. QED
    BY <2>3, <1>9 DEF x, y
<1>12. f.maps = e.maps /\ m.maps = f.maps /\ m.fonts = f.fonts
  BY <1>2 DEF FontsAreRead, MathFontsAreRead
<1>13. Filled(config, r)
  <2>1. /\ NeutralAtEnd(e, r)
        /\ r.fonts = <<NeutralEntry(Len(e.maps) + 1)>> \o f.fonts
        /\ r.mathfonts = m.mathfonts
           /\ r.accents = Reverse(Declared(Documents(config), "accent"))
    BY <1>11, <1>12 DEF as, docs, NeutralAtEnd
  <2>2. QED
    BY <2>1, <1>2 DEF Filled
<1>14. QED
  BY <1>4, <1>10, <1>13 DEF r

(* What is looked up in the tables is what the files say. *)
FontsAsDeclared(config, r) ==
  \A n : n # "LxirNeutralFont" =>
    r.maps[r.fonts[FontFor(r, n)].map].map = Choice!FontMapOf(config, n)
MathFontAsDeclared(config, r, n) ==
  LET own == Choice!Declarations(config, "mathfont", n)
      ds == IF own # {} THEN own
            ELSE Choice!Declarations(config, "mathfont", "tenrm")
      m == MathFontFor(r, n)
  IN  /\ IF ds = {} THEN m = 0
         ELSE r.maps[r.mathfonts[m].map].map
                = Choice!Encoding(config, Choice!InForce(config, ds).encoding)
      /\ VariantFor(r, n) = IF own = {} THEN "none"
           ELSE Choice!InForce(config, own).variant
AccentsAsDeclared(config, r) ==
  \A p \in Choice!Places(config, "accent") :
    LET d == Choice!At(config, p)
    IN  r.accents[AccentFor(r, d.base, d.accent)]
          = Choice!InForce(config, Choice!Accents(config, d.base, d.accent))

(* The declarations in force are those that name an encoding there is. *)
LEMMA VoidDeclarations ==
  ASSUME NEW config \in Seq(FontFiles), Choice!Usable(config),
         NEW l, NEW e, EncodingsAreRead(config, l, e), NEW name
  PROVE  /\ Choice!Declarations(config, "font", name)
              = PlacesIn(config, "font", FontsFor(e, name))
         /\ Choice!Declarations(config, "mathfont", name)
              = PlacesIn(config, "mathfont", MathFontsFor(e, name))
<1> DEFINE Void(x) == Choice!Encodings(config, x) = {}
<1>1. \A x : FindEncoding(e, x) = 0 <=> Void(x)
  BY EncodingInForce DEF EncodingsAreRead
<1>2. ASSUME NEW kind
      PROVE  Choice!Declarations(config, kind, name)
               = {p \in Choice!Places(config, kind) :
                    Choice!At(config, p).name = name
                    /\ ~ Void(Choice!At(config, p).encoding)}
  BY DEF Choice!Declarations
<1> HIDE DEF Void
<1>3. ASSUME NEW kind, NEW p \in Choice!Places(config, kind)
      PROVE  Choice!At(config, p) \in Declarations
               /\ Choice!At(config, p).kind = kind
  BY DeclarationAt
<1>4. Choice!Declarations(config, "font", name)
        = PlacesIn(config, "font", FontsFor(e, name))
  BY <1>1, <1>2, <1>3 DEF PlacesIn, FontsFor
<1>5. Choice!Declarations(config, "mathfont", name)
        = PlacesIn(config, "mathfont", MathFontsFor(e, name))
  BY <1>1, <1>2, <1>3 DEF PlacesIn, MathFontsFor
<1>6. QED
  BY <1>4, <1>5

LEMMA EncodingNamed ==
  ASSUME NEW config \in Seq(FontFiles), Choice!Usable(config),
         NEW l, NEW e, EncodingsAreRead(config, l, e),
         NEW r, NeutralAtEnd(e, r),
         NEW name, FindEncoding(e, name) # 0
  PROVE  r.maps[FindEncoding(e, name)].map = Choice!Encoding(config, name)
<1> DEFINE k == FindEncoding(e, name)
<1>1. k \in 1 .. Len(e.maps) /\ e.maps[k].map = Choice!Encoding(config, name)
  <2>1. l.ligatures = Reverse(Declared(Documents(config), "ligature"))
        /\ e.maps = EncodingMaps(config, l)
    BY DEF EncodingsAreRead
  <2>2. k # 0 => k \in 1 .. Len(e.maps)
          /\ e.maps[k].map = Choice!Encoding(config, name)
    BY <2>1, EncodingInForce DEF k
  <2>3. QED
    BY <2>2
<1>2. e.maps \in Seq(Map)
  BY TablesHold DEF EncodingsAreRead
<1> HIDE DEF k
<1>3. r.maps[k] = e.maps[k]
  <2> DEFINE s == e.maps
  <2>1. s \in Seq(Map) /\ Len(s) \in Nat /\ k \in 1 .. Len(s)
    BY <1>1, <1>2, LenProperties
  <2>2. NeutralEncoding \in Map
    BY NeutralMapType DEF NeutralEncoding, Map, Names
  <2> HIDE DEF s
  <2>3. Append(s, NeutralEncoding)[k] = s[k]
    BY <2>1, <2>2, AppendProperties
  <2>4. QED
    BY <2>3 DEF s, NeutralAtEnd
<1>4. QED
  BY <1>1, <1>3 DEF k, NeutralAtEnd

(* The entry of a font is that of the declaration in force, or none. *)
LEMMA FontRead ==
  ASSUME NEW config \in Seq(FontFiles), Choice!Usable(config),
         NEW l, NEW e, EncodingsAreRead(config, l, e),
         NEW f, FontsAreRead(config, e, f), NEW n
  PROVE  LET P == Choice!Declarations(config, "font", n)
             d == Choice!InForce(config, P)
         IN  /\ P = {} => Entry(f, n) = 0
             /\ P # {} => Entry(f, n) = FindEncoding(e, d.encoding)
                           /\ FindEncoding(e, d.encoding) # 0
<1> DEFINE ds == Declared(Documents(config), "font")
           T == FontsFor(e, n)
           P == PlacesIn(config, "font", T)
           d == Choice!InForce(config, P)
<1>2. e \in Registries /\ e.fonts = <<>> /\ f = ReadFonts(e, Documents(config))
  BY DEF EncodingsAreRead, FontsAreRead
<1>14. AreOf(T, "font")
  BY DEF AreOf, FontsFor
<1>15. Choice!Declarations(config, "font", n) = P
  BY VoidDeclarations
<1>16. /\ P # {} => LastIn(ds, T, d)
       /\ P = {} => NoneIn(ds, T)
  <2> HIDE DEF T
  <2>1. QED
    BY <1>14, DeclaredInForce
<1>17. /\ NoneIn(ds, T) => Entry(f, n) = 0
       /\ LastIn(ds, T, d) => Entry(f, n) = FindEncoding(e, d.encoding)
  <2>1. Documents(config) \in Seq(Seq(Declarations))
    BY DocumentsType
  <2>2. ds \in Seq(Fonts)
    BY <2>1, DeclaredOfKind
  <2>3. PICK g : InTurnFonts(g, e, ds) /\ f = g[Len(ds)]
    BY <2>1, <1>2, FontsInTurn
  <2>4. e \in Registries /\ e.fonts = <<>>
    BY <1>2
  <2> HIDE DEF ds, d
  <2>5. /\ NoneIn(ds, FontsFor(e, n)) => Entry(g[Len(ds)], n) = 0
        /\ \A x : LastIn(ds, FontsFor(e, n), x) =>
                  Entry(g[Len(ds)], n) = FindEncoding(e, x.encoding)
    BY <2>2, <2>3, <2>4, LastFontStands
  <2>6. QED
    BY <2>3, <2>5
<1>18. LastIn(ds, T, d) => FindEncoding(e, d.encoding) # 0
  <2> HIDE DEF ds, d
  <2>1. QED
    BY DEF LastIn, FontsFor
<1>19. /\ P = {} => Entry(f, n) = 0
       /\ P # {} => Entry(f, n) = FindEncoding(e, d.encoding)
                     /\ FindEncoding(e, d.encoding) # 0
  <2> HIDE DEF ds, P, T, d
  <2>1. QED
    BY <1>16, <1>17, <1>18
<1>20. QED
  BY <1>15, <1>19

LEMMA FontsLookedUp ==
  ASSUME NEW config \in Seq(FontFiles), Choice!Usable(config), NEW r, Filled(config, r)
  PROVE  FontsAsDeclared(config, r)
<1>1. PICK l, e, f, m :
        /\ EncodingsAreRead(config, l, e) /\ FontsAreRead(config, e, f)
        /\ NeutralAtEnd(e, r)
        /\ r.fonts = <<NeutralEntry(Len(e.maps) + 1)>> \o f.fonts
  BY DEF Filled
<1> SUFFICES ASSUME NEW n, n # "LxirNeutralFont"
             PROVE  r.maps[r.fonts[FontFor(r, n)].map].map
                      = Choice!FontMapOf(config, n)
  BY DEF FontsAsDeclared
<1> DEFINE s == f.fonts
           N == Len(e.maps)
           h == NeutralEntry(N + 1)
           k == Named(s, n)
           i == FontFor(r, n)
           P == Choice!Declarations(config, "font", n)
           d == Choice!InForce(config, P)
<1>2. e \in Registries /\ e.fonts = <<>> /\ f \in Registries /\ f.maps = e.maps
      /\ f = ReadFonts(e, Documents(config))
  BY <1>1 DEF EncodingsAreRead, FontsAreRead
<1>3. /\ s \in Seq(FontEntry) /\ Len(s) \in Nat
      /\ e.maps \in Seq(Map) /\ N \in Nat
      /\ \A j \in 1 .. Len(s) : s[j].map \in 1 .. N
  <2>1. s \in Seq(FontEntry) /\ Pointing(s, f) /\ e.maps \in Seq(Map)
    BY <1>2, TablesHold
  <2>2. QED
    BY <2>1, <1>2, LenProperties DEF Pointing
<1>4. h \in FontEntry /\ h.name = "LxirNeutralFont" /\ h.map = N + 1
  BY <1>3 DEF NeutralEntry, FontEntry, Names
<1>5. r.fonts = <<h>> \o s
  BY <1>1
<1>6. r.maps[N + 1].map = NeutralMap
  <2> DEFINE x == e.maps
  <2>1. NeutralEncoding \in Map /\ x \in Seq(Map)
    BY <1>3, NeutralMapType DEF NeutralEncoding, Map, Names
  <2>2. NeutralEncoding.map = NeutralMap
    BY DEF NeutralEncoding
  <2> HIDE DEF x
  <2>3. Append(x, NeutralEncoding)[Len(x) + 1] = NeutralEncoding
    BY <2>1, AppendProperties
  <2>4. QED
    BY <2>2, <2>3, <1>1 DEF x, NeutralAtEnd
<1> HIDE DEF h, s, N
<1>7. /\ r.fonts[1] = h
      /\ \A j \in 1 .. Len(s) : r.fonts[j + 1] = s[j]
  BY <1>3, <1>4, <1>5
<1>8. /\ Named(r.fonts, n) = IF k = 0 THEN 0 ELSE k + 1
      /\ Named(r.fonts, "LxirNeutralFont") = 1
  BY <1>3, <1>4, <1>5, NamedShifts
<1>9. IsNamed(s, n, k)
  BY <1>3, NamedPlace
<1>10. i = IF Named(r.fonts, n) # 0 THEN Named(r.fonts, n)
         ELSE Named(r.fonts, "LxirNeutralFont")
  BY DEF FontFor
<1>11. Entry(f, n) = IF k = 0 THEN 0 ELSE s[k].map
  BY DEF Entry, s
<1> HIDE DEF i, k
<1>12. k = 0 => r.fonts[i].map = N + 1
  <2> SUFFICES ASSUME k = 0
               PROVE  r.fonts[i].map = N + 1
    OBVIOUS
  <2>1. i = 1
    BY <1>8, <1>10
  <2>2. r.fonts[i] = h
    BY <2>1, <1>7, Zenon
  <2>3. QED
    BY <2>2, <1>4
<1>13. k # 0 => r.fonts[i].map = Entry(f, n) /\ Entry(f, n) \in 1 .. N
  <2> SUFFICES ASSUME k # 0
               PROVE  r.fonts[i].map = Entry(f, n) /\ Entry(f, n) \in 1 .. N
    OBVIOUS
  <2>1. k \in 1 .. Len(s)
    BY <1>9 DEF IsNamed
  <2>2. k + 1 # 0
    BY <2>1, <1>3
  <2>3. i = k + 1
    BY <2>2, <1>8, <1>10
  <2>4. r.fonts[k + 1] = s[k] /\ s[k].map \in 1 .. N
    BY <2>1, <1>3, <1>7
  <2>5. QED
    BY <2>3, <2>4, <1>11
<1>14. /\ P = {} => Entry(f, n) = 0
       /\ P # {} => Entry(f, n) = FindEncoding(e, d.encoding)
                     /\ FindEncoding(e, d.encoding) # 0
  BY <1>1, FontRead
<1> HIDE DEF P
<1>19. CASE P = {}
  <2>1. k = 0
    BY <1>3, <1>13, <1>14, <1>19
  <2>2. Choice!FontMapOf(config, n) = NeutralMap
    BY <1>19 DEF Choice!FontMapOf, P
  <2>3. QED
    BY <2>1, <2>2, <1>6, <1>12 DEF i
<1>20. CASE P # {}
  <2>1. Entry(f, n) = FindEncoding(e, d.encoding) /\ FindEncoding(e, d.encoding) # 0
    BY <1>14, <1>20
  <2>2. k # 0
    BY <2>1, <1>11
  <2>3. Choice!FontMapOf(config, n) = Choice!Encoding(config, d.encoding)
    BY <1>20 DEF Choice!FontMapOf, P
  <2>4. r.fonts[i].map = FindEncoding(e, d.encoding)
    BY <2>1, <2>2, <1>13
  <2> HIDE DEF d
  <2>5. r.maps[FindEncoding(e, d.encoding)].map
          = Choice!Encoding(config, d.encoding)
    BY <2>1, <1>1, EncodingNamed
  <2>6. QED
    BY <2>3, <2>4, <2>5 DEF i
<1>21. QED
  BY <1>19, <1>20

(* The font of formulas of a name, or its absence. *)
MathFontInForce(config, r, n) ==
  LET own == Choice!Declarations(config, "mathfont", n)
      k == Named(r.mathfonts, n)
  IN  /\ own = {} <=> k = 0
      /\ own # {} =>
           /\ r.mathfonts[k].variant = Choice!InForce(config, own).variant
           /\ r.maps[r.mathfonts[k].map].map
                = Choice!Encoding(config, Choice!InForce(config, own).encoding)

LEMMA MathFontRead ==
  ASSUME NEW config \in Seq(FontFiles), Choice!Usable(config), NEW r, Filled(config, r), NEW n
  PROVE  MathFontInForce(config, r, n)
<1>1. PICK l, e, f, m :
        /\ EncodingsAreRead(config, l, e) /\ FontsAreRead(config, e, f)
        /\ MathFontsAreRead(config, f, m)
        /\ NeutralAtEnd(e, r)
        /\ r.mathfonts = m.mathfonts
  BY DEF Filled
<1> DEFINE k == Named(r.mathfonts, n)
           ds == Declared(Documents(config), "mathfont")
           T == MathFontsFor(e, n)
           P == PlacesIn(config, "mathfont", T)
           d == Choice!InForce(config, P)
           b == r.mathfonts[k]
<1>2. /\ e \in Registries /\ f \in Registries /\ f.maps = e.maps
         /\ f.mathfonts = <<>>
      /\ m = ReadMathFonts(f, Documents(config))
  BY <1>1 DEF EncodingsAreRead, FontsAreRead, MathFontsAreRead
<1>3. \A x : FindEncoding(f, x) = FindEncoding(e, x)
  BY <1>2, SameMaps
<1>4. AreOf(T, "mathfont")
  BY DEF AreOf, MathFontsFor
<1>5. Choice!Declarations(config, "mathfont", n) = P
  BY <1>1, VoidDeclarations
<1>6. /\ P # {} => LastIn(ds, T, d)
      /\ P = {} => NoneIn(ds, T)
  <2> HIDE DEF T
  <2>1. QED
    BY <1>4, DeclaredInForce
<1>7. MathFontsFor(f, n) = T
  BY <1>3 DEF MathFontsFor
<1>8. /\ NoneIn(ds, T) => MathEntry(m, n) = <<>>
      /\ LastIn(ds, T, d) => MathEntry(m, n)
           = <<FindEncoding(e, d.encoding), d.variant>>
  <2>1. Documents(config) \in Seq(Seq(Declarations))
    BY DocumentsType
  <2>2. ds \in Seq(MathFonts)
    BY <2>1, DeclaredOfKind
  <2>3. PICK g : InTurnMathFonts(g, f, ds) /\ m = g[Len(ds)]
    BY <2>1, <1>2, MathFontsInTurn
  <2>4. f \in Registries /\ f.mathfonts = <<>>
    BY <1>2
  <2> HIDE DEF ds, d, T
  <2>5. /\ NoneIn(ds, MathFontsFor(f, n)) => MathEntry(g[Len(ds)], n) = <<>>
        /\ \A x : LastIn(ds, MathFontsFor(f, n), x) =>
                  MathEntry(g[Len(ds)], n)
                    = <<FindEncoding(f, x.encoding), x.variant>>
    BY <2>2, <2>3, <2>4, LastMathFontStands
  <2>6. QED
    BY <2>3, <2>5, <1>3, <1>7
<1>9. LastIn(ds, T, d) => FindEncoding(e, d.encoding) # 0
  <2> HIDE DEF ds, d
  <2>1. QED
    BY DEF LastIn, MathFontsFor
<1>10. MathEntry(m, n) = IF k = 0 THEN <<>> ELSE <<b.map, b.variant>>
  BY <1>1 DEF MathEntry
<1> HIDE DEF ds, P, T, k, b
<1>11. CASE P = {}
  <2>1. MathEntry(m, n) = <<>>
    BY <1>6, <1>8, <1>11
  <2>2. k = 0
    BY <2>1, <1>10
  <2>3. QED
    BY <2>2, <1>5, <1>11 DEF MathFontInForce, k
<1>12. CASE P # {}
  <2>1. MathEntry(m, n) = <<FindEncoding(e, d.encoding), d.variant>>
          /\ FindEncoding(e, d.encoding) # 0
    BY <1>6, <1>8, <1>9, <1>12
  <2>2. k # 0 /\ b.map = FindEncoding(e, d.encoding) /\ b.variant = d.variant
    <3> DEFINE x == <<FindEncoding(e, d.encoding), d.variant>>
               y == <<b.map, b.variant>>
    <3>1. x # <<>> /\ x[1] = FindEncoding(e, d.encoding) /\ x[2] = d.variant
          /\ y[1] = b.map /\ y[2] = b.variant
      OBVIOUS
    <3> HIDE DEF d
    <3>2. MathEntry(m, n) = x /\ MathEntry(m, n) = IF k = 0 THEN <<>> ELSE y
      BY <2>1, <1>10
    <3> HIDE DEF x, y
    <3>3. k # 0 /\ x = y
      BY <3>1, <3>2
    <3>4. QED
      BY <3>1, <3>3
  <2> HIDE DEF d
  <2>3. r.maps[FindEncoding(e, d.encoding)].map
          = Choice!Encoding(config, d.encoding)
    BY <2>1, <1>1, EncodingNamed
  <2>4. r.maps[b.map].map = Choice!Encoding(config, d.encoding)
    BY <2>2, <2>3
  <2>5. /\ r.mathfonts[Named(r.mathfonts, n)].map = b.map
        /\ r.mathfonts[Named(r.mathfonts, n)].variant = b.variant
        /\ Named(r.mathfonts, n) # 0
    BY <2>2 DEF b, k
  <2>6. r.mathfonts[Named(r.mathfonts, n)].variant
          = Choice!InForce(config, P).variant
    BY <2>2, <2>5 DEF d
  <2>7. r.maps[r.mathfonts[Named(r.mathfonts, n)].map].map
          = Choice!Encoding(config, Choice!InForce(config, P).encoding)
    BY <2>4, <2>5 DEF d
  <2>8. QED
    BY <2>5, <2>6, <2>7, <1>5, <1>12 DEF MathFontInForce
<1>13. QED
  BY <1>11, <1>12

LEMMA MathFontsLookedUp ==
  ASSUME NEW config \in Seq(FontFiles), Choice!Usable(config), NEW r, Filled(config, r), NEW n
  PROVE  MathFontAsDeclared(config, r, n)
<1> DEFINE own == Choice!Declarations(config, "mathfont", n)
           other == Choice!Declarations(config, "mathfont", "tenrm")
           k == Named(r.mathfonts, n)
           j == Named(r.mathfonts, "tenrm")
           Says(ds, i) == r.maps[r.mathfonts[i].map].map
                            = Choice!Encoding(config, Choice!InForce(config, ds).encoding)
<1>1. MathFontInForce(config, r, n) /\ MathFontInForce(config, r, "tenrm")
  BY MathFontRead
<1>2. /\ own = {} <=> k = 0
      /\ own # {} => r.mathfonts[k].variant
           = Choice!InForce(config, own).variant /\ Says(own, k)
      /\ other = {} <=> j = 0
      /\ other # {} => Says(other, j)
  BY <1>1 DEF MathFontInForce
<1>3. MathFontFor(r, n) = IF k # 0 THEN k ELSE j
  BY DEF MathFontFor
<1>4. VariantFor(r, n) = IF k = 0 THEN "none" ELSE r.mathfonts[k].variant
  BY DEF VariantFor
<1>5. MathFontAsDeclared(config, r, n) <=>
        /\ IF (IF own # {} THEN own ELSE other) = {} THEN MathFontFor(r, n) = 0
           ELSE Says(IF own # {} THEN own ELSE other, MathFontFor(r, n))
        /\ VariantFor(r, n) = IF own = {} THEN "none"
             ELSE Choice!InForce(config, own).variant
  BY DEF MathFontAsDeclared
<1> HIDE DEF own, other, k, j, Says
<1>6. CASE own # {}
  BY <1>2, <1>3, <1>4, <1>5, <1>6
<1>7. CASE own = {}
  BY <1>2, <1>3, <1>4, <1>5, <1>7
<1>8. QED
  BY <1>6, <1>7

(* lfm_get_accent *)
AccentsFor(base, accent) ==
  {d \in Declarations : d.kind = "accent" /\ d.base = base /\ d.accent = accent}

LEMMA AccentsLookedUp ==
  ASSUME NEW config \in Seq(FontFiles), Choice!Usable(config), NEW r, Filled(config, r)
  PROVE  AccentsAsDeclared(config, r)
<1> SUFFICES ASSUME NEW p \in Choice!Places(config, "accent"),
                    NEW base, base = Choice!At(config, p).base,
                    NEW accent, accent = Choice!At(config, p).accent
             PROVE  r.accents[AccentFor(r, base, accent)]
                      = Choice!InForce(config, Choice!Accents(config, base, accent))
  BY DEF AccentsAsDeclared
<1> DEFINE T == AccentsFor(base, accent)
           P == PlacesIn(config, "accent", T)
           ds == Declared(Documents(config), "accent")
           s == r.accents
           I == {i \in 1 .. Len(s) : s[i].base = base /\ s[i].accent = accent}
           k == IF I # {} THEN Min(I) ELSE 0
           d == Choice!InForce(config, P)
<1>1. Choice!Accents(config, base, accent) = P
  BY DeclarationAt DEF Choice!Accents, PlacesIn, AccentsFor
<1>2. P # {}
  <2>1. Choice!At(config, p) \in T
    BY DeclarationAt DEF AccentsFor
  <2>2. QED
    BY <2>1 DEF PlacesIn
<1>3. s = Reverse(ds)
  BY DEF Filled
<1>4. AreOf(T, "accent")
  BY DEF AreOf, AccentsFor
<1>5. LastIn(ds, T, d)
  <2> HIDE DEF T
  <2>1. QED
    BY <1>2, <1>4, DeclaredInForce
<1>6. ds \in Seq({x \in Declarations : x.kind = "accent"})
  BY DocumentsAre, DeclaredType
<1> HIDE DEF ds, P, s
<1>7. FirstIn(s, T, d) /\ s \in Seq({x \in Declarations :
        x.kind = "accent"}) /\ Len(s) \in Nat
  <2> HIDE DEF T, d
  <2>1. QED
    BY <1>3, <1>5, <1>6, Reversed, ReverseType, LenProperties
<1>8. AccentFor(r, base, accent) = k
  BY DEF AccentFor, SelectInSeq, s
<1>9. \A i \in 1 .. Len(s) : i \in I <=> s[i] \in T
  BY <1>7, ElementOfSeq DEF AccentsFor
<1>10. k # 0 => k \in I /\ k \in 1 .. Len(s) /\ \A j \in 1 .. k - 1 : j \notin I
  <2>1. I \in SUBSET (1 .. Len(s))
    OBVIOUS
  <2> HIDE DEF I
  <2>2. QED
    BY <2>1, <1>7, FirstPlace
<1>11. k = 0 <=> I = {}
  <2>1. I \in SUBSET (1 .. Len(s))
    OBVIOUS
  <2> HIDE DEF I
  <2>2. QED
    BY <2>1, <1>7, FirstPlace
<1> HIDE DEF T, k, d, I
<1>12. PICK i \in 1 .. Len(s) : s[i] = d /\ s[i] \in T
              /\ \A j \in 1 .. i - 1 : s[j] \notin T
  BY <1>7 DEF FirstIn
<1>13. i \in I /\ k # 0
  BY <1>9, <1>11, <1>12
<1>14. ~ (i < k) /\ ~ (k < i)
  <2>1. i < k => i \in 1 .. k - 1
    BY <1>10, <1>12, <1>13
  <2>2. k < i => k \in 1 .. i - 1
    BY <1>10, <1>12, <1>13
  <2>3. QED
    BY <2>1, <2>2, <1>9, <1>10, <1>12, <1>13
<1>15. i = k
  BY <1>10, <1>12, <1>13, <1>14
<1>16. s[k] = d
  BY <1>12, <1>15, Zenon
<1>17. QED
  BY <1>1, <1>8, <1>16 DEF s, d

----------------------------------------------------------------------------
(* From lfm_init until lfm_close the tables are those that are read from   *)
(* the files: no step between changes them, and there is one lfm_init.     *)
TablesAreRead ==
  /\ status = "start" => registry = NoTables
  /\ status \notin {"start", "closed"} => registry = LfmInit(NoTables, file.config)

LEMMA PagesKeepTables ==
  ASSUME ReadPages
  PROVE  /\ file' = file /\ registry' = registry
         /\ status \in {"between", "page"} /\ status' \notin {"start", "closed"}
<1> DEFINE Keeps == /\ file' = file /\ registry' = registry
                    /\ status \in {"between", "page"}
                       /\ status' \notin {"start", "closed"}
<1>1. ASSUME NEW code, NEW a, Read(code, a)
      PROVE  file' = file /\ registry' = registry
  BY <1>1 DEF Read
<1>2. ASSUME NEW code, NEW a, NEW o, NEW st, Opcode(code, a, o, st)
      PROVE  Keeps
  BY <1>2 DEF Opcode, Read
<1>3. CASE ReadBop \/ ReadPost \/ ReadBetween
  BY <1>3 DEF ReadBop, ReadPost, ReadBetween, Read
<1>4. CASE \E c \in Characters : SetChar(c) \/ PutChar(c)
  <2>1. PICK c \in Characters : SetChar(c) \/ PutChar(c)
    BY <1>4
  <2>2. \A ch : TextError(ch) \in {"page", "DVIERR_INVALID_CHAR"}
    BY DEF TextError
  <2>3. QED
    BY <2>1, <2>2 DEF SetChar, PutChar, Read
<1>5. CASE EndOfPage \/ Pop \/ Invalid \/ Truncated
  <2>1. CASE EndOfPage \/ Invalid \/ Truncated
    BY <2>1, <1>1 DEF EndOfPage, Invalid, Truncated
  <2>2. CASE Pop
    BY <2>2, <1>1, <1>2 DEF Pop
  <2>3. QED
    BY <1>5, <2>1, <2>2
<1>6. CASE \E f \in FontNumbers : SelectFont(f)
  BY <1>6, <1>1 DEF SelectFont
<1>7. CASE PutRule \/ Push \/ Xxx \/ Skipped \/ \E a \in Moves :
             SetRule(a) \/ Down(a)
  BY <1>7, <1>2 DEF PutRule, Push, Xxx, Skipped, SetRule, Down
<1>8. CASE \E a \in Moves : Right(a)
  BY <1>8, <1>2 DEF Right
<1>9. CASE \E r \in {"w", "x"} : UseAcross(r) \/ \E a \in Moves : SetAcross(r, a)
  BY <1>9, <1>2 DEF UseAcross, SetAcross
<1>10. CASE \E r \in {"y", "z"} : UseAlong(r) \/ \E a \in Moves : SetAlong(r, a)
  BY <1>10, <1>2 DEF UseAlong, SetAlong
<1>11. QED
  BY <1>3, <1>4, <1>5, <1>6, <1>7, <1>8, <1>9, <1>10 DEF ReadPages

LEMMA TablesStay == IInv /\ TablesAreRead /\ [Next]_fileVars => TablesAreRead'
<1> SUFFICES ASSUME IInv, TablesAreRead, [Next]_fileVars PROVE TablesAreRead'
  OBVIOUS
<1>1. CASE InitFonts
  <2>1. registry' = LfmInit(NoTables, file.config) /\ file' = file
          /\ status' = "open"
    BY <1>1 DEF InitFonts, Outside, TablesAreRead
  <2>2. QED
    BY <2>1 DEF TablesAreRead
<1>2. CASE OpenFile
  <2>1. registry' = registry /\ file' = file /\ status = "open"
        /\ status' \notin {"start", "closed"}
    BY <1>2 DEF OpenFile, Outside
  <2>2. QED
    BY <2>1 DEF TablesAreRead
<1>3. CASE DefineFont \/ SkipInPostamble \/ BreakInPostamble \/ EndPostamble
  <2>1. registry' = registry /\ file' = file /\ status = "postamble"
        /\ status' \notin {"start", "closed"}
    BY <1>3 DEF DefineFont, SkipInPostamble, BreakInPostamble, EndPostamble, Outside
  <2>2. QED
    BY <2>1 DEF TablesAreRead
<1>4. CASE ReadPreamble
  <2>1. file.wrong \in {"nothing", "opcode", "version", "scale", "comment"}
    BY DEF IInv, Typed, File
  <2>2. registry' = registry /\ file' = file /\ status = "preamble"
        /\ status' \notin {"start", "closed"}
    BY <2>1, <1>4 DEF ReadPreamble, Outside
  <2>3. QED
    BY <2>2 DEF TablesAreRead
<1>5. CASE CloseFonts
  <2>1. status' = "closed"
    BY <1>5 DEF CloseFonts, Outside
  <2>2. QED
    BY <2>1 DEF TablesAreRead
<1>6. CASE ReadPages /\ UNCHANGED <<at, list>>
  BY <1>6, PagesKeepTables DEF TablesAreRead
<1>7. CASE UNCHANGED fileVars
  BY <1>7 DEF fileVars, vars, TablesAreRead
<1>8. QED
  BY <1>1, <1>2, <1>3, <1>4, <1>5, <1>6, <1>7 DEF Next

LEMMA TablesKept == Spec => []TablesAreRead
<1>1. Init => TablesAreRead
  BY DEF Init, NewFile, TablesAreRead
<1>2. QED
  BY <1>1, TablesStay, Invariance, PTL DEF Spec

(* For every configuration and every name: what lfm_get_translation_map,   *)
(* lfm_get_math_encoding_map, lfm_get_math_encoding_variant and            *)
(* lfm_get_accent find is what the declaration in force says, that of the  *)
(* file named first and in it the last one, wherever it ended up in the    *)
(* lists; a font without one has the neutral encoding.                     *)
THEOREM FirstFileIsInForce == Spec => []FirstFileWins
<1>1. IInv /\ TablesAreRead => FirstFileWins
  <2> SUFFICES ASSUME IInv, TablesAreRead, status \in {"postamble", "end"}, registry.users > 0
               PROVE  FirstFileWins
    BY DEF FirstFileWins
  <2>1. file.config \in Seq(FontFiles) /\ registry = LfmInit(NoTables, file.config)
    BY DEF IInv, Typed, File, TablesAreRead
  <2>2. Filled(file.config, registry) /\ Choice!Usable(file.config)
    <3>1. registry.users # 0
      OBVIOUS
    <3>2. QED
      BY <2>1, <3>1, TablesFilled
  <2>3. FontsAsDeclared(file.config, registry)
          /\ AccentsAsDeclared(file.config, registry)
    BY <2>1, <2>2, FontsLookedUp, AccentsLookedUp
  <2>4. \A n : MathFontAsDeclared(file.config, registry, n)
    BY <2>1, <2>2, MathFontsLookedUp
  <2>5. \A n \in NamesIn("font") \ {"LxirNeutralFont"} :
          registry.maps[registry.fonts[FontFor(registry, n)].map].map
            = Choice!FontMapOf(file.config, n)
    BY <2>3 DEF FontsAsDeclared
  <2>6. QED
    BY <2>3, <2>4, <2>5 DEF FirstFileWins, MathFontAsDeclared, AccentsAsDeclared
<1>2. QED
  BY <1>1, Invariance, TablesKept, PTL

----------------------------------------------------------------------------
(***************************************************************************)
(* Part 3. DviFile implements DviMachine: for every file and every         *)
(* configuration, the nodes and the buffer of libdvi.c say what the pages  *)
(* say.                                                                    *)
(***************************************************************************)

(* What a node says, and what the nodes of a page say. *)
Item == [byte : Byte, font : Int, v : Int] \cup [rule : Seq(Int)] \cup [special : {TRUE}]
          \cup [control : Controls, param : Int]
Bytes(bytes, f, v) ==
  [i \in DOMAIN bytes |-> [byte |-> bytes[i], font |-> f, v |-> v]]
Says(o) == SaidBy(o.nodes, o.buffer)
Items(nodes, buffer) == [i \in 1 .. Len(nodes) |-> Said(nodes[i], buffer)]

(* An open text is in the line of v. *)
AtLevel(o, v) == IsOpen(o.nodes) => Last(o.nodes).v = v

----------------------------------------------------------------------------
(* The words of a text. *)

LEMMA WordsOf ==
  ASSUME NEW a \in Text
  PROVE  /\ Words(a) \in Text
         /\ \A b \in Text : Words(a \o b) = Words(a) \o Words(b)
         /\ Words(<<>>) = <<>>
<1>1. CASE "normal" \notin flags
  BY <1>1 DEF Words
<1>2. CASE "normal" \in flags
  <2> DEFINE S == (0 .. 255) \ {SPACE}
  <2>1. /\ Among(a, S) \in Seq(0 .. 255) /\ Among(<<>>, S) = <<>>
        /\ \A b \in Seq(0 .. 255) : Among(a \o b, S) = Among(a, S) \o Among(b, S)
    <3> DEFINE T == 0 .. 255
    <3>1. a \in Seq(T)
      BY DEF Text
    <3> HIDE DEF S, T
    <3>2. Among(a, S) \in Seq(T)
      BY <3>1, AmongProperties
    <3>3. \A b \in Seq(T) : Among(a \o b, S) = Among(a, S) \o Among(b, S)
      BY <3>1, AmongJoined
    <3>4. Among(<<>>, S) = <<>>
      BY AmongNothing
    <3>5. QED
      BY <3>2, <3>3, <3>4 DEF T
  <2>2. \A b : Words(b) = Among(b, S)
    BY <1>2 DEF Words
  <2> HIDE DEF S
  <2>3. QED
    BY <2>1, <2>2 DEF Text
<1>3. QED
  BY <1>1, <1>2

LEMMA NoWord == "normal" \in flags => Words(<<SPACE>>) = <<>>
<1> SUFFICES ASSUME "normal" \in flags
             PROVE  Words(<<SPACE>>) = <<>>
  OBVIOUS
<1> DEFINE S == (0 .. 255) \ {SPACE}
<1>1. Words(<<SPACE>>) = Among(<<SPACE>>, S)
  BY DEF Words
<1>2. SPACE \notin S /\ SPACE \in Int
  BY DEF SPACE
<1> HIDE DEF S
<1>3. <<SPACE>> = Append(<<>>, SPACE) /\ <<>> \in Seq(Int)
  OBVIOUS
<1>4. Among(Append(<<>>, SPACE), S) = Among(<<>>, S)
  BY <1>2, <1>3, AmongAppended
<1>5. QED
  BY <1>1, <1>3, <1>4, AmongNothing

(* dvi_close_text_node drops a space only under "normal". *)
LEMMA WordsTrimmed ==
  ASSUME NEW b \in Text
  PROVE  Words(IF "normal" \in flags /\ EndsWithSpace(b) THEN Front(b) ELSE b)
           = Words(b)
<1>1. CASE "normal" \in flags /\ EndsWithSpace(b)
  <2>1. b # <<>> /\ b[Len(b)] = SPACE /\ b \in Seq(0 .. 255)
    BY <1>1 DEF EndsWithSpace, Last, Text
  <2>2. /\ Front(b) \in Seq(0 .. 255) /\ Len(Front(b)) = Len(b) - 1
        /\ \A i \in 1 .. Len(b) - 1 : Front(b)[i] = b[i]
    BY <2>1, FrontOf
  <2> DEFINE f == Front(b)
  <2>3. f \in Seq(0 .. 255) /\ <<SPACE>> \in Seq(0 .. 255) /\ b = f \o <<SPACE>>
    <3>1. <<SPACE>> \in Seq(0 .. 255) /\ Len(<<SPACE>>) = 1 /\ <<SPACE>>[1] = SPACE
      BY DEF SPACE
    <3> DEFINE c == f \o <<SPACE>>
    <3>2. Len(b) \in Nat /\ Len(b) # 0
      BY <2>1
    <3> HIDE DEF f
    <3>3. /\ c \in Seq(0 .. 255) /\ Len(c) = Len(f) + 1 /\ c[Len(f) + 1] = SPACE
          /\ \A i \in 1 .. Len(f) : c[i] = f[i]
      BY <3>1, <2>2 DEF f
    <3> HIDE DEF c
    <3>4. \A i \in 1 .. Len(b) : i \in 1 .. Len(b) - 1 \/ i = Len(b)
      BY <3>2
    <3>5. Len(c) = Len(b) /\ \A i \in 1 .. Len(b) : b[i] = c[i]
      BY <2>1, <2>2, <3>2, <3>3, <3>4 DEF f
    <3>6. b = c
      BY <2>1, <3>3, <3>5, SeqEqual
    <3>7. QED
      BY <2>2, <3>1, <3>6 DEF c, f
  <2> HIDE DEF f
  <2>4. Words(f \o <<SPACE>>) = Words(f) \o Words(<<SPACE>>) /\ Words(f) \in Text
    BY ONLY <2>3, WordsOf DEF Text
  <2>5. Words(f) \o <<>> = Words(f)
    BY <2>4 DEF Text
  <2>6. Words(b) = Words(f)
    BY <1>1, <2>3, <2>4, <2>5, NoWord
  <2>7. QED
    BY <1>1, <2>6 DEF f
<1>2. CASE ~ ("normal" \in flags /\ EndsWithSpace(b))
  BY <1>2
<1>3. QED
  BY <1>1, <1>2

LEMMA Joined ==
  ASSUME NEW E, NEW s \in Seq(E), NEW t \in Seq(E)
  PROVE  /\ s \o t \in Seq(E) /\ Len(s) \in Nat /\ Len(t) \in Nat
         /\ Len(s \o t) = Len(s) + Len(t)
         /\ \A i \in 1 .. Len(s) : (s \o t)[i] = s[i]
         /\ \A i \in 1 .. Len(t) : (s \o t)[Len(s) + i] = t[i]
  OBVIOUS

LEMMA BytesJoin ==
  ASSUME NEW a \in Text, NEW b \in Text, NEW f \in Int, NEW v \in Int
  PROVE  /\ Bytes(a, f, v) \in Seq(Item)
         /\ Bytes(a \o b, f, v) = Bytes(a, f, v) \o Bytes(b, f, v)
         /\ Bytes(<<>>, f, v) = <<>>
<1> DEFINE x(c) == [byte |-> c, font |-> f, v |-> v]
<1>1. \A c \in 0 .. 255 : x(c) \in Item
  BY DEF Item, Byte
<1> HIDE DEF x
<1>2. \A c \in Text : /\ Bytes(c, f, v) = [i \in 1 .. Len(c) |-> x(c[i])]
                      /\ Len(c) \in Nat /\ c \in Seq(0 .. 255)
  BY DEF Bytes, x, Text
<1>3. ASSUME NEW c \in Text
      PROVE  /\ Bytes(c, f, v) \in Seq(Item) /\ Len(Bytes(c, f, v)) = Len(c)
             /\ \A i \in 1 .. Len(c) : Bytes(c, f, v)[i] = x(c[i])
  <2> DEFINE k == Len(c)
             I == Item
             g == [i \in 1 .. k |-> x(c[i])]
  <2>1. k \in Nat /\ Bytes(c, f, v) = g
    BY <1>2
  <2>2. \A i \in 1 .. k : x(c[i]) \in I
    <3>1. \A i \in 1 .. k : c[i] \in 0 .. 255
      BY <1>2, ElementOfSeq
    <3>2. QED
      BY <3>1, <1>1
  <2> HIDE DEF k, I
  <2>3. g \in Seq(I) /\ Len(g) = k /\ \A i \in 1 .. k : g[i] = x(c[i])
    BY <2>1, <2>2
  <2> HIDE DEF g
  <2>4. QED
    BY <2>1, <2>3 DEF k, I
<1> DEFINE p == Bytes(a, f, v)
           q == Bytes(b, f, v)
           r == Bytes(a \o b, f, v)
           m == Len(a)
           n == Len(b)
<1>4. /\ a \o b \in Text /\ Len(a \o b) = m + n /\ m \in Nat /\ n \in Nat
      /\ \A i \in 1 .. m : (a \o b)[i] = a[i]
      /\ \A i \in 1 .. n : (a \o b)[m + i] = b[i]
  BY DEF Text
<1>5. /\ p \in Seq(Item) /\ Len(p) = m /\ \A i \in 1 .. m : p[i] = x(a[i])
      /\ q \in Seq(Item) /\ Len(q) = n /\ \A i \in 1 .. n : q[i] = x(b[i])
      /\ r \in Seq(Item) /\ Len(r) = m + n
      /\ \A i \in 1 .. m + n : r[i] = x((a \o b)[i])
  BY <1>3, <1>4
<1> HIDE DEF m, n
<1>6. Bytes(<<>>, f, v) = <<>>
  BY DEF Bytes
<1> HIDE DEF p, q, r
<1>7. /\ p \o q \in Seq(Item) /\ Len(p \o q) = m + n
      /\ \A i \in 1 .. m : (p \o q)[i] = p[i]
      /\ \A i \in 1 .. n : (p \o q)[m + i] = q[i]
  <2> DEFINE I == Item
  <2>1. p \in Seq(I) /\ q \in Seq(I) /\ Len(p) = m /\ Len(q) = n
    BY <1>5
  <2> HIDE DEF I
  <2>2. /\ p \o q \in Seq(I) /\ Len(p \o q) = Len(p) + Len(q)
        /\ \A i \in 1 .. Len(p) : (p \o q)[i] = p[i]
        /\ \A i \in 1 .. Len(q) : (p \o q)[Len(p) + i] = q[i]
    BY ONLY <2>1
  <2>3. QED
    BY <2>1, <2>2 DEF I
<1>8. ASSUME NEW i \in 1 .. m + n
      PROVE  r[i] = (p \o q)[i]
  <2>1. CASE i \in 1 .. m
    <3>1. (p \o q)[i] = p[i] /\ (a \o b)[i] = a[i]
      BY ONLY <2>1, <1>4, <1>7
    <3>2. p[i] = x(a[i]) /\ r[i] = x((a \o b)[i])
      BY ONLY <2>1, <1>5, <1>8
    <3>3. QED
      BY <3>1, <3>2
  <2>2. CASE i \in m + 1 .. m + n
    <3>1. i - m \in 1 .. n /\ i = m + (i - m)
      BY <2>2, <1>4
    <3>2. (p \o q)[i] = q[i - m] /\ (a \o b)[i] = b[i - m]
      BY ONLY <3>1, <1>4, <1>7
    <3>3. q[i - m] = x(b[i - m]) /\ r[i] = x((a \o b)[i])
      BY ONLY <3>1, <1>5, <1>8
    <3>4. QED
      BY <3>2, <3>3, Zenon
  <2>3. m \in Nat /\ n \in Nat
    BY <1>4
  <2>4. i \in 1 .. m \/ i \in m + 1 .. m + n
    BY ONLY <1>8, <2>3
  <2>5. QED
    BY ONLY <2>1, <2>2, <2>4
<1>9. r = p \o q
  BY <1>5, <1>7, <1>8, SeqEqual
<1>10. QED
  BY <1>5, <1>6, <1>9 DEF p, q, r

----------------------------------------------------------------------------
(* What nodes say.                                                         *)

LEMMA TextSays ==
  ASSUME NEW n \in TextNode, NEW buffer \in Text
  PROVE  /\ Said(n, buffer)
              = Bytes(Words(IF n.closed THEN n.content ELSE buffer), n.font, n.v)
         /\ Said(n, buffer) \in Seq(Item)
<1> DEFINE t == IF n.closed THEN n.content ELSE buffer
<1>1. /\ n.type = "text" /\ n.content \in Text /\ n.font \in Int /\ n.v \in Int
  BY DEF TextNode
<1>2. t \in Text
  BY <1>1
<1>3. Said(n, buffer) = Bytes(Words(t), n.font, n.v)
  BY <1>1 DEF Said, Bytes
<1> HIDE DEF t
<1>4. Words(t) \in Text
  BY <1>2, WordsOf
<1>5. Bytes(Words(t), n.font, n.v) \in Seq(Item)
  BY <1>1, <1>4, BytesJoin
<1>6. QED
  BY <1>3, <1>5 DEF t

LEMMA OtherSays ==
  ASSUME NEW n \in OtherNode, NEW buffer
  PROVE  /\ Said(n, buffer) \in Seq(Item)
         /\ n.type = "bop" => Said(n, buffer) = <<>>
         /\ n.type = "xxx" => Said(n, buffer) = <<[special |-> TRUE]>>
         /\ n.type = "rule" => Said(n, buffer) = <<[rule |-> <<n.h, n.v>>]>>
         /\ n.type = "control" =>
              Said(n, buffer) = <<[control |-> n.control, param |-> n.param]>>
<1>1. CASE n \in [type : {"bop"}]
  <2>1. n.type = "bop"
    BY <1>1
  <2>2. Said(n, buffer) = <<>>
    BY <2>1 DEF Said
  <2>3. QED
    BY <2>1, <2>2
<1>2. CASE n \in [type : {"xxx"}]
  <2>1. n.type = "xxx"
    BY <1>2
  <2>2. Said(n, buffer) = <<[special |-> TRUE]>>
    BY <2>1 DEF Said
  <2>3. [special |-> TRUE] \in Item
    BY DEF Item
  <2>4. QED
    BY <2>1, <2>2, <2>3
<1>3. CASE n \in [type : {"rule"}, h : Int, v : Int]
  <2>1. n.type = "rule" /\ n.h \in Int /\ n.v \in Int
    BY <1>3
  <2>2. Said(n, buffer) = <<[rule |-> <<n.h, n.v>>]>>
    BY <2>1 DEF Said
  <2>3. [rule |-> <<n.h, n.v>>] \in Item
    BY <2>1 DEF Item
  <2>4. QED
    BY <2>1, <2>2, <2>3
<1>4. CASE n \in [type : {"control"}, control : Controls, param : Int]
  <2>1. n.type = "control" /\ n.control \in Controls /\ n.param \in Int
    BY <1>4
  <2>2. Said(n, buffer) = <<[control |-> n.control, param |-> n.param]>>
    BY <2>1 DEF Said
  <2>3. [control |-> n.control, param |-> n.param] \in Item
    BY <2>1 DEF Item
  <2>4. QED
    BY <2>1, <2>2, <2>3
<1>5. QED
  BY <1>1, <1>2, <1>3, <1>4 DEF OtherNode

LEMMA ItemsType ==
  ASSUME NEW nodes \in Seq(Node), NEW buffer \in Text
  PROVE  /\ Items(nodes, buffer) \in Seq(Seq(Item))
         /\ Len(Items(nodes, buffer)) = Len(nodes) /\ Len(nodes) \in Nat
         /\ \A i \in 1 .. Len(nodes) : Items(nodes, buffer)[i] = Said(nodes[i], buffer)
         /\ SaidBy(nodes, buffer) = FlattenSeq(Items(nodes, buffer))
         /\ SaidBy(nodes, buffer) \in Seq(Item)
<1> DEFINE S == Seq(Item)
           n == Len(nodes)
<1>1. n \in Nat /\ DOMAIN nodes = 1 .. n /\ \A i \in 1 .. n : nodes[i] \in Node
  BY LenProperties, ElementOfSeq
<1>2. \A i \in 1 .. n : Said(nodes[i], buffer) \in S
  BY <1>1, TextSays, OtherSays DEF Node
<1>3. SaidBy(nodes, buffer) = FlattenSeq(Items(nodes, buffer))
  BY <1>1 DEF SaidBy, Items
<1> HIDE DEF S, n
<1>4. /\ Items(nodes, buffer) \in Seq(S) /\ Len(Items(nodes, buffer)) = n
      /\ \A i \in 1 .. n : Items(nodes, buffer)[i] = Said(nodes[i], buffer)
  BY <1>1, <1>2 DEF Items, n
<1>5. FlattenSeq(Items(nodes, buffer)) \in Seq(Item)
  BY <1>4, FlattenType DEF S
<1>6. QED
  BY <1>1, <1>3, <1>4, <1>5 DEF S, n

(* The same is said by nodes that each say the same. *)
LEMMA SameSaid ==
  ASSUME NEW nodes \in Seq(Node), NEW b \in Text, NEW others \in Seq(Node),
         NEW c \in Text, Len(others) = Len(nodes),
         \A i \in 1 .. Len(nodes) : Said(others[i], c) = Said(nodes[i], b)
  PROVE  SaidBy(others, c) = SaidBy(nodes, b)
<1>1. Items(others, c) = Items(nodes, b)
  BY DEF Items
<1>2. QED
  BY <1>1, ItemsType

(* Of a complete text, the buffer says nothing. *)
LEMMA CompleteSays ==
  ASSUME NEW n \in Node, n.type = "text" => n.closed, NEW b \in Text, NEW c \in Text
  PROVE  Said(n, c) = Said(n, b)
<1>1. CASE n \in TextNode
  <2>1. n.closed
    BY <1>1 DEF TextNode
  <2>2. QED
    BY <1>1, <2>1, TextSays
<1>2. CASE n \in OtherNode
  BY <1>2 DEF OtherNode, Said
<1>3. QED
  BY <1>1, <1>2 DEF Node

(* One more node. *)
LEMMA SaidAppended ==
  ASSUME NEW nodes \in Seq(Node), NEW node \in Node, NEW b \in Text
  PROVE  SaidBy(Append(nodes, node), b) = SaidBy(nodes, b) \o Said(node, b)
<1> DEFINE more == Append(nodes, node)
           n == Len(nodes)
           S == Seq(Item)
<1>1. /\ more \in Seq(Node) /\ Len(more) = n + 1 /\ more[n + 1] = node /\ n \in Nat
      /\ \A i \in 1 .. n : more[i] = nodes[i]
  BY AppendProperties, LenProperties
<1> HIDE DEF more
<1> DEFINE p == Items(nodes, b)
           q == Items(more, b)
           s == Said(node, b)
<1>2. /\ p \in Seq(S) /\ Len(p) = n /\ q \in Seq(S) /\ Len(q) = n + 1
      /\ \A i \in 1 .. n : p[i] = Said(nodes[i], b)
      /\ \A i \in 1 .. n + 1 : q[i] = Said(more[i], b)
      /\ SaidBy(nodes, b) = FlattenSeq(p) /\ SaidBy(more, b) = FlattenSeq(q)
  BY <1>1, ItemsType
<1>3. s \in S
  BY TextSays, OtherSays DEF Node
<1> HIDE DEF n, p, q, s, S
<1>4. q = Append(p, s)
  <2> DEFINE r == Append(p, s)
  <2>1. /\ r \in Seq(S) /\ Len(r) = n + 1 /\ r[n + 1] = s
        /\ \A i \in 1 .. n : r[i] = p[i]
    BY <1>2, <1>3, AppendProperties
  <2>2. q[n + 1] = s /\ \A i \in 1 .. n : q[i] = p[i]
    <3>1. n + 1 \in 1 .. n + 1 /\ \A i \in 1 .. n : i \in 1 .. n + 1
      BY <1>1
    <3>2. QED
      BY <1>1, <1>2, <3>1 DEF s
  <2>3. \A i \in 1 .. n + 1 : i \in 1 .. n \/ i = n + 1
    BY <1>1
  <2> HIDE DEF r
  <2>4. \A i \in 1 .. n + 1 : q[i] = r[i]
    BY <2>1, <2>2, <2>3
  <2>5. q = r
    BY <1>2, <2>1, <2>4, SeqEqual
  <2>6. QED
    BY <2>5 DEF r
<1>5. FlattenSeq(Append(p, s)) = FlattenSeq(p) \o s
  BY <1>2, <1>3, FlattenAppend DEF S
<1>6. QED
  BY <1>2, <1>4, <1>5 DEF more, s

----------------------------------------------------------------------------
(* What is said by what is done to a page.                                 *)

LEMMA ClosedSays ==
  ASSUME NEW o, Good(o), BUFFER_SIZE \in Nat
  PROVE  Says(CloseText(o)) = Says(o)
<1>1. CASE ~ IsOpen(o.nodes)
  BY <1>1 DEF CloseText
<1>2. CASE IsOpen(o.nodes)
  <2> DEFINE text == IF "normal" \in flags /\ EndsWithSpace(o.buffer)
                     THEN Front(o.buffer) ELSE o.buffer
             c == WithText(o, text)
             n == Len(o.nodes)
  <2>1. CloseText(o) = c
    BY <1>2 DEF CloseText, WithText
  <2>2. /\ o \in Page /\ o.buffer \in Text /\ o.nodes \in Seq(Node) /\ <<>> \in Text
        /\ \A i \in 1 .. n - 1 : o.nodes[i].type = "text" => o.nodes[i].closed
        /\ IsOpen(o.nodes) => Last(o.nodes).font = font
    BY DEF Good, Page, Text, Owned
  <2>3. text \in Text /\ Words(text) = Words(o.buffer)
    <3>1. EndsWithSpace(o.buffer) => Front(o.buffer) \in Text
      BY <2>2, FrontOf DEF EndsWithSpace, Text
    <3>2. Words(text) = Words(o.buffer)
      BY <2>2, WordsTrimmed
    <3>3. QED
      BY <2>2, <3>1, <3>2
  <2> HIDE DEF text
  <2>4. /\ c \in Page /\ c.buffer = <<>> /\ Len(c.nodes) = n /\ n \in 1 .. n
        /\ \A i \in 1 .. n - 1 : c.nodes[i] = o.nodes[i]
        /\ c.nodes[n] \in TextNode /\ c.nodes[n].closed /\ c.nodes[n].content = text
        /\ c.nodes[n].font = Last(o.nodes).font /\ c.nodes[n].v = Last(o.nodes).v
    BY <1>2, <2>2, <2>3, TextClosed
  <2>5. c.nodes \in Seq(Node)
    BY <2>4 DEF Page
  <2>6. /\ o.nodes[n] = Last(o.nodes) /\ o.nodes[n] \in TextNode /\ ~ o.nodes[n].closed
    BY <1>2, <2>2, OpenNode
  <2> HIDE DEF c
  <2>7. Said(c.nodes[n], <<>>) = Said(o.nodes[n], o.buffer)
    <3>1. Said(c.nodes[n], <<>>)
            = Bytes(Words(text), Last(o.nodes).font, Last(o.nodes).v)
      BY <2>2, <2>4, TextSays
    <3>2. Said(o.nodes[n], o.buffer)
            = Bytes(Words(o.buffer), Last(o.nodes).font, Last(o.nodes).v)
      BY <2>2, <2>6, TextSays
    <3>3. QED
      BY <2>3, <3>1, <3>2
  <2>8. ASSUME NEW i \in 1 .. n - 1
        PROVE  Said(c.nodes[i], <<>>) = Said(o.nodes[i], o.buffer)
    <3>1. i \in 1 .. n
      BY <2>4
    <3>2. o.nodes[i] \in Node
      BY <2>2, <3>1, ElementOfSeq
    <3>3. QED
      BY <2>2, <2>4, <3>2, CompleteSays
  <2>9. \A i \in 1 .. n : i \in 1 .. n - 1 \/ i = n
    BY <2>4
  <2>10. \A i \in 1 .. n : Said(c.nodes[i], <<>>) = Said(o.nodes[i], o.buffer)
    BY <2>7, <2>8, <2>9
  <2> HIDE DEF n
  <2>11. SaidBy(c.nodes, <<>>) = SaidBy(o.nodes, o.buffer)
    BY <2>2, <2>4, <2>5, <2>10, SameSaid DEF n
  <2>12. QED
    BY <2>1, <2>4, <2>11 DEF Says
<1>3. QED
  BY <1>1, <1>2

LEMMA NodeSays ==
  ASSUME NEW o, Good(o), ~ IsOpen(o.nodes), NEW node \in OtherNode
  PROVE  /\ Says(AppendNode(o, node)) = Says(o) \o Said(node, <<>>)
         /\ ~ IsOpen(AppendNode(o, node).nodes)
<1>1. /\ o \in Page /\ o.nodes \in Seq(Node) /\ o.buffer = <<>> /\ <<>> \in Text
      /\ node \in Node
  BY DEF Good, Page, Owned, Text, Node
<1>2. AppendNode(o, node).nodes = Append(o.nodes, node)
        /\ AppendNode(o, node).buffer = <<>>
  BY <1>1 DEF AppendNode, Page
<1>3. SaidBy(Append(o.nodes, node), <<>>) = SaidBy(o.nodes, <<>>) \o Said(node, <<>>)
  BY <1>1, SaidAppended
<1>4. QED
  BY <1>1, <1>2, <1>3, OtherAppended DEF Says

(* The nodes other than texts close the text before them. *)
LEMMA RuleSays ==
  ASSUME NEW o, Good(o), BUFFER_SIZE \in Nat, NEW p \in Position
  PROVE  /\ Says(AppendRule(o, p)) = Says(o) \o <<[rule |-> <<p.h, p.v>>]>>
         /\ ~ IsOpen(AppendRule(o, p).nodes)
<1> DEFINE node == [type |-> "rule", h |-> p.h, v |-> p.v]
           c == CloseText(o)
<1>1. node \in OtherNode /\ node.type = "rule" /\ node.h = p.h /\ node.v = p.v
  BY DEF OtherNode, Position, State
<1>2. Good(c) /\ ~ IsOpen(c.nodes) /\ Says(c) = Says(o)
  BY ClosedText, ClosedSays
<1>3. AppendRule(o, p) = AppendNode(c, node)
  BY DEF AppendRule
<1> HIDE DEF node, c
<1>4. Said(node, <<>>) = <<[rule |-> <<p.h, p.v>>]>>
  BY <1>1, OtherSays
<1>5. QED
  BY <1>1, <1>2, <1>3, <1>4, NodeSays

LEMMA XxxSays ==
  ASSUME NEW o, Good(o), BUFFER_SIZE \in Nat
  PROVE  /\ Says(AppendXxx(o)) = Says(o) \o <<[special |-> TRUE]>>
         /\ ~ IsOpen(AppendXxx(o).nodes)
<1> DEFINE node == [type |-> "xxx"]
           c == CloseText(o)
<1>1. node \in OtherNode /\ node.type = "xxx"
  BY DEF OtherNode
<1>2. Good(c) /\ ~ IsOpen(c.nodes) /\ Says(c) = Says(o)
  BY ClosedText, ClosedSays
<1>3. AppendXxx(o) = AppendNode(c, node)
  BY DEF AppendXxx
<1> HIDE DEF node, c
<1>4. Said(node, <<>>) = <<[special |-> TRUE]>>
  BY <1>1, OtherSays
<1>5. QED
  BY <1>1, <1>2, <1>3, <1>4, NodeSays

LEMMA ControlSays ==
  ASSUME NEW o, Good(o), BUFFER_SIZE \in Nat, NEW k \in Controls, NEW a \in Int
  PROVE  /\ Says(AppendControl(o, k, a)) = Says(o) \o <<[control |-> k, param |-> a]>>
         /\ ~ IsOpen(AppendControl(o, k, a).nodes)
<1> DEFINE node == [type |-> "control", control |-> k, param |-> a]
           c == CloseText(o)
<1>1. node \in OtherNode /\ node.type = "control" /\ node.control = k /\ node.param = a
  BY DEF OtherNode
<1>2. Good(c) /\ ~ IsOpen(c.nodes) /\ Says(c) = Says(o)
  BY ClosedText, ClosedSays
<1>3. AppendControl(o, k, a) = AppendNode(c, node)
  BY DEF AppendControl
<1> HIDE DEF node, c
<1>4. Said(node, <<>>) = <<[control |-> k, param |-> a]>>
  BY <1>1, OtherSays
<1>5. QED
  BY <1>1, <1>2, <1>3, <1>4, NodeSays

(* A text is opened at p, or is open in its line. *)
LEMMA OpenedSays ==
  ASSUME NEW o, Good(o), NEW p \in Position, font \in Int, AtLevel(o, p.v),
         NEW q, q = OpenText(o, p)
  PROVE  /\ Says(q) = Says(o) /\ Good(q) /\ IsOpen(q.nodes)
         /\ Last(q.nodes).v = p.v /\ Last(q.nodes).font = font /\ q.buffer = o.buffer
<1>1. Good(q) /\ IsOpen(q.nodes) /\ q.buffer = o.buffer
  BY TextOpened
<1>2. Last(q.nodes).font = font
  BY <1>1 DEF Good, Owned
<1>3. CASE IsOpen(o.nodes)
  BY <1>1, <1>2, <1>3 DEF OpenText, AtLevel
<1>4. CASE ~ IsOpen(o.nodes)
  <2> DEFINE node == [type |-> "text", font |-> font, h |-> p.h, v |-> p.v,
                      closed |-> FALSE, content |-> <<>>]
  <2>1. /\ o \in Page /\ o.nodes \in Seq(Node) /\ o.buffer = <<>> /\ <<>> \in Text
    BY <1>4 DEF Good, Page, Owned, Text
  <2>2. /\ node \in TextNode /\ node.font = font /\ node.v = p.v /\ ~ node.closed
    BY <2>1 DEF TextNode, Position, State
  <2>3. q = AppendNode(o, node)
    BY <1>4 DEF OpenText
  <2> HIDE DEF node
  <2>4. node \in Node
    BY <2>2 DEF Node
  <2>5. q.nodes = Append(o.nodes, node) /\ q.buffer = <<>> /\ Last(q.nodes) = node
    <3>1. q.nodes = Append(o.nodes, node) /\ q.buffer = <<>>
      BY <2>1, <2>3 DEF AppendNode, Page
    <3>2. Last(q.nodes) = node
      BY <2>1, <2>3, <2>4, NodeAppended
    <3>3. QED
      BY <3>1, <3>2
  <2>6. SaidBy(q.nodes, <<>>) = SaidBy(o.nodes, <<>>) \o Said(node, <<>>)
          /\ SaidBy(o.nodes, <<>>) \in Seq(Item)
    BY <2>1, <2>4, <2>5, SaidAppended, ItemsType
  <2>7. Said(node, <<>>) = <<>>
    <3>1. Said(node, <<>>) = Bytes(Words(<<>>), node.font, node.v)
      BY <2>1, <2>2, TextSays
    <3>2. Words(<<>>) = <<>> /\ node.font \in Int /\ node.v \in Int
      BY <2>1, <2>2, WordsOf DEF TextNode
    <3>3. Bytes(<<>>, node.font, node.v) = <<>>
      BY <2>1, <3>2, BytesJoin
    <3>4. QED
      BY <3>1, <3>2, <3>3
  <2>8. SaidBy(o.nodes, <<>>) \o <<>> = SaidBy(o.nodes, <<>>)
    BY <2>6
  <2>9. QED
    BY <1>1, <1>2, <2>1, <2>2, <2>5, <2>6, <2>7, <2>8 DEF Says
<1>5. QED
  BY <1>3, <1>4

LEMMA ExtendSays ==
  ASSUME NEW o, Good(o), IsOpen(o.nodes), NEW bytes \in Text
  PROVE  /\ Says(Extend(o, bytes))
              = Says(o) \o Bytes(Words(bytes), font, Last(o.nodes).v)
         /\ Extend(o, bytes).nodes = o.nodes
<1> DEFINE q == Extend(o, bytes)
           v == Last(o.nodes).v
           ns == o.nodes
           n == Len(ns)
           more == o.buffer \o bytes
           x == Bytes(Words(bytes), font, v)
           ss == Items(ns, o.buffer)
           tt == Items(ns, more)
<1>1. /\ o \in Page /\ o.buffer \in Text /\ ns \in Seq(Node)
      /\ \A i \in 1 .. n - 1 : ns[i].type = "text" => ns[i].closed
      /\ Last(ns).font = font
  BY DEF Good, Page, Owned
<1>2. q.nodes = ns /\ q.buffer = more
  BY <1>1 DEF Extend, Page
<1> HIDE DEF q
<1>3. /\ n \in 1 .. n /\ ns[n] = Last(ns) /\ ns[n] \in TextNode /\ ~ ns[n].closed
  BY <1>1, OpenNode
<1>4. more \in Text
  BY <1>1 DEF Text
<1> HIDE DEF ns, n
<1>5. /\ ss \in Seq(Seq(Item)) /\ Len(ss) = n /\ tt \in Seq(Seq(Item)) /\ Len(tt) = n
      /\ \A i \in 1 .. n : ss[i] = Said(ns[i], o.buffer)
      /\ \A i \in 1 .. n : tt[i] = Said(ns[i], more)
      /\ SaidBy(ns, o.buffer) = FlattenSeq(ss) /\ SaidBy(ns, more) = FlattenSeq(tt)
  BY <1>1, <1>4, ItemsType DEF n
<1>6. Last(ns).font \in Int /\ Last(ns).v \in Int
  BY <1>3 DEF TextNode
<1>7. x \in Seq(Item) /\ tt[n] = ss[n] \o x
  <2>1. ss[n] = Bytes(Words(o.buffer), font, v) /\ tt[n] = Bytes(Words(more), font, v)
    BY <1>1, <1>3, <1>4, <1>5, TextSays DEF ns
  <2>2. /\ Words(more) = Words(o.buffer) \o Words(bytes)
        /\ Words(o.buffer) \in Text /\ Words(bytes) \in Text
    BY <1>1, WordsOf
  <2>3. font \in Int /\ v \in Int
    BY <1>1, <1>6 DEF ns
  <2> DEFINE a == Words(o.buffer)
             b == Words(bytes)
  <2>4. /\ a \in Text /\ b \in Text /\ Words(more) = a \o b
        /\ ss[n] = Bytes(a, font, v) /\ tt[n] = Bytes(a \o b, font, v)
        /\ x = Bytes(b, font, v)
    BY <2>1, <2>2
  <2> HIDE DEF a, b, more, ss, tt, x
  <2>5. /\ Bytes(b, font, v) \in Seq(Item)
        /\ Bytes(a \o b, font, v) = Bytes(a, font, v) \o Bytes(b, font, v)
    BY ONLY <2>3, <2>4, BytesJoin
  <2>6. QED
    BY ONLY <2>4, <2>5
<1>8. ASSUME NEW i \in 1 .. n - 1
      PROVE  tt[i] = ss[i]
  <2>1. i \in 1 .. n
    BY <1>3
  <2>2. ns[i] \in Node
    BY <1>1, <2>1, ElementOfSeq DEF n
  <2>3. Said(ns[i], more) = Said(ns[i], o.buffer)
    BY <1>1, <1>4, <2>2, CompleteSays
  <2>4. QED
    BY <1>5, <2>1, <2>3
<1> HIDE DEF ss, tt, x, more
<1>9. FlattenSeq(tt) = FlattenSeq(ss) \o x
  <2>1. Len(ss) # 0 /\ Len(tt) = Len(ss) /\ Len(ss) = n
    BY <1>3, <1>5
  <2>2. /\ \A i \in 1 .. Len(ss) - 1 : tt[i] = ss[i]
        /\ tt[Len(ss)] = ss[Len(ss)] \o x
    BY ONLY <1>7, <1>8, <2>1
  <2>3. ss \in Seq(Seq(Item)) /\ tt \in Seq(Seq(Item)) /\ x \in Seq(Item)
    BY ONLY <1>5, <1>7
  <2>4. QED
    BY ONLY <2>1, <2>2, <2>3, FlattenLast
<1>10. QED
  BY <1>2, <1>5, <1>9 DEF Says, ns, x, q

(* dvi_append_space: a space is said, but under "normal". *)
LEMMA SpaceSays ==
  ASSUME NEW o, Good(o), NEW p \in Position, font \in Int, AtLevel(o, p.v),
         NEW q, q = AppendSpace(o, p)
  PROVE  /\ Says(q) = IF "normal" \in flags THEN Says(o)
                      ELSE Says(o) \o <<[byte |-> SPACE, font |-> font, v |-> p.v]>>
         /\ AtLevel(q, p.v)
<1>0. <<SPACE>> \in Text
  BY DEF Text, SPACE
<1>1. CASE "normal" \notin flags
  <2> DEFINE r == OpenText(o, p)
  <2>1. /\ Says(r) = Says(o) /\ Good(r) /\ IsOpen(r.nodes) /\ Last(r.nodes).v = p.v
    BY OpenedSays
  <2>2. q = Extend(r, <<SPACE>>)
    BY <1>1 DEF AppendSpace
  <2> DEFINE x == <<SPACE>>
  <2>3. Says(q) = Says(r) \o Bytes(Words(<<SPACE>>), font, p.v) /\ q.nodes = r.nodes
    <3>1. x \in Text /\ q = Extend(r, x)
      BY <1>0, <2>2
    <3> HIDE DEF r, x
    <3>2. Says(q) = Says(r) \o Bytes(Words(x), font, p.v) /\ q.nodes = r.nodes
      BY ONLY <2>1, <3>1, ExtendSays
    <3>3. QED
      BY <3>2 DEF x
  <2> HIDE DEF r
  <2>4. Words(<<SPACE>>) = <<SPACE>>
    BY <1>1 DEF Words
  <2>5. Bytes(<<SPACE>>, font, p.v) = <<[byte |-> SPACE, font |-> font, v |-> p.v]>>
    BY DEF Bytes
  <2>6. QED
    BY <1>1, <2>1, <2>3, <2>4, <2>5 DEF AtLevel
<1>2. CASE "normal" \in flags /\ IsOpen(o.nodes) /\ o.buffer # <<>>
             /\ ~ EndsWithSpace(o.buffer)
  <2>1. q = Extend(o, <<SPACE>>) /\ Last(o.nodes).v = p.v
    BY <1>2 DEF AppendSpace, AtLevel
  <2>2. Says(q) = Says(o) \o Bytes(Words(<<SPACE>>), font, p.v) /\ q.nodes = o.nodes
    BY <1>0, <1>2, <2>1, ExtendSays
  <2>3. Words(<<SPACE>>) = <<>> /\ p.v \in Int /\ <<>> \in Text
    BY <1>2, NoWord DEF Position, State, Text
  <2>4. Bytes(<<>>, font, p.v) = <<>>
    BY <2>3, BytesJoin
  <2>5. Says(o) \in Seq(Item)
    BY ItemsType DEF Good, Page, Says
  <2>6. Says(o) \o <<>> = Says(o)
    BY <2>5
  <2>7. QED
    BY <1>2, <2>1, <2>2, <2>3, <2>4, <2>6 DEF AtLevel
<1>3. CASE "normal" \in flags /\ ~ (IsOpen(o.nodes) /\ o.buffer # <<>>
             /\ ~ EndsWithSpace(o.buffer))
  BY <1>3 DEF AppendSpace
<1>4. QED
  BY <1>1, <1>2, <1>3

----------------------------------------------------------------------------
(* The tables are in use just if the configuration is usable and declares  *)
(* a font; then every font is found, and else none.                        *)

LEMMA SomeFontRead ==
  ASSUME NEW config \in Seq(FontFiles), Choice!Usable(config),
         NEW l, NEW e, EncodingsAreRead(config, l, e),
         NEW f, FontsAreRead(config, e, f)
  PROVE  f.fonts # <<>> <=> \E n : Choice!Declarations(config, "font", n) # {}
<1>1. /\ f.fonts \in Seq(FontEntry) /\ Len(f.fonts) \in Nat
      /\ \A j \in 1 .. Len(f.fonts) : f.fonts[j].map # 0
  <2>1. f.fonts \in Seq(FontEntry) /\ Pointing(f.fonts, f) /\ f.maps \in Seq(Map)
    BY TablesHold DEF FontsAreRead
  <2>2. QED
    BY <2>1, LenProperties DEF Pointing
<1>2. ASSUME f.fonts = <<>>, NEW n
      PROVE  Choice!Declarations(config, "font", n) = {}
  <2>1. IsNamed(f.fonts, n, Named(f.fonts, n))
    BY <1>1, NamedPlace
  <2>2. Named(f.fonts, n) = 0
    BY <1>2, <2>1 DEF IsNamed
  <2>3. Entry(f, n) = 0
    BY <2>2 DEF Entry
  <2>4. QED
    BY <2>3, FontRead
<1>3. ASSUME f.fonts # <<>>
      PROVE  \E n : Choice!Declarations(config, "font", n) # {}
  <2> DEFINE n == f.fonts[1].name
             k == Named(f.fonts, n)
  <2>1. 1 \in 1 .. Len(f.fonts)
    BY <1>1, <1>3
  <2>2. f.fonts[1].name = n
    OBVIOUS
  <2> HIDE DEF n
  <2>3. IsNamed(f.fonts, n, k)
    BY <1>1, NamedPlace
  <2> HIDE DEF k
  <2>4. k \in 1 .. Len(f.fonts)
    BY <2>1, <2>2, <2>3 DEF IsNamed
  <2>5. k # 0 /\ f.fonts[k].map # 0
    BY <1>1, <2>4
  <2>6. Entry(f, n) # 0
    BY <2>5 DEF Entry, k
  <2>7. Choice!Declarations(config, "font", n) # {}
    BY <2>6, FontRead
  <2>8. QED
    BY <2>7
<1>4. QED
  BY <1>2, <1>3

LEMMA NothingPresent ==
  ASSUME NEW config \in Seq(FontFiles), Choice!Usable(config), Documents(config) = <<>>,
         NEW n
  PROVE  Choice!Declarations(config, "font", n) = {}
<1> SUFFICES ASSUME NEW p \in Choice!Declarations(config, "font", n)
             PROVE  FALSE
  OBVIOUS
<1> DEFINE s == Among(config, Present(config))
           found == Reverse(s)
           x == config[p[1]]
<1>1. p \in Choice!Places(config, "font")
  BY DEF Choice!Declarations
<1>2. p[1] \in 1 .. Len(config) /\ config[p[1]].present
  BY <1>1, PlaceOf
<1>3. x \in Elements(config) /\ x \in Present(config)
  BY <1>2, PresentAre DEF Elements
<1>4. s \in Seq(FontFiles) /\ Elements(s) = Elements(config) \cap Present(config)
  BY AmongProperties
<1>5. Len(found) = 0 /\ found \in Seq(FontFiles)
  BY DocumentsAre
<1> HIDE DEF s
<1>6. Len(found) = Len(s)
  BY <1>4 DEF Reverse
<1>7. x \in Elements(s)
  BY <1>3, <1>4
<1>8. Len(s) # 0
  BY <1>7 DEF Elements
<1>9. QED
  BY <1>5, <1>6, <1>8

LEMMA TablesInUse ==
  ASSUME NEW config \in Seq(FontFiles), NEW r, r = LfmInit(NoTables, config)
  PROVE  /\ r.users # 0 <=> /\ Choice!Usable(config)
                            /\ \E n : Choice!Declarations(config, "font", n) # {}
         /\ r.users = 0 => r.fonts = <<>>
         /\ r.users # 0 => \A n : FontFor(r, n) # 0
<1> DEFINE docs == Documents(config)
           l == ReadLigatures(NoTables, docs)
           e == ReadEncodings(l, docs)
           f == ReadFonts(e, docs)
           m == ReadMathFonts(f, docs)
           a == ReadAccents(m, docs)
           q == [WithNeutralFont(a) EXCEPT !.users = 1]
           Declares == \E n : Choice!Declarations(config, "font", n) # {}
<1>1. r = IF NoTables.users > 0 \/ docs = <<>> THEN NoTables
          ELSE IF a.fonts = <<>> THEN a ELSE q
  BY DEF LfmInit
<1>2. NoTables.users = 0 /\ NoTables.fonts = <<>>
  BY DEF NoTables
<1>3. EncodingsAreRead(config, l, e)
  BY EncodingsFirst
<1> HIDE DEF e, l
<1>4. FontsAreRead(config, e, f)
  BY <1>3, FontsNext
<1> HIDE DEF f
<1>5. MathFontsAreRead(config, f, m)
  BY <1>4, MathFontsNext
<1> HIDE DEF m
<1>6. /\ a.users = 0 /\ a.fonts = f.fonts /\ a \in Registries
  <2>1. m \in Registries /\ m.users = 0 /\ m.fonts = f.fonts
    BY <1>5 DEF MathFontsAreRead
  <2>2. a = [m EXCEPT !.accents = Reverse(Declared(docs, "accent")) \o @]
    BY DEF ReadAccents
  <2> HIDE DEF a
  <2>3. docs \in Seq(Seq(Declarations))
    BY DocumentsType
  <2> HIDE DEF docs
  <2>4. ReadAccents(m, docs) \in Registries
    BY <2>1, <2>3, AccentsRead
  <2>5. a.users = m.users /\ a.fonts = m.fonts
    BY <2>1, <2>2 DEF Registries, Tables
  <2>6. QED
    BY <2>1, <2>4, <2>5 DEF a
<1>7. q.users = 1
  <2>1. WithNeutralFont(a) \in Registries
    BY <1>6, NeutralAdded
  <2> DEFINE n == WithNeutralFont(a)
  <2> HIDE DEF n
  <2>2. [n EXCEPT !.users = 1].users = 1
    BY <2>1 DEF Registries, Tables, n
  <2>3. QED
    BY <2>2 DEF n
<1>8. docs # <<>> => Choice!Usable(config)
  BY DEF Documents, Choice!Usable
<1> HIDE DEF a, q
<1>9. Choice!Usable(config) => (f.fonts # <<>> <=> Declares)
  BY <1>3, <1>4, SomeFontRead
<1>10. Choice!Usable(config) /\ docs = <<>> => ~ Declares
  BY NothingPresent
<1> HIDE DEF docs, Declares
<1>11. /\ r.users # 0 <=> Choice!Usable(config) /\ Declares
       /\ r.users = 0 => r.fonts = <<>>
  BY <1>1, <1>2, <1>6, <1>7, <1>8, <1>9, <1>10
<1>12. ASSUME r.users # 0, NEW n
       PROVE  FontFor(r, n) # 0
  <2>1. Filled(config, r)
    BY <1>12, TablesFilled
  <2>2. PICK e1, f1 : /\ r.fonts = <<NeutralEntry(Len(e1.maps) + 1)>> \o f1.fonts
                      /\ e1 \in Registries /\ f1 \in Registries
    BY <2>1 DEF Filled, EncodingsAreRead, FontsAreRead
  <2> DEFINE h == NeutralEntry(Len(e1.maps) + 1)
             s == f1.fonts
  <2>3. h \in FontEntry /\ h.name = "LxirNeutralFont" /\ s \in Seq(FontEntry)
    <3>1. e1.maps \in Seq(Map) /\ s \in Seq(FontEntry)
      BY <2>2, TablesHold
    <3>2. Len(e1.maps) + 1 \in Nat
      BY <3>1, LenProperties
    <3>3. QED
      BY <3>1, <3>2 DEF NeutralEntry, FontEntry, Names
  <2> HIDE DEF h, s
  <2>4. Named(<<h>> \o s, "LxirNeutralFont") = 1
    BY <2>3, NamedShifts
  <2>5. Named(r.fonts, "LxirNeutralFont") = 1
    BY <2>2, <2>4 DEF h, s
  <2>6. QED
    BY <2>5 DEF FontFor
<1>13. QED
  BY <1>11, <1>12 DEF Declares

----------------------------------------------------------------------------
(* What is read before the pages.                                          *)

NameIn(x, d) ==
  IF "cmtt10" \in x.flags /\ d.name = "cmtt10" THEN "LxirNeutralFont" ELSE d.name
EntryOf(x, r, d) ==
  [index |-> d.index, space |-> d.space,
   map |-> IF "raw" \in x.flags THEN 0 ELSE r.fonts[FontFor(r, NameIn(x, d))].map]

(* In the file x, the i-th opcode of the postamble defines the font f, and *)
(* is the last of n to do so; the j-th entry of l is the first for f.      *)
Defines(x, i, f) == x.postamble[i].code = "fnt_def" /\ x.postamble[i].index = f
Latest(x, n, f, i) ==
  i \in 1 .. n /\ Defines(x, i, f) /\ \A k \in i + 1 .. n : ~ Defines(x, k, f)
Foremost(l, f, j) ==
  j \in 1 .. Len(l) /\ l[j].index = f /\ \A k \in 1 .. j - 1 : l[k].index # f

(* The list l has the fonts that n opcodes of the postamble declare. *)
Absent(x, n, l, f) ==
  (\A i \in 1 .. n : ~ Defines(x, i, f)) /\ (\A j \in 1 .. Len(l) : l[j].index # f)
InList(x, r, l, n) ==
  \A f \in Int :
    \/ Absent(x, n, l, f)
    \/ \E i, j : /\ Latest(x, n, f, i) /\ Foremost(l, f, j)
                 /\ l[j] = EntryOf(x, r, x.postamble[i])
Plain(x, n) == \A i \in 1 .. n : x.postamble[i].code \in {"fnt_def", "nop"}
Ends(x, n) ==
  n \in 1 .. Len(x.postamble) /\ x.postamble[n].code = "post_post" /\ Plain(x, n - 1)
AllInList(x, r, l) == \E n : Ends(x, n) /\ InList(x, r, l, n - 1)
Provided(x, r, l) == "raw" \in x.flags \/ l = <<>> \/ r.users # 0

Opens(x) ==
  x.flags \cap {"small", "normal"} # {} /\ x.found /\ x.nbpages < 2 ^ 15
Selected(l, f) == f = Unset \/ \E j \in 1 .. Len(l) : l[j].index = f

(* With the invariant of Libdvi: the fonts of the list are the fonts of    *)
(* the postamble, nothing is wrong in a file whose pages are read, and an  *)
(* open text is in the current line.                                       *)
Prepared ==
  /\ status \in {"start", "open"} => at = 0 /\ list = <<>>
  /\ status \in {"start", "open", "postamble", "preamble"} => op.n = 0 /\ font = Unset
  /\ status \in {"postamble", "preamble", "between", "page"} => Opens(file)
  /\ status = "postamble" =>
       /\ at <= Len(file.postamble) /\ Plain(file, at)
       /\ InList(file, registry, list, at) /\ Provided(file, registry, list)
  /\ status \in {"preamble", "between", "page"} =>
       AllInList(file, registry, fonts) /\ Provided(file, registry, fonts)
  /\ status \in {"between", "page"} => file.wrong = "nothing" /\ Selected(fonts, font)
  /\ status = "page" => AtLevel(out, Top.v)

LEMMA DvifontIs ==
  ASSUME NEW d
  PROVE  DvifontOf(d) = EntryOf(file, registry, d)
BY DEF DvifontOf, EntryOf, NameOf, NameIn, flags

LEMMA PreparedFirst == Init => Prepared
BY DEF Init, NewFile, Prepared

(* A definition more, and an entry more before the others. *)
LEMMA DefinitionAdded ==
  ASSUME NEW x, NEW r, NEW l, NEW n \in Nat, InList(x, r, l, n), Len(l) \in Nat,
         x.postamble[n + 1].code = "fnt_def",
         NEW m, Len(m) = Len(l) + 1, m[1] = EntryOf(x, r, x.postamble[n + 1]),
         \A i \in 1 .. Len(l) : m[i + 1] = l[i]
  PROVE  InList(x, r, m, n + 1)
<1> SUFFICES ASSUME NEW f \in Int
             PROVE  \/ Absent(x, n + 1, m, f)
                    \/ \E i, j : /\ Latest(x, n + 1, f, i) /\ Foremost(m, f, j)
                                 /\ m[j] = EntryOf(x, r, x.postamble[i])
  BY DEF InList
<1> DEFINE d == x.postamble[n + 1]
           e == EntryOf(x, r, d)
<1>0. e.index = d.index
  BY DEF EntryOf
<1>1. CASE d.index = f
  <2>1. Latest(x, n + 1, f, n + 1)
    BY <1>1 DEF Latest, Defines
  <2>2. Foremost(m, f, 1) /\ m[1] = EntryOf(x, r, x.postamble[n + 1])
    BY <1>0, <1>1 DEF Foremost
  <2>3. QED
    BY <2>1, <2>2
<1>2. CASE d.index # f
  <2>1. ~ Defines(x, n + 1, f)
    BY <1>2 DEF Defines
  <2>2. ASSUME Absent(x, n, l, f)
        PROVE  Absent(x, n + 1, m, f)
    <3>1. \A i \in 1 .. n + 1 : i \in 1 .. n \/ i = n + 1
      OBVIOUS
    <3>2. \A i \in 1 .. n + 1 : ~ Defines(x, i, f)
      BY <2>1, <2>2, <3>1 DEF Absent
    <3>3. ASSUME NEW j \in 1 .. Len(m)
          PROVE  m[j].index # f
      <4>1. CASE j = 1
        BY <1>0, <1>2, <4>1
      <4>2. CASE j # 1
        <5>1. j - 1 \in 1 .. Len(l) /\ j = (j - 1) + 1
          BY <4>2
        <5>2. m[j] = l[j - 1]
          BY <5>1
        <5>3. QED
          BY <2>2, <5>1, <5>2 DEF Absent
      <4>3. QED
        BY <4>1, <4>2
    <3>4. QED
      BY <3>2, <3>3 DEF Absent
  <2>3. ASSUME NEW i, NEW j, Latest(x, n, f, i), Foremost(l, f, j),
               l[j] = EntryOf(x, r, x.postamble[i])
        PROVE  /\ Latest(x, n + 1, f, i) /\ Foremost(m, f, j + 1)
               /\ m[j + 1] = EntryOf(x, r, x.postamble[i])
    <3>1. i \in 1 .. n /\ i \in 1 .. n + 1
      BY <2>3 DEF Latest
    <3>2. \A k \in i + 1 .. n + 1 : k \in i + 1 .. n \/ k = n + 1
      BY <3>1
    <3>3. Latest(x, n + 1, f, i)
      BY <2>1, <2>3, <3>1, <3>2 DEF Latest
    <3>4. j \in 1 .. Len(l) /\ l[j].index = f /\ j + 1 \in 1 .. Len(m)
      BY <2>3 DEF Foremost
    <3>5. m[j + 1] = l[j]
      BY <3>4
    <3>6. ASSUME NEW k \in 1 .. (j + 1) - 1
          PROVE  m[k].index # f
      <4>1. CASE k = 1
        BY <1>0, <1>2, <4>1
      <4>2. CASE k # 1
        <5>1. k - 1 \in 1 .. Len(l) /\ k = (k - 1) + 1 /\ k - 1 \in 1 .. j - 1
          BY <3>4, <4>2
        <5>2. m[k] = l[k - 1]
          BY <5>1
        <5>3. QED
          BY <2>3, <5>1, <5>2 DEF Foremost
      <4>3. QED
        BY <4>1, <4>2
    <3>7. Foremost(m, f, j + 1)
      <4>1. m[j + 1].index = f
        BY <3>4, <3>5
      <4>2. QED
        BY ONLY <3>4, <3>6, <4>1 DEF Foremost
    <3>8. QED
      BY ONLY <2>3, <3>3, <3>5, <3>7
  <2>4. \/ Absent(x, n, l, f)
        \/ \E i, j : /\ Latest(x, n, f, i) /\ Foremost(l, f, j)
                     /\ l[j] = EntryOf(x, r, x.postamble[i])
    BY DEF InList
  <2>5. QED
    BY ONLY <2>2, <2>3, <2>4
<1>3. QED
  BY <1>1, <1>2

(* What defines no font leaves the list as it is. *)
LEMMA NothingAdded ==
  ASSUME NEW x, NEW r, NEW l, NEW n \in Nat, InList(x, r, l, n),
         x.postamble[n + 1].code # "fnt_def"
  PROVE  InList(x, r, l, n + 1)
<1> SUFFICES ASSUME NEW f \in Int
             PROVE  \/ Absent(x, n + 1, l, f)
                    \/ \E i, j : /\ Latest(x, n + 1, f, i) /\ Foremost(l, f, j)
                                 /\ l[j] = EntryOf(x, r, x.postamble[i])
  BY DEF InList
<1>1. ~ Defines(x, n + 1, f)
  BY DEF Defines
<1>2. \A i \in 1 .. n + 1 : i \in 1 .. n \/ i = n + 1
  OBVIOUS
<1>3. Absent(x, n, l, f) => Absent(x, n + 1, l, f)
  BY <1>1, <1>2 DEF Absent
<1>4. ASSUME NEW i, Latest(x, n, f, i)
      PROVE  Latest(x, n + 1, f, i)
  <2>1. i \in 1 .. n /\ i \in 1 .. n + 1
    BY <1>4 DEF Latest
  <2>2. \A k \in i + 1 .. n + 1 : k \in i + 1 .. n \/ k = n + 1
    BY <2>1
  <2>3. QED
    BY <1>1, <1>4, <2>1, <2>2 DEF Latest
<1>5. QED
  BY <1>3, <1>4 DEF InList

----------------------------------------------------------------------------
(* The steps before the pages and after them say nothing.                  *)

LEMMA SaidNext ==
  ASSUME file' = file
  PROVE  /\ PageSays' = SaidBy(out'.nodes, out'.buffer)
         /\ PagesSay' = [k \in DOMAIN pages' |-> SaidBy(pages'[k], <<>>)]
BY DEF PageSays, PagesSay, SaidBy, Said, Words, flags

LEMMA NothingSaid ==
  ASSUME UNCHANGED <<file, out, pages>>
  PROVE  PageSays' = PageSays /\ PagesSay' = PagesSay
<1>1. /\ PageSays' = SaidBy(out'.nodes, out'.buffer)
      /\ PagesSay' = [k \in DOMAIN pages' |-> SaidBy(pages'[k], <<>>)]
  BY SaidNext
<1>2. QED
  BY <1>1 DEF PageSays, PagesSay

LEMMA OutsideStutters ==
  ASSUME NEW from, NEW st, Outside(from, st), Place' = Place
  PROVE  UNCHANGED Machine!vars
<1>1. UNCHANGED <<file, op, stack, font, out, pages>>
  BY DEF Outside
<1>2. QED
  BY <1>1, NothingSaid DEF Machine!vars

LEMMA Refused ==
  ASSUME NEW from, NEW st, Outside(from, st), ~ Sound, op.n = 0,
         Place = "between", Place' = "given up"
  PROVE  Machine!Next
<1>1. UNCHANGED <<file, op, stack, font, out, pages>>
  BY DEF Outside
<1>2. QED
  BY <1>1, NothingSaid DEF Machine!Next, Machine!Refuse

----------------------------------------------------------------------------
(* What makes a file sound is what is read before its pages.               *)

LEMMA PostambleType ==
  ASSUME File(file)
  PROVE  /\ Len(file.postamble) \in Nat /\ DOMAIN file.postamble = 1 .. Len(file.postamble)
         /\ \A i \in 1 .. Len(file.postamble) :
              file.postamble[i].code = "fnt_def" => file.postamble[i].index \in FontNumbers
<1>1. file.postamble \in Seq(Instructions)
  BY DEF File
<1>2. \A i \in 1 .. Len(file.postamble) : file.postamble[i] \in Instructions
  BY <1>1, ElementOfSeq
<1>3. \A d \in Instructions : d.code = "fnt_def" => d.index \in FontNumbers
  BY DEF Instructions
<1>4. QED
  BY <1>1, <1>2, <1>3, LenProperties

LEMMA DefsBeforeEnd ==
  ASSUME File(file), NEW n, Ends(file, n)
  PROVE  FontDefs = {i \in 1 .. n - 1 : file.postamble[i].code = "fnt_def"}
<1> DEFINE P == file.postamble
<1>1. /\ Len(P) \in Nat /\ DOMAIN P = 1 .. Len(P) /\ n \in 1 .. Len(P)
      /\ P[n].code = "post_post"
      /\ \A i \in 1 .. n - 1 : P[i].code # "post_post"
  BY PostambleType DEF Ends, Plain
<1>2. ASSUME NEW i \in FontDefs
      PROVE  i \in 1 .. n - 1 /\ P[i].code = "fnt_def"
  <2>1. /\ i \in 1 .. Len(P) /\ P[i].code = "fnt_def"
        /\ \A j \in 1 .. i - 1 : P[j].code # "post_post"
    BY <1>1, <1>2 DEF FontDefs
  <2>2. n \notin 1 .. i - 1 /\ i # n
    BY <1>1, <2>1
  <2> HIDE DEF P
  <2>3. QED
    BY <1>1, <2>1, <2>2
<1>3. ASSUME NEW i \in 1 .. n - 1, P[i].code = "fnt_def"
      PROVE  i \in FontDefs
  <2>1. i \in DOMAIN P /\ \A j \in 1 .. i - 1 : j \in 1 .. n - 1
    BY <1>1
  <2>2. QED
    BY <1>1, <1>3, <2>1 DEF FontDefs
<1>4. QED
  BY <1>2, <1>3

LEMMA UsedTables ==
  ASSUME IInv, TablesAreRead, status \notin {"start", "closed"}
  PROVE  /\ registry.users # 0 <=> Choice!Usable(file.config) /\ DeclaresFont
         /\ registry.users = 0 => registry.fonts = <<>>
         /\ registry.users # 0 => \A n : FontFor(registry, n) # 0
<1>1. file.config \in Seq(FontFiles) /\ registry = LfmInit(NoTables, file.config)
  BY DEF IInv, Typed, File, TablesAreRead
<1> DEFINE HasFont(n) == Choice!Declarations(file.config, "font", n) # {}
<1>2. /\ registry.users # 0 <=> Choice!Usable(file.config) /\ \E n : HasFont(n)
      /\ registry.users = 0 => registry.fonts = <<>>
      /\ registry.users # 0 => \A n : FontFor(registry, n) # 0
  BY <1>1, TablesInUse
<1>3. ASSUME NEW n, HasFont(n)
      PROVE  n \in NamesIn("font")
  BY <1>3 DEF NamesIn, Choice!Declarations
<1>4. DeclaresFont <=> \E n : HasFont(n)
  BY <1>3 DEF DeclaresFont
<1>5. QED
  BY <1>2, <1>4

LEMMA SoundWhenRead ==
  ASSUME IInv, TablesAreRead, status \notin {"start", "closed"}, Opens(file),
         file.wrong = "nothing", AllInList(file, registry, fonts),
         Provided(file, registry, fonts)
  PROVE  Sound
<1>1. File(file)
  BY DEF IInv, Typed
<1>2. PICK n : Ends(file, n) /\ InList(file, registry, fonts, n - 1)
  BY DEF AllInList
<1>3. FontDefs = {i \in 1 .. n - 1 : file.postamble[i].code = "fnt_def"}
  BY <1>1, <1>2, DefsBeforeEnd
<1>4. ASSUME fonts = <<>>
      PROVE  FontDefs = {}
  <2> SUFFICES ASSUME NEW i \in FontDefs PROVE FALSE
    OBVIOUS
  <2>1. i \in 1 .. n - 1 /\ file.postamble[i].code = "fnt_def"
    BY <1>3
  <2>2. file.postamble[i].index \in Int
    <3>1. i \in 1 .. Len(file.postamble)
      BY <1>1, <1>2, <2>1, PostambleType DEF Ends
    <3>2. QED
      BY <1>1, <2>1, <3>1, PostambleType, Bounds
  <2>3. Defines(file, i, file.postamble[i].index)
    BY <2>1 DEF Defines
  <2>4. ~ Absent(file, n - 1, fonts, file.postamble[i].index)
    BY <2>1, <2>3 DEF Absent
  <2>5. \A f, j : ~ Foremost(fonts, f, j)
    BY <1>4 DEF Foremost
  <2>6. QED
    BY <1>2, <2>2, <2>4, <2>5 DEF InList
<1>5. \/ "raw" \in flags \/ FontDefs = {}
      \/ Choice!Usable(file.config) /\ DeclaresFont
  BY <1>4, UsedTables DEF Provided, flags
<1>6. \E k \in DOMAIN file.postamble :
        /\ file.postamble[k].code = "post_post"
        /\ \A i \in 1 .. k - 1 : file.postamble[i].code \in {"fnt_def", "nop"}
  BY <1>1, <1>2, PostambleType DEF Ends, Plain
<1>7. QED
  BY <1>5, <1>6 DEF Sound, Opens, flags, nbpages

----------------------------------------------------------------------------
(* Every step outside of the pages prepares them, or refuses the file.     *)

Follows == Prepared' /\ (Machine!Next \/ UNCHANGED Machine!vars)

LEMMA FollowsInit ==
  ASSUME Prepared, InitFonts
  PROVE  Follows
<1>1. Outside("start", "open") /\ UNCHANGED <<at, list>>
  BY DEF InitFonts
<1>2. Place' = Place
  BY <1>1 DEF Outside, Place
<1>3. UNCHANGED Machine!vars
  BY <1>1, <1>2, OutsideStutters
<1>4. Prepared'
  BY <1>1 DEF Outside, Prepared
<1>5. QED
  BY <1>3, <1>4 DEF Follows

LEMMA FollowsClose ==
  ASSUME CloseFonts
  PROVE  Follows
<1>1. Outside("end", "closed")
  BY DEF CloseFonts
<1>2. Place' = Place
  BY <1>1 DEF Outside, Place
<1>3. UNCHANGED Machine!vars
  BY <1>1, <1>2, OutsideStutters
<1>4. Prepared'
  BY <1>1 DEF Outside, Prepared
<1>5. QED
  BY <1>3, <1>4 DEF Follows

LEMMA FollowsOpen ==
  ASSUME IInv, Prepared, OpenFile
  PROVE  Follows
<1> DEFINE st == IF file.flags \cap {"small", "normal"} = {} THEN "DVIERR_INVALID_FLAGS"
                 ELSE IF ~file.found THEN "DVIERR_INVALID_POSTAMBLE"
                 ELSE IF file.nbpages >= 2 ^ 15 THEN "DVIERR_NOMEM"
                 ELSE "postamble"
<1>1. Outside("open", st) /\ UNCHANGED <<fonts, registry, at, list>>
  BY DEF OpenFile
<1>2. /\ status = "open" /\ status' = st /\ file' = file /\ op' = op /\ font' = font
      /\ at = 0 /\ list = <<>> /\ op.n = 0 /\ font = Unset
  BY <1>1 DEF Outside, Prepared
<1>3. File(file)
  BY DEF IInv, Typed
<1>4. CASE Opens(file)
  <2>1. st = "postamble"
    <3>1. file.nbpages \in Nat /\ 2 ^ 15 \in Nat
      BY <1>3 DEF File
    <3>2. ~ (file.nbpages >= 2 ^ 15)
      BY <1>4, <3>1 DEF Opens
    <3>3. QED
      BY <1>4, <3>2 DEF Opens
  <2>2. Place' = Place
    BY <1>2, <2>1 DEF Place
  <2>3. UNCHANGED Machine!vars
    BY <1>1, <2>2, OutsideStutters
  <2>4. at' <= Len(file'.postamble) /\ Plain(file', at')
    BY <1>1, <1>2, <1>3, PostambleType DEF Plain
  <2>5. InList(file', registry', list', at') /\ Provided(file', registry', list')
    BY <1>1, <1>2 DEF InList, Absent, Provided
  <2>6. Prepared'
    BY <1>2, <1>4, <2>1, <2>4, <2>5, <1>1 DEF Prepared
  <2>7. QED
    BY <2>3, <2>6 DEF Follows
<1>5. CASE ~ Opens(file)
  <2>1. st \in {"DVIERR_INVALID_FLAGS", "DVIERR_INVALID_POSTAMBLE", "DVIERR_NOMEM"}
    <3>1. file.nbpages \in Nat /\ 2 ^ 15 \in Nat
      BY <1>3 DEF File
    <3>2. ~ (file.nbpages < 2 ^ 15) => file.nbpages >= 2 ^ 15
      BY <3>1
    <3>3. QED
      BY <1>5, <3>2 DEF Opens
  <2>2. ~ Sound
    BY <1>5 DEF Sound, Opens, flags, nbpages
  <2> HIDE DEF st
  <2>3. Place = "between" /\ Place' = "given up"
    BY <1>2, <2>1 DEF Place
  <2>4. Machine!Next
    BY <1>1, <1>2, <2>2, <2>3, Refused
  <2>5. Prepared'
    BY <1>2, <2>1 DEF Prepared
  <2>6. QED
    BY <2>4, <2>5 DEF Follows
<1>6. QED
  BY <1>4, <1>5

(* A step within the postamble. *)
LEMMA FollowsWithin ==
  ASSUME Prepared, Outside("postamble", "postamble"), UNCHANGED registry,
         at' <= Len(file.postamble), Plain(file, at'),
         InList(file, registry, list', at'), Provided(file, registry, list')
  PROVE  Follows
<1>1. /\ status = "postamble" /\ status' = "postamble"
      /\ file' = file /\ op' = op /\ font' = font /\ Opens(file)
      /\ op.n = 0 /\ font = Unset
  BY DEF Outside, Prepared
<1>2. Place' = Place
  BY <1>1 DEF Place
<1>3. UNCHANGED Machine!vars
  BY <1>2, OutsideStutters
<1>4. Prepared'
  BY <1>1 DEF Prepared
<1>5. QED
  BY <1>3, <1>4 DEF Follows

(* A file that is given up in the postamble or in the preamble. *)
LEMMA FollowsFailing ==
  ASSUME Prepared, NEW from \in {"postamble", "preamble"}, NEW st, Outside(from, st),
         st \notin {"start", "open", "postamble", "preamble", "between", "page",
                    "end", "closed"},
         ~ Sound
  PROVE  Follows
<1>1. status = from /\ status' = st /\ op.n = 0
  BY DEF Outside, Prepared
<1>2. Place = "between" /\ Place' = "given up"
  BY <1>1 DEF Place
<1>3. Machine!Next
  BY <1>1, <1>2, Refused
<1>4. Prepared'
  BY <1>1 DEF Prepared
<1>5. QED
  BY <1>3, <1>4 DEF Follows

LEMMA NextIs ==
  ASSUME File(file), at \in Nat, NextInPostamble.code # "eof"
  PROVE  /\ at + 1 \in 1 .. Len(file.postamble)
         /\ NextInPostamble = file.postamble[at + 1]
<1>1. at < Len(file.postamble)
  BY DEF NextInPostamble
<1>2. QED
  BY <1>1, PostambleType DEF NextInPostamble

LEMMA PlainLonger ==
  ASSUME NEW n \in Nat, NEW x, Plain(x, n),
         x.postamble[n + 1].code \in {"fnt_def", "nop"}
  PROVE  Plain(x, n + 1)
<1>1. \A i \in 1 .. n + 1 : i \in 1 .. n \/ i = n + 1
  OBVIOUS
<1>2. QED
  BY <1>1 DEF Plain

LEMMA FollowsSkip ==
  ASSUME IInv, Prepared, SkipInPostamble
  PROVE  Follows
<1> DEFINE d == NextInPostamble
<1>1. /\ d.code = "nop" /\ at' = at + 1 /\ Outside("postamble", "postamble")
      /\ UNCHANGED <<fonts, registry, list>>
  BY DEF SkipInPostamble
<1>2. status = "postamble" /\ File(file) /\ at \in Nat
  BY <1>1 DEF Outside, IInv, Typed
<1>3. /\ Plain(file, at) /\ InList(file, registry, list, at)
      /\ Provided(file, registry, list)
  BY <1>2 DEF Prepared
<1>4. at + 1 \in 1 .. Len(file.postamble) /\ d = file.postamble[at + 1]
  BY <1>1, <1>2, NextIs
<1>5. Plain(file, at + 1) /\ InList(file, registry, list, at + 1)
  BY <1>1, <1>2, <1>3, <1>4, PlainLonger, NothingAdded
<1>6. at + 1 <= Len(file.postamble)
  BY <1>4
<1>7. QED
  BY <1>1, <1>3, <1>5, <1>6, FollowsWithin

LEMMA FollowsEnd ==
  ASSUME IInv, Prepared, EndPostamble
  PROVE  Follows
<1> DEFINE d == NextInPostamble
<1>1. /\ d.code = "post_post" /\ Outside("postamble", "preamble")
      /\ fonts' = list /\ UNCHANGED registry
  BY DEF EndPostamble
<1>2. /\ status = "postamble" /\ status' = "preamble" /\ file' = file /\ op' = op
      /\ font' = font /\ File(file) /\ at \in Nat
  BY <1>1 DEF Outside, IInv, Typed
<1>3. /\ Plain(file, at) /\ InList(file, registry, list, at)
      /\ Provided(file, registry, list)
      /\ op.n = 0 /\ font = Unset /\ Opens(file)
  BY <1>2 DEF Prepared
<1>4. at + 1 \in 1 .. Len(file.postamble) /\ d = file.postamble[at + 1]
  BY <1>1, <1>2, NextIs
<1>5. (at + 1) - 1 = at
  BY <1>2
<1>6. Ends(file, at + 1) /\ InList(file, registry, list, (at + 1) - 1)
  BY <1>1, <1>3, <1>4, <1>5 DEF Ends
<1>7. AllInList(file', registry', fonts')
  BY <1>1, <1>2, <1>6 DEF AllInList
<1>8. Place' = Place
  BY <1>2 DEF Place
<1>9. UNCHANGED Machine!vars
  BY <1>1, <1>8, OutsideStutters
<1>10. Prepared'
  BY <1>1, <1>2, <1>3, <1>7 DEF Prepared
<1>11. QED
  BY <1>9, <1>10 DEF Follows

LEMMA FollowsBreak ==
  ASSUME IInv, Prepared, BreakInPostamble
  PROVE  Follows
<1> DEFINE d == NextInPostamble
           P == file.postamble
<1>1. /\ d.code \notin {"fnt_def", "nop", "post_post"}
      /\ Outside("postamble", "DVIERR_INVALID_OPCODE")
  BY DEF BreakInPostamble
<1>2. status = "postamble" /\ File(file) /\ at \in Nat
  BY <1>1 DEF Outside, IInv, Typed
<1>3. at <= Len(P) /\ Plain(file, at) /\ Len(P) \in Nat
      /\ DOMAIN P = 1 .. Len(P)
  BY <1>2, PostambleType DEF Prepared
<1>4. ASSUME NEW n \in DOMAIN P, P[n].code = "post_post",
             \A i \in 1 .. n - 1 : P[i].code \in {"fnt_def", "nop"}
      PROVE  FALSE
  <2>1. n \in 1 .. Len(P)
    BY <1>3
  <2> HIDE DEF P
  <2>2. ~ (n \in 1 .. at)
    BY <1>3, <1>4 DEF Plain, P
  <2>3. n >= at + 1 /\ at + 1 \in 1 .. Len(P)
    BY <1>2, <1>3, <2>1, <2>2
  <2>4. d = P[at + 1]
    BY <1>2, <2>3, <1>3 DEF NextInPostamble, P
  <2>5. n # at + 1
    BY <1>1, <1>4, <2>4
  <2>6. at + 1 \in 1 .. n - 1
    BY <1>2, <2>1, <2>3, <2>5
  <2>7. QED
    BY <1>1, <1>4, <2>4, <2>6
<1>5. ~ Sound
  BY <1>4 DEF Sound
<1>6. QED
  BY <1>1, <1>5, FollowsFailing

LEMMA FollowsPreamble ==
  ASSUME IInv, Prepared, ReadPreamble
  PROVE  Follows
<1> DEFINE st == [nothing |-> "between", opcode |-> "DVIERR_INVALID_OPCODE",
                  version |-> "DVIERR_UNKNOWN_VERSION", scale |-> "abort",
                  comment |-> "DVIERR_UNEXPECTED_EOF"][file.wrong]
<1>1. Outside("preamble", st) /\ UNCHANGED <<fonts, registry, at, list>>
  BY DEF ReadPreamble
<1>2. /\ status = "preamble" /\ status' = st /\ file' = file /\ font' = font
      /\ file.wrong \in {"nothing", "opcode", "version", "scale", "comment"}
  BY <1>1 DEF Outside, IInv, Typed, File
<1>3. CASE file.wrong = "nothing"
  <2>1. st = "between"
    BY <1>3
  <2>2. Place' = Place
    BY <1>2, <2>1 DEF Place
  <2>3. UNCHANGED Machine!vars
    BY <1>1, <2>2, OutsideStutters
  <2>4. /\ AllInList(file, registry, fonts) /\ Provided(file, registry, fonts)
        /\ Opens(file) /\ font = Unset
    BY <1>2 DEF Prepared
  <2>5. Prepared'
    BY <1>1, <1>2, <1>3, <2>1, <2>4 DEF Prepared, Selected
  <2>6. QED
    BY <2>3, <2>5 DEF Follows
<1>4. CASE file.wrong # "nothing"
  <2>1. st \in {"DVIERR_INVALID_OPCODE", "DVIERR_UNKNOWN_VERSION", "abort",
                "DVIERR_UNEXPECTED_EOF"}
    BY <1>2, <1>4
  <2>2. ~ Sound
    BY <1>4 DEF Sound
  <2>3. QED
    BY <1>1, <2>1, <2>2, FollowsFailing
<1>5. QED
  BY <1>3, <1>4

LEMMA FollowsDefine ==
  ASSUME IInv, TablesAreRead, Prepared, DefineFont
  PROVE  Follows
<1> DEFINE d == NextInPostamble
           lost == "raw" \notin flags /\ FontFor(registry, NameOf(d)) = 0
           e == DvifontOf(d)
<1>1. /\ d.code = "fnt_def" /\ at' = at + 1 /\ UNCHANGED <<fonts, registry>>
      /\ IF lost THEN Outside("postamble", "exit") /\ UNCHANGED list
         ELSE Outside("postamble", "postamble") /\ list' = <<e>> \o list
  BY DEF DefineFont
<1>2. status = "postamble" /\ File(file) /\ at \in Nat /\ list \in Seq(Dvifont)
      /\ registry \in Registries
  BY <1>1 DEF Outside, IInv, Typed
<1>3. /\ Plain(file, at) /\ InList(file, registry, list, at)
      /\ Provided(file, registry, list)
  BY <1>2 DEF Prepared
<1>4. at + 1 \in 1 .. Len(file.postamble) /\ d = file.postamble[at + 1]
  BY <1>1, <1>2, NextIs
<1>5. Plain(file, at + 1) /\ at + 1 <= Len(file.postamble)
  BY <1>1, <1>2, <1>3, <1>4, PlainLonger
<1>6. /\ registry.users # 0 <=> Choice!Usable(file.config) /\ DeclaresFont
      /\ registry.users = 0 => registry.fonts = <<>>
      /\ registry.users # 0 => \A n : FontFor(registry, n) # 0
  BY <1>2, UsedTables
<1>7. CASE lost
  <2>1. ~ (Choice!Usable(file.config) /\ DeclaresFont)
    BY <1>6, <1>7
  <2>2. at + 1 \in FontDefs
    <3>1. at + 1 \in DOMAIN file.postamble
      BY <1>2, <1>4, PostambleType
    <3>2. \A j \in 1 .. (at + 1) - 1 : file.postamble[j].code # "post_post"
      BY <1>2, <1>3 DEF Plain
    <3>3. QED
      BY <1>1, <1>4, <3>1, <3>2 DEF FontDefs
  <2>3. ~ Sound
    BY <1>7, <2>1, <2>2 DEF Sound
  <2>4. Outside("postamble", "exit")
    BY <1>1, <1>7
  <2>5. QED
    BY <2>3, <2>4, FollowsFailing
<1>8. CASE ~ lost
  <2>1. Outside("postamble", "postamble") /\ list' = <<e>> \o list
    BY <1>1, <1>8
  <2>2. e = EntryOf(file, registry, d)
    BY DvifontIs
  <2>3. /\ Len(list) \in Nat /\ Len(list') = Len(list) + 1 /\ list'[1] = e
        /\ \A i \in 1 .. Len(list) : list'[i + 1] = list[i]
    <3>1. e \in Dvifont
      BY <1>1, <1>2, <1>8, InstructionType, DvifontType
    <3> HIDE DEF e
    <3>2. list \in Seq(Dvifont) /\ list' = <<e>> \o list
      BY <1>2, <2>1
    <3>3. QED
      BY ONLY <3>1, <3>2
  <2>4. InList(file, registry, list', at + 1)
    <3>1. /\ file.postamble[at + 1].code = "fnt_def"
          /\ list'[1] = EntryOf(file, registry, file.postamble[at + 1])
      BY <1>1, <1>4, <2>2, <2>3
    <3> HIDE DEF d, e
    <3>2. QED
      BY <1>2, <1>3, <2>3, <3>1, DefinitionAdded
  <2>5. Provided(file, registry, list')
    <3>1. ASSUME "raw" \notin flags
          PROVE  registry.users # 0
      <4>1. FontFor(registry, NameOf(d)) # 0
        BY <1>8, <3>1
      <4>2. ASSUME registry.fonts = <<>>
            PROVE  FALSE
        <5>1. \A n : Named(registry.fonts, n) = 0
          <6> SUFFICES ASSUME NEW n PROVE Named(registry.fonts, n) = 0
            OBVIOUS
          <6>1. IsNamed(registry.fonts, n, Named(registry.fonts, n))
            BY <4>2, NamedPlace
          <6>2. QED
            BY <4>2, <6>1 DEF IsNamed
        <5>2. QED
          BY <4>1, <5>1 DEF FontFor
      <4>3. QED
        BY <1>6, <4>2
    <3>2. QED
      BY <3>1 DEF Provided, flags
  <2>6. QED
    BY <1>1, <1>5, <2>1, <2>4, <2>5, FollowsWithin
<1>9. QED
  BY <1>7, <1>8

----------------------------------------------------------------------------
(* The pages: what a font is, and what it makes of a character.            *)

LEMMA ForemostFound ==
  ASSUME fonts \in Seq(Dvifont), NEW f, NEW j
  PROVE  /\ Foremost(fonts, f, j) => CheckFont(f) = j
         /\ (\A k \in 1 .. Len(fonts) : fonts[k].index # f) => CheckFont(f) = 0
<1> DEFINE n == Len(fonts)
           I == {i \in 1 .. n : fonts[i].index = f}
<1>1. n \in Nat /\ I \in SUBSET (1 .. n)
  BY LenProperties
<1>2. CheckFont(f) = IF I # {} THEN Min(I) ELSE 0
  BY DEF CheckFont, SelectInSeq
<1>3. ASSUME Foremost(fonts, f, j)
      PROVE  CheckFont(f) = j
  <2>1. j \in I /\ j \in 1 .. n /\ \A k \in I : ~ (k \in 1 .. j - 1)
    BY <1>3 DEF Foremost
  <2> HIDE DEF I, n
  <2>2. Min(I) \in I /\ Min(I) <= j
    BY <1>1, <2>1, MinOf
  <2>3. Min(I) \in 1 .. n /\ Min(I) \notin 1 .. j - 1
    BY <1>1, <2>1, <2>2
  <2> DEFINE m == Min(I)
  <2>4. m \in 1 .. n /\ m <= j /\ m \notin 1 .. j - 1
    BY <2>2, <2>3
  <2> HIDE DEF m
  <2>5. m = j
    BY <1>1, <2>1, <2>4
  <2>6. QED
    BY <1>2, <2>1, <2>5 DEF m
<1>4. ASSUME \A k \in 1 .. Len(fonts) : fonts[k].index # f
      PROVE  CheckFont(f) = 0
  <2>1. I = {}
    BY <1>4
  <2>2. QED
    BY <1>2, <2>1
<1>5. QED
  BY <1>3, <1>4

LEMMA LastDefinition ==
  ASSUME File(file), NEW n, Ends(file, n), NEW f, NEW i, Latest(file, n - 1, f, i)
  PROVE  /\ LastDefOf(f) = file.postamble[i]
         /\ i \in FontDefs /\ file.postamble[i].index = f
<1> DEFINE I == {k \in FontDefs : file.postamble[k].index = f}
           m == n - 1
<1>1. FontDefs = {k \in 1 .. m : file.postamble[k].code = "fnt_def"}
  BY DefsBeforeEnd
<1>2. m \in Nat
  BY PostambleType DEF Ends
<1>3. i \in 1 .. m /\ Defines(file, i, f) /\ \A k \in i + 1 .. m : ~ Defines(file, k, f)
  BY DEF Latest
<1> HIDE DEF m
<1>4. /\ I \in SUBSET (1 .. m) /\ i \in I
      /\ \A k \in I : ~ (k \in i + 1 .. m)
  BY <1>1, <1>3 DEF Defines
<1>5. LastDefOf(f) = file.postamble[Max(I)]
  BY DEF LastDefOf
<1> HIDE DEF I
<1>6. Max(I) \in I /\ Max(I) >= i
  BY <1>2, <1>4, MaxOf
<1> DEFINE k == Max(I)
<1>7. k \in 1 .. m /\ k \notin i + 1 .. m /\ k >= i
  BY <1>4, <1>6
<1> HIDE DEF k
<1>8. k = i
  BY <1>2, <1>3, <1>7
<1>9. QED
  BY <1>4, <1>5, <1>8 DEF I, k

(* Of the fonts of the postamble, and of no others, the list of fonts has  *)
(* an entry; its map is that of the last definition.                       *)
LEMMA FontIs ==
  ASSUME IInv, Prepared, status \in {"between", "page"}, NEW f \in Int
  PROVE  /\ CheckFont(f) # 0 <=> f \in DOMAIN Glyphs
         /\ f \in DOMAIN Glyphs => Glyphs[f] = GlyphsOf(f)
         /\ CheckFont(f) # 0 /\ "raw" \notin flags =>
              MapOf(f) = MapNamed(NameOf(LastDefOf(f)))
         /\ (\E j \in 1 .. Len(fonts) : fonts[j].index = f) <=> CheckFont(f) # 0
<1>1. File(file) /\ fonts \in Seq(Dvifont)
  BY DEF IInv, Typed
<1>2. PICK n : Ends(file, n) /\ InList(file, registry, fonts, n - 1)
  BY DEF Prepared, AllInList
<1>3. FontDefs = {i \in 1 .. n - 1 : file.postamble[i].code = "fnt_def"}
  BY <1>1, <1>2, DefsBeforeEnd
<1> DEFINE F == {file.postamble[i].index : i \in FontDefs}
<1>4. CASE Absent(file, n - 1, fonts, f)
  <2>1. f \notin F
    BY <1>3, <1>4 DEF Absent, Defines
  <2>2. f \notin DOMAIN Glyphs
    BY <2>1 DEF Glyphs
  <2>3. CheckFont(f) = 0 /\ ~ \E j \in 1 .. Len(fonts) : fonts[j].index = f
    BY <1>1, <1>4, ForemostFound DEF Absent
  <2>4. QED
    BY <2>2, <2>3
<1>5. CASE \E i, j : /\ Latest(file, n - 1, f, i) /\ Foremost(fonts, f, j)
                     /\ fonts[j] = EntryOf(file, registry, file.postamble[i])
  <2>1. PICK i, j : /\ Latest(file, n - 1, f, i) /\ Foremost(fonts, f, j)
                    /\ fonts[j] = EntryOf(file, registry, file.postamble[i])
    BY <1>5
  <2>2. LastDefOf(f) = file.postamble[i] /\ f \in F
    BY <1>1, <1>2, <2>1, LastDefinition
  <2>3. CheckFont(f) = j /\ j \in 1 .. Len(fonts) /\ j # 0 /\ fonts[j].index = f
    <3>1. CheckFont(f) = j
      BY <1>1, <2>1, ForemostFound
    <3>2. j \in 1 .. Len(fonts) /\ fonts[j].index = f
      BY ONLY <2>1 DEF Foremost
    <3>3. j # 0
      BY ONLY <3>2
    <3>4. QED
      BY ONLY <3>1, <3>2, <3>3
  <2>4. fonts # <<>>
    BY <1>1, <2>3
  <2>5. ~ (registry.users = 0 /\ "raw" \notin flags)
    BY <2>4 DEF Prepared, Provided, flags
  <2>6. Glyphs = [g \in F |-> GlyphsOf(g)]
    BY <2>5 DEF Glyphs
  <2> HIDE DEF F
  <2>7. f \in DOMAIN Glyphs /\ Glyphs[f] = GlyphsOf(f)
    BY <2>2, <2>6
  <2>8. ASSUME "raw" \notin flags
        PROVE  MapOf(f) = MapNamed(NameOf(LastDefOf(f)))
    <3>1. fonts[j] = DvifontOf(LastDefOf(f))
      BY <2>1, <2>2, DvifontIs
    <3>2. fonts[j].map = registry.fonts[FontFor(registry, NameOf(LastDefOf(f)))].map
      BY <2>8, <3>1 DEF DvifontOf
    <3>3. QED
      BY <2>3, <3>2 DEF MapOf, MapNamed
  <2>9. QED
    BY <2>3, <2>7, <2>8
<1>6. QED
  BY <1>2, <1>4, <1>5 DEF InList

(* A character of a page is refused just if its font has no glyph for it.  *)
LEMMA GlyphIs ==
  ASSUME IInv, Prepared, status = "page", font # Unset, NEW ch \in Chars
  PROVE  /\ font \in DOMAIN Glyphs
         /\ ("raw" \in flags \/ Known(ch)) <=> ch \in DOMAIN Glyphs[font]
         /\ ch \in DOMAIN Glyphs[font] => Glyphs[font][ch] = Words(Glyph(ch))
<1>1. font \in Int
  BY InPage
<1>2. CheckFont(font) # 0
  BY <1>1, FontIs DEF Prepared, Selected
<1>3. font \in DOMAIN Glyphs /\ Glyphs[font] = GlyphsOf(font)
      /\ ("raw" \notin flags => MapOf(font) = MapNamed(NameOf(LastDefOf(font))))
  BY <1>1, <1>2, FontIs
<1>4. CASE "raw" \in flags
  <2>1. GlyphsOf(font) = [a \in Chars |-> Words(<<a % 256>>)]
    BY <1>4 DEF GlyphsOf
  <2>2. Glyph(ch) = <<ch % 256>>
    BY <1>4 DEF Glyph
  <2>3. QED
    BY <1>3, <1>4, <2>1, <2>2
<1>5. CASE "raw" \notin flags
  <2> DEFINE map == MapOf(font)
  <2>1. GlyphsOf(font) = [a \in Chars \cap DOMAIN map |-> Words(map[a])]
    BY <1>3, <1>5 DEF GlyphsOf
  <2>2. Glyph(ch) = map[ch] /\ (Known(ch) <=> ch \in DOMAIN map)
    BY <1>2, <1>5 DEF Glyph, Known
  <2>3. QED
    BY <1>3, <1>5, <2>1, <2>2
<1>6. QED
  BY <1>4, <1>5

----------------------------------------------------------------------------
(* The steps of the pages.                                                 *)

LEMMA PreparedPage ==
  ASSUME Prepared, status \in {"between", "page"},
         status' \notin {"start", "open", "postamble", "preamble"},
         UNCHANGED <<file, registry, fonts>>, Selected(fonts, font'),
         status' = "page" => AtLevel(out', Last(stack').v)
  PROVE  Prepared'
BY DEF Prepared, AtLevel, Top, IsOpen, Opens, AllInList, Provided, Selected

LEMMA SoundPages ==
  ASSUME IInv, TablesAreRead, Prepared, status \in {"between", "page"}
  PROVE  Sound /\ Place = status
<1>1. /\ Opens(file) /\ file.wrong = "nothing" /\ AllInList(file, registry, fonts)
      /\ Provided(file, registry, fonts)
  BY DEF Prepared
<1>2. QED
  BY <1>1, SoundWhenRead DEF Place

LEMMA Reads ==
  ASSUME NEW code, NEW a, Read(code, a)
  PROVE  /\ UNCHANGED <<file, registry, fonts>>
         /\ Machine!Read(code, a) /\ op'.arg = a
BY DEF Read, Machine!Read

(* An opcode that the page goes on after. *)
LEMMA FollowsOpcode ==
  ASSUME IInv, Prepared, NEW code, NEW a, NEW o, NEW st, Opcode(code, a, o, st),
         AtLevel(o, Last(st).v), NEW what, Says(o) = Says(out) \o what
  PROVE  Prepared' /\ Machine!Does(code, a, what, st)
<1>1. /\ Read(code, a) /\ status = "page" /\ out' = o /\ stack' = st
      /\ UNCHANGED <<font, pages, status>>
  BY DEF Opcode
<1>2. UNCHANGED <<file, registry, fonts>> /\ Machine!Read(code, a)
  BY <1>1, Reads
<1>3. Selected(fonts, font)
  BY <1>1 DEF Prepared
<1>4. Prepared'
  BY <1>1, <1>2, <1>3, PreparedPage
<1>5. PageSays' = Says(o) /\ PageSays = Says(out) /\ PagesSay' = PagesSay
  BY <1>1, <1>2, SaidNext DEF Says, PageSays, PagesSay
<1>6. Place = "page" /\ Place' = "page"
  BY <1>1 DEF Place
<1>7. QED
  BY <1>1, <1>2, <1>4, <1>5, <1>6 DEF Machine!Does

(* A page or a file that is given up. *)
LEMMA FollowsError ==
  ASSUME IInv, TablesAreRead, Prepared, status \in {"between", "page"},
         NEW code \in {"set", "put", "pop", "eop", "fnt", "bop", "other", "eof"},
         NEW a, Read(code, a), Machine!Illegal(code, a), pages' = pages,
         status' \notin {"start", "open", "postamble", "preamble", "between", "page",
                         "end", "closed"}
  PROVE  Follows
<1>1. UNCHANGED <<file, registry, fonts>> /\ Machine!Read(code, a) /\ op'.arg = a
  BY Reads
<1>2. Prepared'
  BY <1>1 DEF Prepared
<1>3. PagesSay' = PagesSay
  BY <1>1, SaidNext DEF PagesSay
<1>4. Place \in {"between", "page"} /\ Place' = "given up"
  BY DEF Place
<1>5. a \in {op'.arg}
  BY <1>1
<1>6. Machine!GiveUp
  BY <1>1, <1>3, <1>4, <1>5 DEF Machine!GiveUp
<1>7. Machine!Next
  BY <1>6, SoundPages DEF Machine!Next, Machine!ReadPages
<1>8. QED
  BY <1>2, <1>7 DEF Follows

LEMMA TopMoved ==
  ASSUME stack \in Seq(Position), stack # <<>>, NEW p \in Position
  PROVE  Last(WithTop(p)) = p /\ WithTop(Top) = stack
<1> DEFINE n == Len(stack)
<1>1. /\ Front(stack) \in Seq(Position) /\ Len(Front(stack)) = n - 1
      /\ \A i \in 1 .. n - 1 : Front(stack)[i] = stack[i]
  BY FrontOf
<1>2. Top \in Position /\ Top = stack[n] /\ n \in Nat /\ n # 0
  BY LastOf DEF Top
<1> HIDE DEF n
<1>3. ASSUME NEW q \in Position
      PROVE  /\ WithTop(q) \in Seq(Position) /\ Len(WithTop(q)) = n
             /\ WithTop(q)[n] = q /\ \A i \in 1 .. n - 1 : WithTop(q)[i] = stack[i]
  <2> DEFINE f == Front(stack)
             r == Append(f, q)
  <2>1. r = WithTop(q)
    BY DEF WithTop
  <2> HIDE DEF f
  <2>2. /\ r \in Seq(Position) /\ Len(r) = Len(f) + 1 /\ r[Len(f) + 1] = q
        /\ \A i \in 1 .. Len(f) : r[i] = f[i]
    BY <1>1, AppendProperties DEF f
  <2>3. Len(f) + 1 = n /\ Len(f) = n - 1
    BY <1>1, <1>2 DEF f
  <2>4. QED
    BY <1>1, <2>1, <2>2, <2>3 DEF f
<1>4. Last(WithTop(p)) = p
  BY <1>3 DEF Last
<1>5. WithTop(Top) = stack
  <2> DEFINE r == WithTop(Top)
  <2>1. /\ r \in Seq(Position) /\ Len(r) = Len(stack) /\ r[n] = stack[n]
        /\ \A i \in 1 .. n - 1 : r[i] = stack[i]
    BY <1>2, <1>3 DEF n
  <2> HIDE DEF r
  <2>2. \A i \in 1 .. Len(stack) : r[i] = stack[i]
    <3>1. \A i \in 1 .. n : i \in 1 .. n - 1 \/ i = n
      BY <1>2
    <3>2. QED
      BY <2>1, <3>1 DEF n
  <2>3. r = stack
    BY <2>1, <2>2, SeqEqual
  <2>4. QED
    BY <2>3 DEF r
<1>6. QED
  BY <1>4, <1>5

LEMMA Continues ==
  ASSUME IInv, TablesAreRead, Prepared, status \in {"between", "page"},
         Prepared', Machine!ReadPages
  PROVE  Follows
BY SoundPages DEF Follows, Machine!Next

LEMMA AfterNode ==
  ASSUME NEW o, ~ IsOpen(o.nodes), NEW v
  PROVE  AtLevel(o, v)
BY DEF AtLevel

(* DviMachine's positions are those of Libdvi. *)
LEMMA SameTop == Machine!Top = Top /\ \A p : Machine!WithTop(p) = WithTop(p)
BY DEF Machine!Top, Machine!WithTop, Machine!Last, Machine!Front, Top, WithTop, Last, Front

LEMMA FollowsRule ==
  ASSUME IInv, TablesAreRead, Prepared, status = "page",
         PutRule \/ \E a \in Moves : SetRule(a)
  PROVE  Follows
<1> DEFINE o == AppendRule(out, Top)
           what == <<[rule |-> <<Top.h, Top.v>>]>>
           st(a) == WithTop([Top EXCEPT !.h = @ + a])
<1>1. /\ Good(out) /\ BUFFER_SIZE \in Nat /\ stack \in Seq(Position) /\ stack # <<>>
      /\ Top \in Position
  BY InPage
<1>2. Says(o) = Says(out) \o what /\ \A v : AtLevel(o, v)
  BY <1>1, RuleSays, AfterNode
<1>3. PICK a \in Moves \cup {0} : Opcode("rule", a, o, st(a))
  <2>1. CASE PutRule
    <3>1. Top.h \in Int /\ [Top EXCEPT !.h = @ + 0] = Top
      BY <1>1 DEF Position, State
    <3>2. WithTop(Top) = stack
      BY <1>1, TopMoved
    <3>3. st(0) = stack
      BY <3>1, <3>2
    <3>4. Opcode("rule", 0, o, st(0))
      BY <2>1, <3>3 DEF PutRule
    <3>5. QED
      BY <3>4
  <2>2. CASE \E a \in Moves : SetRule(a)
    BY <2>2 DEF SetRule
  <2>3. QED
    BY <2>1, <2>2
<1> HIDE DEF o
<1>4. Prepared' /\ Machine!Does("rule", a, what, st(a))
  BY <1>2, <1>3, FollowsOpcode
<1>5. Machine!Rule(a)
  BY <1>4, SameTop DEF Machine!Rule
<1>6. Machine!ReadPages
  BY <1>5 DEF Machine!ReadPages
<1>7. QED
  BY <1>4, <1>6, Continues

LEMMA FollowsXxx ==
  ASSUME IInv, TablesAreRead, Prepared, status = "page", Xxx
  PROVE  Follows
<1> DEFINE o == AppendXxx(out)
<1>1. Good(out) /\ BUFFER_SIZE \in Nat
  BY InPage
<1>2. Says(o) = Says(out) \o <<[special |-> TRUE]>> /\ \A v : AtLevel(o, v)
  BY <1>1, XxxSays, AfterNode
<1>3. Opcode("xxx", 0, o, stack)
  BY DEF Xxx
<1> HIDE DEF o
<1>4. Prepared' /\ Machine!Does("xxx", 0, <<[special |-> TRUE]>>, stack)
  BY <1>2, <1>3, FollowsOpcode
<1>5. Machine!ReadPages
  BY <1>4 DEF Machine!ReadPages, Machine!Special
<1>6. QED
  BY <1>4, <1>5, Continues

LEMMA FollowsControl ==
  ASSUME IInv, TablesAreRead, Prepared, status = "page", NEW code, NEW a,
         NEW k \in Controls, NEW b \in Int, NEW st,
         Opcode(code, a, AppendControl(out, k, b), st)
  PROVE  Prepared' /\ Machine!Does(code, a, <<Machine!Control(k, b)>>, st)
<1> DEFINE o == AppendControl(out, k, b)
           what == <<[control |-> k, param |-> b]>>
<1>1. Good(out) /\ BUFFER_SIZE \in Nat
  BY InPage
<1>2. Says(o) = Says(out) \o what /\ \A v : AtLevel(o, v)
  BY <1>1, ControlSays, AfterNode
<1>3. Opcode(code, a, o, st)
  OBVIOUS
<1> HIDE DEF o
<1>4. Prepared' /\ Machine!Does(code, a, what, st)
  BY <1>2, <1>3, FollowsOpcode
<1>5. QED
  BY <1>4 DEF Machine!Control

LEMMA FollowsPush ==
  ASSUME IInv, TablesAreRead, Prepared, status = "page", Push
  PROVE  Follows
<1>1. Prepared' /\ Machine!Does("push", 0, <<Machine!Control("push", 0)>>, Append(stack, Top))
  <2>1. "push" \in Controls /\ 0 \in Int
    BY DEF Controls
  <2>2. Opcode("push", 0, AppendControl(out, "push", 0), Append(stack, Top))
    BY DEF Push
  <2>3. QED
    BY <2>1, <2>2, FollowsControl
<1>2. Machine!ReadPages
  BY <1>1, SameTop DEF Machine!ReadPages, Machine!Push
<1>3. QED
  BY <1>1, <1>2, Continues

LEMMA FollowsPop ==
  ASSUME IInv, TablesAreRead, Prepared, status = "page", Pop
  PROVE  Follows
<1> DEFINE n == Len(stack)
<1>0. n \in Nat /\ n # 0
  BY InPage, LenProperties
<1> HIDE DEF n
<1>1. CASE n > 1
  <2>1. Prepared' /\ Machine!Does("pop", 0, <<Machine!Control("pop", 0)>>, Front(stack))
    <3>1. "pop" \in Controls /\ 0 \in Int
      BY DEF Controls
    <3>2. Opcode("pop", 0, AppendControl(out, "pop", 0), Front(stack))
      BY <1>1 DEF Pop, n
    <3>3. QED
      BY <3>1, <3>2, FollowsControl
  <2>2. Machine!ReadPages
    BY <1>1, <2>1 DEF Machine!ReadPages, Machine!Pop, Machine!Front, Front, n
  <2>3. QED
    BY <2>1, <2>2, Continues
<1>2. CASE ~ (n > 1)
  <2>1. /\ Read("pop", 0) /\ status' = "DVIERR_INVALID_POP" /\ pages' = pages
    BY <1>2 DEF Pop, n
  <2>2. Machine!Illegal("pop", 0)
    <3>1. n = 1
      BY <1>0, <1>2
    <3>2. QED
      BY <3>1 DEF Machine!Illegal, n
  <2>3. QED
    BY <2>1, <2>2, FollowsError
<1>3. QED
  BY <1>1, <1>2

LEMMA FollowsDown ==
  ASSUME IInv, TablesAreRead, Prepared, status = "page", NEW a \in Moves, Down(a)
  PROVE  Follows
<1> DEFINE st == WithTop([Top EXCEPT !.v = @ + a])
<1>1. Prepared' /\ Machine!Does("down", a, <<Machine!Control("down", a)>>, st)
  <2>1. "down" \in Controls /\ a \in Int
    BY InputAssumption DEF Controls
  <2>2. Opcode("down", a, AppendControl(out, "down", a), st)
    BY DEF Down
  <2>3. QED
    BY <2>1, <2>2, FollowsControl
<1>2. Machine!Down(a)
  BY <1>1, SameTop DEF Machine!Down
<1>3. Machine!ReadPages
  BY <1>2 DEF Machine!ReadPages
<1>4. QED
  BY <1>1, <1>3, Continues

LEMMA FollowsSetAlong ==
  ASSUME IInv, TablesAreRead, Prepared, status = "page", NEW r \in {"y", "z"},
         NEW a \in Moves, SetAlong(r, a)
  PROVE  Follows
<1> DEFINE st == WithTop([Top EXCEPT ![r] = a, !.v = @ + a])
<1>1. Prepared' /\ Machine!Does(r, a, <<Machine!Control(r, a)>>, st)
  <2>1. r \in Controls /\ a \in Int
    BY InputAssumption DEF Controls
  <2>2. Opcode(r, a, AppendControl(out, r, a), st)
    BY DEF SetAlong
  <2>3. QED
    BY <2>1, <2>2, FollowsControl
<1>2. Machine!Along(r, a)
  BY <1>1, SameTop DEF Machine!Along
<1>3. Machine!ReadPages
  BY <1>2 DEF Machine!ReadPages
<1>4. QED
  BY <1>1, <1>3, Continues

LEMMA NothingMore ==
  ASSUME NEW o, Good(o)
  PROVE  Says(o) \o <<>> = Says(o)
<1>1. Says(o) \in Seq(Item)
  BY ItemsType DEF Good, Page, Says
<1>2. QED
  BY <1>1

LEMMA FollowsUseAlong ==
  ASSUME IInv, TablesAreRead, Prepared, status = "page", NEW r \in {"y", "z"}, UseAlong(r)
  PROVE  Follows
<1> DEFINE st == WithTop([Top EXCEPT !.v = @ + Top[r]])
           o == CloseText(out)
<1>1. Good(out) /\ BUFFER_SIZE \in Nat
  BY InPage
<1>2. Says(o) = Says(out) \o <<>> /\ \A v : AtLevel(o, v)
  BY <1>1, ClosedSays, ClosedText, NothingMore, AfterNode
<1>3. Opcode(r, 0, o, st)
  BY DEF UseAlong
<1> HIDE DEF o
<1>4. Prepared' /\ Machine!Does(r, 0, <<>>, st)
  BY <1>2, <1>3, FollowsOpcode
<1>5. Machine!AgainDown(r)
  BY <1>4, SameTop DEF Machine!AgainDown
<1>6. Machine!ReadPages
  BY <1>5 DEF Machine!ReadPages
<1>7. QED
  BY <1>4, <1>6, Continues

LEMMA FollowsSkipped ==
  ASSUME IInv, TablesAreRead, Prepared, status = "page", Skipped
  PROVE  Follows
<1>1. PICK code \in {"nop", "fnt_def"} : Opcode(code, 0, out, stack)
  BY DEF Skipped
<1>2. Says(out) = Says(out) \o <<>>
  BY InPage, NothingMore
<1>3. AtLevel(out, Last(stack).v)
  BY DEF Prepared, Top
<1>4. Prepared' /\ Machine!Does(code, 0, <<>>, stack)
  BY <1>1, <1>2, <1>3, FollowsOpcode
<1>5. Machine!ReadPages
  BY <1>4 DEF Machine!ReadPages, Machine!Nothing
<1>6. QED
  BY <1>4, <1>5, Continues

(* A skip that is a space adds one, but under "normal". *)
LEMMA SkipSays ==
  ASSUME Opens(file), NEW o, Good(o), NEW p \in Position, font \in Int,
         p.v = Top.v, AtLevel(o, p.v), NEW a, NEW skip \in SpaceSkip(a),
         NEW q, q = WithSpace(o, p, skip)
  PROVE  /\ Says(q) = Says(o) \o Machine!Space(a)
         /\ AtLevel(q, p.v)
<1>1. Says(o) = Says(o) \o <<>>
  BY NothingMore
<1>2. CASE "normal" \in flags
  <2>1. Machine!Space(a) = <<>>
    BY <1>2 DEF Machine!Space, Spaces
  <2>2. CASE skip
    BY <1>1, <1>2, <2>1, <2>2, SpaceSays DEF WithSpace
  <2>3. CASE ~ skip
    BY <1>1, <2>1, <2>3 DEF WithSpace
  <2>4. QED
    BY <2>2, <2>3
<1>3. CASE "normal" \notin flags /\ a = 1
  <2>1. "small" \in flags
    BY <1>3 DEF Opens, flags
  <2>2. skip
    BY <1>3, <2>1, Zenon DEF SpaceSkip
  <2>3. Machine!Space(a) = <<[byte |-> SPACE, font |-> font, v |-> p.v]>>
    BY <1>3, SameTop DEF Machine!Space, Machine!Byte, Spaces
  <2>4. q = AppendSpace(o, p)
    BY <2>2 DEF WithSpace
  <2>5. QED
    BY <1>3, <2>3, <2>4, SpaceSays
<1>4. CASE "normal" \notin flags /\ a # 1
  <2>1. ~ skip
    BY <1>4, Zenon DEF SpaceSkip
  <2>2. Machine!Space(a) = <<>>
    BY <1>4 DEF Machine!Space, Spaces
  <2>3. QED
    BY <1>1, <2>1, <2>2 DEF WithSpace
<1>5. QED
  BY <1>2, <1>3, <1>4

LEMMA SpaceType ==
  ASSUME IInv, status = "page", NEW a
  PROVE  Machine!Space(a) \in Seq(Item) /\ <<>> \o Machine!Space(a) = Machine!Space(a)
<1> DEFINE x == [byte |-> SPACE, font |-> font, v |-> Top.v]
           I == Item
           y == Machine!Space(a)
<1>1. x \in I
  <2>1. Top.v \in Int /\ font \in Int /\ SPACE \in 0 .. 255
    BY InPage DEF Position, State, SPACE
  <2>2. QED
    BY <2>1 DEF Item, Byte
<1>2. y = <<>> \/ y = <<x>>
  <2>1. Machine!Byte(SPACE) = x
    BY SameTop DEF Machine!Byte
  <2> HIDE DEF x
  <2>2. QED
    BY <2>1 DEF Machine!Space
<1> HIDE DEF x, y, I
<1>3. y \in Seq(I)
  <2>1. <<>> \in Seq(I) /\ <<x>> \in Seq(I)
    BY ONLY <1>1
  <2>2. QED
    BY ONLY <1>2, <2>1
<1>4. <<>> \o y = y
  BY ONLY <1>3
<1>5. QED
  BY <1>3, <1>4 DEF y, I

LEMMA FollowsAcross ==
  ASSUME IInv, TablesAreRead, Prepared, status = "page", NEW code, NEW b,
         NEW o, Good(o), NEW what, Says(o) = Says(out) \o what, what \in Seq(Item),
         NEW p \in Position, p.v = Top.v, AtLevel(o, p.v),
         NEW u \in Position, u.v = Top.v,
         NEW a, NEW skip \in SpaceSkip(a),
         Opcode(code, b, WithSpace(o, p, skip), WithTop(u))
  PROVE  Prepared' /\ Machine!Does(code, b, what \o Machine!Space(a), WithTop(u))
<1> DEFINE q == WithSpace(o, p, skip)
<1>1. /\ Good(out) /\ font \in Int /\ stack \in Seq(Position) /\ stack # <<>>
      /\ Opens(file)
  BY InPage DEF Prepared
<1>2. Says(q) = Says(o) \o Machine!Space(a) /\ AtLevel(q, p.v)
  BY <1>1, SkipSays
<1>3. Says(out) \in Seq(Item) /\ Machine!Space(a) \in Seq(Item)
  BY <1>1, SpaceType, ItemsType DEF Good, Page, Says
<1>4. Says(q) = Says(out) \o (what \o Machine!Space(a))
  <2> DEFINE x == Says(out)
             y == Machine!Space(a)
  <2> DEFINE I == Item
  <2>1. x \in Seq(I) /\ y \in Seq(I) /\ what \in Seq(I)
    BY <1>3
  <2>2. Says(q) = (x \o what) \o y
    BY <1>2
  <2> HIDE DEF x, y, q, I
  <2>3. (x \o what) \o y = x \o (what \o y)
    BY ONLY <2>1, ConcatAssociative
  <2>4. Says(q) = x \o (what \o y)
    BY ONLY <2>2, <2>3
  <2>5. QED
    BY <2>4 DEF x, y
<1>5. Last(WithTop(u)).v = p.v
  BY <1>1, TopMoved
<1>6. Opcode(code, b, q, WithTop(u))
  OBVIOUS
<1> HIDE DEF q
<1>7. QED
  BY <1>2, <1>4, <1>5, <1>6, FollowsOpcode

LEMMA ControlItem ==
  ASSUME NEW k \in Controls, NEW a \in Int
  PROVE  <<Machine!Control(k, a)>> \in Seq(Item)
<1> DEFINE x == [control |-> k, param |-> a]
           I == Item
<1>1. x \in I
  BY DEF Item
<1>2. Machine!Control(k, a) = x
  BY DEF Machine!Control
<1> HIDE DEF x, I
<1>3. <<x>> \in Seq(I)
  BY <1>1
<1>4. QED
  BY <1>2, <1>3 DEF I

LEMMA ControlGood ==
  ASSUME IInv, status = "page", NEW k \in Controls, NEW a \in Int,
         NEW o, o = AppendControl(out, k, a)
  PROVE  /\ Good(o) /\ Says(o) = Says(out) \o <<Machine!Control(k, a)>>
         /\ \A v : AtLevel(o, v)
<1>1. Good(out) /\ BUFFER_SIZE \in Nat
  BY InPage
<1>2. QED
  BY <1>1, NodesAdded, ControlSays, AfterNode DEF Machine!Control

LEMMA FollowsRight ==
  ASSUME IInv, TablesAreRead, Prepared, status = "page", NEW a \in Moves, Right(a)
  PROVE  Follows
<1> DEFINE o == AppendControl(out, "right", a)
           what == <<Machine!Control("right", a)>>
           u == [Top EXCEPT !.h = @ + a]
<1>1. PICK skip \in SpaceSkip(a) : Opcode("right", a, WithSpace(o, Top, skip), WithTop(u))
  BY DEF Right
<1>2. "right" \in Controls /\ a \in Int /\ Top \in Position
  BY InPage, InputAssumption DEF Controls
<1>3. u \in Position /\ u.v = Top.v
  <2>1. u.v = Top.v
    BY <1>2 DEF Position, State
  <2>2. QED
    BY <1>2, <2>1, Moved
<1>4. Good(o) /\ Says(o) = Says(out) \o what /\ AtLevel(o, Top.v) /\ what \in Seq(Item)
  BY <1>2, ControlGood, ControlItem
<1> HIDE DEF o, what, u
<1>5. Prepared' /\ Machine!Does("right", a, what \o Machine!Space(a), WithTop(u))
  BY <1>1, <1>2, <1>3, <1>4, FollowsAcross
<1>6. Machine!Right(a)
  BY <1>5, SameTop DEF Machine!Right, what, u
<1>7. Machine!ReadPages
  BY <1>6 DEF Machine!ReadPages
<1>8. QED
  BY <1>5, <1>7, Continues

LEMMA FollowsSetAcross ==
  ASSUME IInv, TablesAreRead, Prepared, status = "page", NEW r \in {"w", "x"},
         NEW a \in Moves, SetAcross(r, a)
  PROVE  Follows
<1> DEFINE o == AppendControl(out, r, a)
           what == <<Machine!Control(r, a)>>
           u == [Top EXCEPT ![r] = a, !.h = @ + a]
<1>1. PICK skip \in SpaceSkip(a) : Opcode(r, a, WithSpace(o, u, skip), WithTop(u))
  BY DEF SetAcross
<1>2. r \in Controls /\ a \in Int /\ Top \in Position
  BY InPage, InputAssumption DEF Controls
<1>3. u \in Position /\ u.v = Top.v
  <2>1. u.v = Top.v
    BY <1>2 DEF Position, State
  <2>2. QED
    BY <1>2, <2>1, Moved
<1>4. Good(o) /\ Says(o) = Says(out) \o what /\ AtLevel(o, u.v) /\ what \in Seq(Item)
  BY <1>2, ControlGood, ControlItem
<1> HIDE DEF o, what, u
<1>5. Prepared' /\ Machine!Does(r, a, what \o Machine!Space(a), WithTop(u))
  BY <1>1, <1>2, <1>3, <1>4, FollowsAcross
<1>6. Machine!Across(r, a)
  BY <1>5, SameTop DEF Machine!Across, what, u
<1>7. Machine!ReadPages
  BY <1>6 DEF Machine!ReadPages
<1>8. QED
  BY <1>5, <1>7, Continues

LEMMA FollowsUseAcross ==
  ASSUME IInv, TablesAreRead, Prepared, status = "page", NEW r \in {"w", "x"},
         UseAcross(r)
  PROVE  Follows
<1> DEFINE u == [Top EXCEPT !.h = @ + Top[r]]
<1>1. PICK skip \in SpaceSkip(Top[r]) : Opcode(r, 0, WithSpace(out, u, skip), WithTop(u))
  BY DEF UseAcross
<1>2. Top \in Position /\ Good(out)
  BY InPage
<1>3. u \in Position /\ u.v = Top.v
  <2>1. Top[r] \in Int
    BY <1>2 DEF Position, State
  <2>2. u.v = Top.v
    BY <1>2 DEF Position, State
  <2>3. QED
    BY <1>2, <2>1, <2>2, Moved
<1>4. Says(out) = Says(out) \o <<>> /\ AtLevel(out, u.v) /\ <<>> \in Seq(Item)
  BY <1>2, <1>3, NothingMore DEF Prepared
<1> HIDE DEF u
<1>5. Prepared' /\ Machine!Does(r, 0, <<>> \o Machine!Space(Top[r]), WithTop(u))
  BY <1>1, <1>2, <1>3, <1>4, FollowsAcross
<1>6. Machine!Again(r)
  BY <1>5, SameTop, SpaceType DEF Machine!Again, u
<1>7. Machine!ReadPages
  BY <1>6 DEF Machine!ReadPages
<1>8. QED
  BY <1>5, <1>7, Continues

LEMMA CharsAre == \A c \in Characters : c \in Chars /\ Signed(c) \in Chars /\ Chars \subseteq Int
<1>1. Characters \subseteq Int
  BY InputAssumption
<1>2. \A c \in Characters : Signed(c) \in Int
  BY <1>1 DEF Signed
<1>3. QED
  BY <1>1, <1>2 DEF Chars

(* dvi_append_text: the bytes of the glyph, in the font and in the line. *)
LEMMA FollowsText ==
  ASSUME IInv, TablesAreRead, Prepared, status = "page", font # Unset,
         NEW code \in {"set", "put"}, NEW ch \in Chars, ch \in Int, Read(code, ch),
         out' = AppendText(out, ch), status' = TextError(ch), UNCHANGED <<stack, font, pages>>
  PROVE  Follows
<1>1. /\ font \in DOMAIN Glyphs
      /\ ("raw" \in flags \/ Known(ch)) <=> ch \in DOMAIN Glyphs[font]
      /\ ch \in DOMAIN Glyphs[font] => Glyphs[font][ch] = Words(Glyph(ch))
  BY GlyphIs
<1>2. /\ Good(out) /\ font \in Int /\ Top \in Position /\ AtLevel(out, Top.v)
      /\ registry \in Registries /\ fonts \in Seq(Dvifont)
      /\ "raw" \notin flags => Pointing(fonts, registry)
  BY InPage DEF Prepared
<1>3. CASE "raw" \in flags \/ Known(ch)
  <2> DEFINE q == OpenText(out, Top)
             g == Glyph(ch)
             o == Extend(q, g)
             what == Bytes(Words(g), font, Top.v)
  <2>1. out' = o /\ status' = "page"
    BY <1>3 DEF AppendText, TextError
  <2>2. g \in Text
    BY <1>2, <1>3, GlyphIsText
  <2>3. /\ Says(q) = Says(out) /\ Good(q) /\ IsOpen(q.nodes)
        /\ Last(q.nodes).v = Top.v
    BY <1>2, OpenedSays
  <2> HIDE DEF q, g
  <2>4. Says(o) = Says(out) \o what /\ o.nodes = q.nodes
    BY <2>2, <2>3, ExtendSays
  <2>5. AtLevel(o, Last(stack).v)
    BY <2>3, <2>4 DEF AtLevel, Top
  <2>6. Opcode(code, ch, o, stack)
    BY <2>1 DEF Opcode
  <2>7. Glyphs[font][ch] = Words(g) /\ ch \in DOMAIN Glyphs[font]
    BY <1>1, <1>3 DEF g
  <2> HIDE DEF o
  <2>8. Prepared' /\ Machine!Does(code, ch, what, stack)
    BY <2>4, <2>5, <2>6, FollowsOpcode
  <2>9. what = [i \in DOMAIN Glyphs[font][ch] |-> Machine!Byte(Glyphs[font][ch][i])]
    BY <2>7, SameTop DEF Bytes, Machine!Byte
  <2>10. Machine!SetChar(code, ch)
    BY <1>1, <2>7, <2>8, <2>9 DEF Machine!SetChar
  <2>11. op'.arg = ch
    BY Reads
  <2>12. Machine!ReadPages
    BY <2>10, <2>11 DEF Machine!ReadPages
  <2>13. QED
    BY <2>8, <2>12, Continues
<1>4. CASE ~ ("raw" \in flags \/ Known(ch))
  <2>1. status' = "DVIERR_INVALID_CHAR"
    BY <1>4 DEF TextError
  <2>2. Machine!Illegal(code, ch)
    BY <1>1, <1>4 DEF Machine!Illegal
  <2>3. QED
    BY <2>1, <2>2, FollowsError
<1>5. QED
  BY <1>3, <1>4

LEMMA FollowsChar ==
  ASSUME IInv, TablesAreRead, Prepared, status = "page", NEW c \in Characters,
         SetChar(c) \/ PutChar(c)
  PROVE  Follows
<1>1. CASE SetChar(c)
  BY <1>1, CharsAre, FollowsText DEF SetChar
<1>2. CASE PutChar(c)
  <2> DEFINE ch == Signed(c)
  <2>1. ch \in Chars /\ ch \in Int
    BY CharsAre
  <2>2. /\ font # Unset /\ Read("put", ch) /\ out' = AppendText(out, ch)
        /\ status' = TextError(ch) /\ UNCHANGED <<stack, font, pages>>
    BY <1>2 DEF PutChar
  <2> HIDE DEF ch
  <2>3. QED
    BY <2>1, <2>2, FollowsText
<1>3. QED
  BY <1>1, <1>2

LEMMA FollowsFont ==
  ASSUME IInv, TablesAreRead, Prepared, status = "page", NEW f \in FontNumbers,
         SelectFont(f)
  PROVE  Follows
<1>1. /\ Read("fnt", f) /\ out' = CloseText(out) /\ font' = f
      /\ status' = (IF CheckFont(f) # 0 THEN "page" ELSE "DVIERR_INVALID_FONT")
      /\ UNCHANGED <<stack, pages>>
  BY DEF SelectFont
<1>2. Good(out) /\ BUFFER_SIZE \in Nat /\ f \in Int
  BY InPage, InputAssumption
<1>3. Says(CloseText(out)) = Says(out) /\ ~ IsOpen(CloseText(out).nodes)
  BY <1>2, ClosedSays, ClosedText
<1>4. /\ CheckFont(f) # 0 <=> f \in DOMAIN Glyphs
      /\ (\E j \in 1 .. Len(fonts) : fonts[j].index = f) <=> CheckFont(f) # 0
  BY <1>2, FontIs
<1>5. /\ UNCHANGED <<file, registry, fonts>> /\ Machine!Read("fnt", f) /\ op'.arg = f
  BY <1>1, Reads
<1>6. CASE CheckFont(f) # 0
  <2>1. status' = "page" /\ Selected(fonts, f)
    BY <1>1, <1>4, <1>6 DEF Selected
  <2>2. AtLevel(out', Last(stack').v)
    BY <1>1, <1>3, AfterNode
  <2>3. Prepared'
    BY <1>1, <1>5, <2>1, <2>2, PreparedPage
  <2>4. PageSays' = PageSays /\ PagesSay' = PagesSay
    BY <1>1, <1>3, <1>5, SaidNext DEF Says, PageSays, PagesSay
  <2>5. Place = "page" /\ Place' = "page"
    BY <2>1 DEF Place
  <2>6. Machine!SelectFont(f)
    BY <1>1, <1>5, <2>4, <2>5 DEF Machine!SelectFont
  <2>7. Machine!ReadPages
    BY <1>4, <1>6, <2>6 DEF Machine!ReadPages
  <2>8. QED
    BY <2>3, <2>7, Continues
<1>7. CASE CheckFont(f) = 0
  <2>1. status' = "DVIERR_INVALID_FONT"
    BY <1>1, <1>7
  <2>2. Machine!Illegal("fnt", f)
    BY <1>4, <1>7 DEF Machine!Illegal
  <2>3. QED
    BY <1>1, <2>1, <2>2, FollowsError
<1>8. QED
  BY <1>6, <1>7

LEMMA FollowsBroken ==
  ASSUME IInv, TablesAreRead, Prepared, Invalid \/ Truncated
  PROVE  Follows
<1>1. CASE Invalid
  <2>1. PICK code \in {"bop", "other"} : Read(code, 0)
    BY <1>1 DEF Invalid
  <2>2. status = "page" /\ status' = "DVIERR_INVALID_OPCODE" /\ pages' = pages
    BY <1>1 DEF Invalid
  <2>3. Machine!Illegal(code, 0)
    BY DEF Machine!Illegal
  <2>4. QED
    BY <2>1, <2>2, <2>3, FollowsError
<1>2. CASE Truncated
  <2>1. /\ Read("eof", 0) /\ status = "page" /\ status' = "DVIERR_UNEXPECTED_EOF"
        /\ pages' = pages
    BY <1>2 DEF Truncated
  <2>2. Machine!Illegal("eof", 0)
    BY DEF Machine!Illegal
  <2>3. QED
    BY <2>1, <2>2, FollowsError
<1>3. QED
  BY <1>1, <1>2

LEMMA FollowsEndOfPage ==
  ASSUME IInv, TablesAreRead, Prepared, EndOfPage
  PROVE  Follows
<1> DEFINE c == CloseText(out)
           n == Len(stack)
<1>1. /\ Read("eop", 0) /\ status = "page" /\ out' = c
      /\ IF n > 1 THEN status' = "DVIERR_INVALID_STACK" /\ UNCHANGED pages
         ELSE status' = "between" /\ pages' = Append(pages, c.nodes)
      /\ UNCHANGED <<stack, font>>
  BY DEF EndOfPage
<1>2. /\ Good(out) /\ BUFFER_SIZE \in Nat /\ n \in Nat /\ n # 0
  BY <1>1, InPage, LenProperties
<1>3. Says(c) = Says(out) /\ c.buffer = <<>>
  BY <1>2, ClosedSays, ClosedText
<1>4. /\ UNCHANGED <<file, registry, fonts>> /\ Machine!Read("eop", 0)
  BY <1>1, Reads
<1> HIDE DEF c, n
<1>5. CASE n > 1
  <2>1. status' = "DVIERR_INVALID_STACK" /\ pages' = pages
    BY <1>1, <1>5
  <2>2. Machine!Illegal("eop", 0)
    BY <1>5 DEF Machine!Illegal, n
  <2>3. QED
    BY <1>1, <2>1, <2>2, FollowsError
<1>6. CASE ~ (n > 1)
  <2>1. n = 1 /\ status' = "between" /\ pages' = Append(pages, c.nodes)
    BY <1>1, <1>2, <1>6
  <2>2. Prepared'
    <3>1. Selected(fonts, font)
      BY <1>1 DEF Prepared
    <3>2. QED
      BY <1>1, <1>4, <2>1, <3>1, PreparedPage
  <2>3. PageSays' = PageSays /\ PageSays = SaidBy(c.nodes, <<>>)
    BY <1>1, <1>3, <1>4, SaidNext DEF Says, PageSays
  <2>4. PagesSay' = Append(PagesSay, PageSays)
    <3> DEFINE x == c.nodes
               m == Len(pages)
               s(p) == SaidBy(p, <<>>)
    <3>1. pages \in Seq(Seq(Node)) /\ x \in Seq(Node) /\ m \in Nat
      <4>1. c \in Page
        BY <1>2, ClosedText DEF c, Good
      <4>2. QED
        BY <4>1, LenProperties DEF IInv, Typed, Page
    <3>2. PagesSay' = [k \in DOMAIN pages' |-> s(pages'[k])]
      BY <1>4, SaidNext
    <3>3. PagesSay = [k \in DOMAIN pages |-> s(pages[k])]
      BY DEF PagesSay
    <3>4. PageSays = s(x)
      BY <2>3
    <3> HIDE DEF s, x
    <3>5. [k \in DOMAIN Append(pages, x) |-> s(Append(pages, x)[k])]
            = Append([k \in DOMAIN pages |-> s(pages[k])], s(x))
      BY <3>1
    <3>6. QED
      BY <2>1, <3>2, <3>3, <3>4, <3>5 DEF x
  <2>5. Place = "page" /\ Place' = "between"
    BY <1>1, <2>1 DEF Place
  <2>6. Machine!EndPage
    BY <1>1, <1>4, <2>1, <2>3, <2>4, <2>5 DEF Machine!EndPage, n
  <2>7. Machine!ReadPages
    BY <2>6 DEF Machine!ReadPages
  <2>8. QED
    BY <1>1, <2>2, <2>7, Continues
<1>7. QED
  BY <1>5, <1>6

LEMMA NoNodes == \A b : SaidBy(<<>>, b) = <<>>
<1> SUFFICES ASSUME NEW b PROVE SaidBy(<<>>, b) = <<>>
  OBVIOUS
<1>1. [i \in DOMAIN <<>> |-> Said(<<>>[i], b)] = <<>>
  OBVIOUS
<1>2. SaidBy(<<>>, b) = FlattenSeq(<<>>)
  BY <1>1 DEF SaidBy
<1>3. FlattenSeq(<<>>) = <<>>
  BY DEF FlattenSeq
<1>4. QED
  BY <1>2, <1>3

LEMMA FirstNode ==
  ASSUME NEW b \in Text, NEW node, node = [type |-> "bop"]
  PROVE  SaidBy(<<node>>, b) = <<>> /\ ~ IsOpen(<<node>>)
<1>1. node \in OtherNode /\ node \in Node /\ node.type = "bop"
  BY DEF OtherNode, Node
<1>2. ~ IsOpen(<<node>>)
  BY <1>1 DEF IsOpen, Last
<1>3. <<node>> = Append(<<>>, node) /\ <<>> \in Seq(Node)
  OBVIOUS
<1>4. SaidBy(Append(<<>>, node), b) = SaidBy(<<>>, b) \o Said(node, b)
  BY <1>1, <1>3, SaidAppended
<1>5. Said(node, b) = <<>> /\ SaidBy(<<>>, b) = <<>>
  BY <1>1, OtherSays, NoNodes
<1>6. QED
  BY <1>2, <1>3, <1>4, <1>5

LEMMA FollowsBop ==
  ASSUME IInv, TablesAreRead, Prepared, ReadBop
  PROVE  Follows
<1>1. Read("bop", 0) /\ status = "between" /\ UNCHANGED <<font, pages>>
  BY DEF ReadBop
<1>2. /\ UNCHANGED <<file, registry, fonts>> /\ Machine!Read("bop", 0)
  BY <1>1, Reads
<1>3. CASE Len(pages) >= nbpages
  <2>1. status' = "DVIERR_TOO_MANY_PAGES"
    BY <1>3 DEF ReadBop
  <2>2. Machine!Illegal("bop", 0)
    BY DEF Machine!Illegal
  <2>3. QED
    BY <1>1, <2>1, <2>2, FollowsError
<1>4. CASE ~ (Len(pages) >= nbpages)
  <2> DEFINE node == [type |-> "bop"]
             o == [out EXCEPT !.nodes = <<node>>]
  <2>1. stack' = <<State>> /\ out' = o /\ status' = "page"
    BY <1>4 DEF ReadBop
  <2>2. out \in Page /\ out.buffer \in Text
    BY DEF IInv, Page
  <2>3. o.nodes = <<node>> /\ o.buffer = out.buffer
    BY <2>2 DEF Page
  <2> HIDE DEF node, o
  <2>4. SaidBy(<<node>>, out.buffer) = <<>> /\ ~ IsOpen(<<node>>)
    BY <2>2, FirstNode DEF node
  <2>5. PageSays' = <<>> /\ PagesSay' = PagesSay
    BY <1>1, <1>2, <2>1, <2>3, <2>4, SaidNext DEF PagesSay
  <2>6. Prepared'
    <3>1. AtLevel(out', Last(stack').v)
      BY <2>1, <2>3, <2>4, AfterNode
    <3>2. Selected(fonts, font')
      BY <1>1 DEF Prepared
    <3>3. QED
      BY <1>1, <1>2, <2>1, <3>1, <3>2, PreparedPage
  <2>7. Place = "between" /\ Place' = "page"
    BY <1>1, <2>1 DEF Place
  <2>8. State = Machine!Origin
    BY DEF State, Machine!Origin
  <2>9. Machine!BeginPage
    BY <1>1, <1>2, <2>1, <2>5, <2>7, <2>8 DEF Machine!BeginPage
  <2>10. Machine!ReadPages
    BY <2>9 DEF Machine!ReadPages
  <2>11. QED
    BY <1>1, <2>6, <2>10, Continues
<1>5. QED
  BY <1>3, <1>4

LEMMA FollowsBetween ==
  ASSUME IInv, TablesAreRead, Prepared, ReadPost \/ ReadBetween
  PROVE  Follows
<1>1. status = "between" /\ UNCHANGED <<stack, font, out, pages>>
  BY DEF ReadPost, ReadBetween
<1>2. Selected(fonts, font)
  BY <1>1 DEF Prepared
<1>3. CASE ReadPost
  <2>1. Read("post", 0) /\ status' = "end"
    BY <1>3 DEF ReadPost
  <2>2. /\ UNCHANGED <<file, registry, fonts>> /\ Machine!Read("post", 0)
    BY <2>1, Reads
  <2>3. Prepared'
    BY <1>1, <1>2, <2>1, <2>2, PreparedPage
  <2>4. PageSays' = PageSays /\ PagesSay' = PagesSay
    BY <1>1, <2>2, NothingSaid
  <2>5. Place = "between" /\ Place' = "finished"
    BY <1>1, <2>1 DEF Place
  <2>6. Machine!Finish
    BY <1>1, <2>2, <2>4, <2>5 DEF Machine!Finish
  <2>7. Machine!ReadPages
    BY <2>6 DEF Machine!ReadPages
  <2>8. QED
    BY <1>1, <2>3, <2>7, Continues
<1>4. CASE Read("nop", 0) /\ status' = status
  <2>1. /\ UNCHANGED <<file, registry, fonts>> /\ Machine!Read("nop", 0)
    BY <1>4, Reads
  <2>2. Prepared'
    BY <1>1, <1>2, <1>4, <2>1, PreparedPage
  <2>3. PageSays' = PageSays /\ PagesSay' = PagesSay
    BY <1>1, <2>1, NothingSaid
  <2>4. Place = "between" /\ Place' = Place
    BY <1>1, <1>4 DEF Place
  <2>5. Machine!Skip
    BY <1>1, <2>1, <2>3, <2>4 DEF Machine!Skip
  <2>6. Machine!ReadPages
    BY <2>5 DEF Machine!ReadPages
  <2>7. QED
    BY <1>1, <2>2, <2>6, Continues
<1>5. CASE Read("other", 0) /\ status' = "DVIERR_INVALID_OPCODE"
  <2>1. Machine!Illegal("other", 0)
    BY DEF Machine!Illegal
  <2>2. QED
    BY <1>1, <1>5, <2>1, FollowsError
<1>6. QED
  BY <1>3, <1>4, <1>5 DEF ReadBetween

LEMMA FollowsPages ==
  ASSUME IInv, TablesAreRead, Prepared, ReadPages
  PROVE  Follows
<1>1. CASE ReadBop \/ ReadPost \/ ReadBetween
  BY <1>1, FollowsBop, FollowsBetween
<1>2. CASE \E c \in Characters : SetChar(c) \/ PutChar(c)
  <2>1. PICK c \in Characters : SetChar(c) \/ PutChar(c)
    BY <1>2
  <2>2. status = "page"
    BY <2>1 DEF SetChar, PutChar
  <2>3. QED
    BY <2>1, <2>2, FollowsChar
<1>3. CASE \E a \in Moves : SetRule(a) \/ Right(a) \/ Down(a)
  <2>1. PICK a \in Moves : SetRule(a) \/ Right(a) \/ Down(a)
    BY <1>3
  <2>2. status = "page"
    BY <2>1 DEF SetRule, Right, Down, Opcode
  <2>3. QED
    BY <2>1, <2>2, FollowsRule, FollowsRight, FollowsDown
<1>4. CASE PutRule \/ Push \/ Pop \/ Xxx \/ Skipped
  <2>1. status = "page"
    BY <1>4 DEF PutRule, Push, Pop, Xxx, Skipped, Opcode
  <2>2. QED
    BY <1>4, <2>1, FollowsRule, FollowsPush, FollowsPop, FollowsXxx, FollowsSkipped
<1>5. CASE EndOfPage \/ Invalid \/ Truncated
  BY <1>5, FollowsEndOfPage, FollowsBroken
<1>6. CASE \E f \in FontNumbers : SelectFont(f)
  <2>1. PICK f \in FontNumbers : SelectFont(f)
    BY <1>6
  <2>2. status = "page"
    BY <2>1 DEF SelectFont
  <2>3. QED
    BY <2>1, <2>2, FollowsFont
<1>7. CASE \E r \in {"w", "x"} : UseAcross(r) \/ \E a \in Moves : SetAcross(r, a)
  <2>1. PICK r \in {"w", "x"} : UseAcross(r) \/ \E a \in Moves : SetAcross(r, a)
    BY <1>7
  <2>2. status = "page"
    BY <2>1 DEF UseAcross, SetAcross
  <2>3. QED
    BY <2>1, <2>2, FollowsUseAcross, FollowsSetAcross
<1>8. CASE \E r \in {"y", "z"} : UseAlong(r) \/ \E a \in Moves : SetAlong(r, a)
  <2>1. PICK r \in {"y", "z"} : UseAlong(r) \/ \E a \in Moves : SetAlong(r, a)
    BY <1>8
  <2>2. status = "page"
    BY <2>1 DEF UseAlong, SetAlong, Opcode
  <2>3. QED
    BY <2>1, <2>2, FollowsUseAlong, FollowsSetAlong
<1>9. QED
  BY <1>1, <1>2, <1>3, <1>4, <1>5, <1>6, <1>7, <1>8 DEF ReadPages

----------------------------------------------------------------------------
(* DviFile implements DviMachine.                                          *)

LEMMA StepFollows ==
  IInv /\ TablesAreRead /\ Prepared /\ [Next]_fileVars => Follows
<1> SUFFICES ASSUME IInv, TablesAreRead, Prepared, [Next]_fileVars PROVE Follows
  OBVIOUS
<1>1. CASE Next
  <2>1. CASE InitFonts \/ OpenFile \/ CloseFonts
    BY <2>1, FollowsInit, FollowsOpen, FollowsClose
  <2>2. CASE DefineFont \/ SkipInPostamble \/ BreakInPostamble \/ EndPostamble
    BY <2>2, FollowsDefine, FollowsSkip, FollowsBreak, FollowsEnd
  <2>3. CASE ReadPreamble
    BY <2>3, FollowsPreamble
  <2>4. CASE ReadPages
    BY <2>4, FollowsPages
  <2>5. QED
    BY <1>1, <2>1, <2>2, <2>3, <2>4 DEF Next
<1>2. CASE UNCHANGED fileVars
  <2>1. /\ UNCHANGED <<file, registry, fonts, op, stack, font, out, pages, status>>
        /\ UNCHANGED <<at, list>>
    BY <1>2 DEF fileVars, vars
  <2>2. Prepared'
    BY <2>1 DEF Prepared, AtLevel, Top, IsOpen
  <2>3. UNCHANGED Machine!vars
    BY <2>1, NothingSaid DEF Machine!vars, Place
  <2>4. QED
    BY <2>2, <2>3 DEF Follows
<1>3. QED
  BY <1>1, <1>2

LEMMA StartFollows == Init => Machine!Start
<1> SUFFICES ASSUME Init PROVE Machine!Start
  OBVIOUS
<1>1. /\ status = "start" /\ pages = <<>> /\ stack = <<>> /\ font = Unset
      /\ out.nodes = <<>> /\ out.buffer = <<>> /\ registry = NoTables
  BY DEF Init, NewFile
<1>2. File(file)
  BY NothingRead DEF IInv, Typed
<1>3. Unset \notin DOMAIN Glyphs
  <2>1. \A i \in FontDefs : file.postamble[i].index \in FontNumbers
    BY <1>2, PostambleType DEF FontDefs
  <2>2. Unset \notin FontNumbers
    BY InputAssumption
  <2>3. Unset \notin {file.postamble[i].index : i \in FontDefs}
    BY <2>1, <2>2
  <2>4. CASE registry.users = 0 /\ "raw" \notin flags
    BY <2>4 DEF Glyphs
  <2>5. CASE ~ (registry.users = 0 /\ "raw" \notin flags)
    BY <2>3, <2>5 DEF Glyphs
  <2>6. QED
    BY <2>4, <2>5
<1>4. PageSays = <<>> /\ PagesSay = <<>>
  BY <1>1, NoNodes DEF PageSays, PagesSay
<1>5. QED
  BY <1>1, <1>3, <1>4 DEF Machine!Start, Place

(* For every file, every configuration and every sequence of opcodes: the  *)
(* pages that dvi_read returns say what the file says, in its order, each  *)
(* byte in the font and in the line it is set in, and dvi_read gives up a  *)
(* file just where its postamble, its preamble or an opcode is wrong.      *)
THEOREM PagesSayWhatIsRead == Spec => ImplementsMachine
<1>1. Init => Prepared /\ Machine!Start
  BY PreparedFirst, StartFollows
<1>2. IInv /\ TablesAreRead /\ Prepared /\ [Next]_fileVars =>
        Prepared' /\ [Machine!Next]_(Machine!vars)
  BY StepFollows DEF Follows
<1>3. QED
  BY <1>1, <1>2, Invariance, TablesKept, PTL DEF Spec, ImplementsMachine, Machine!Spec

=============================================================================
