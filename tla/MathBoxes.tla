----------------------------- MODULE MathBoxes -----------------------------
(***************************************************************************)
(* The passes of src/src/log2xml.c that read the boxes TeX made of a       *)
(* formula: which of them are fractions, scripts, limits, fences, lines.   *)
(* Each operator is one iteration of the loop of its pass, on the p-th     *)
(* child of o.                                                             *)
(***************************************************************************)
EXTENDS MathTree

(* The param of a box holds its measures, until decode_box_parameters has  *)
(* made them attributes of the box.                                        *)
HasParam(t, n) == Kids(t, n) # <<>> /\ Kind(t, Kids(t, n)[1]) = "param"
Param(t, n)    == t[Kids(t, n)[1]]

DecodeBoxParameters(t, o, p) ==
  LET n == At(t, o, p)
  IN  IF Kind(t, n) \in {"hbox", "vbox"} /\ HasParam(t, n)
      THEN Done([t EXCEPT ![n].size = Param(t, n).size], <<n>>, <<>>, o, p)
      ELSE PushOn(t, o, p)

(* A formula in a formula: what stands between mathon and mathoff. *)
TransformInlineMath(t, o, p) ==
  LET ends == {q \in p + 1 .. Len(Kids(t, o)) : Kind(t, At(t, o, q)) = "mathoff"}
      q    == CHOOSE r \in ends : \A e \in ends : r <= e
      body == SelectSeq(SubSeq(Kids(t, o), p + 1, q - 1),
                        LAMBDA n : ~IsTag(t, n, <<"begin", "math">>))
      row  == [Make(t, "mrow", body) EXCEPT ![New(t)].val = <<"math">>]
      off  == IF IsTag(t, At(t, o, q + 1), <<"end", "math">>) THEN 1 ELSE 0
  IN  IF Kind(t, At(t, o, p)) # "mathon" THEN PushOn(t, o, p)
      ELSE IF ends = {} THEN GiveUp(t)
      ELSE Done(Replace(row, o, p, q - p + 1 + off, <<New(t)>>), <<>>, <<>>, o, p)

----------------------------------------------------------------------------
(* \left and \right                                                        *)

IsBasicFence(t, n) ==
  Kind(t, n) = "hbox" /\ Matches(t, n, <<{"param"}, {"other"}>>)
FenceChar(t, n) == t[Kids(t, n)[2]].val[1]

(* A large fence is a box of pieces, of which the first, the last and that *)
(* in the middle, if there is one, are looked at.                          *)
CompositeFence(t, n) ==
  LET parts  == Tail(Kids(t, n))
      piece(i) == FenceChar(t, parts[i])
      fences == {c \in DOMAIN Pieces :
                   /\ piece(1) = Pieces[c][1] /\ piece(Len(parts)) = Pieces[c][3]
                   /\ Len(parts) % 2 = 1 => piece((Len(parts) + 1) \div 2) = Pieces[c][2]}
  IN  IF /\ Kind(t, n) = "vbox" /\ parts # <<>>
         /\ \A i \in DOMAIN parts : IsBasicFence(t, parts[i])
         /\ fences # {}
      THEN CHOOSE c \in fences : TRUE
      ELSE "none"

(* is_matching_fence_node: "" is the empty box of \right. *)
Fence(t, n, height) ==
  IF IsBasicFence(t, n) /\ t[n].size <= height THEN FenceChar(t, n)
  ELSE IF Kind(t, n) = "hbox" /\ Matches(t, n, <<{"param"}>>) /\ t[n].size = 0 THEN ""
  ELSE IF t[n].size <= height THEN CompositeFence(t, n)
  ELSE "none"

Fences(t, n) ==
  <<Fence(t, Kids(t, n)[2], t[n].size), Fence(t, Last(Kids(t, n)), t[n].size)>>
IsFenced(t, n) ==
  /\ Kind(t, n) = "hbox" /\ Len(Kids(t, n)) > 2 /\ t[n].size > 0
  /\ "none" \notin Range(Fences(t, n)) /\ Range(Fences(t, n)) # {""}

TransformLeftAndRight(t, o, p) ==
  LET n      == At(t, o, p)
      k      == Kids(t, n)
      inner  == SubSeq(k, 3, Len(k) - 1)
      row    == New(t)
      made   == [Make(Make(t, "mrow", inner), "mfenced", <<row>>)
                   EXCEPT ![row + 1].val = Fences(t, n)]
  IN  IF IsFenced(t, n)
      THEN Done(FreeAround(Replace(made, o, p, 1, <<row + 1>>), n, inner),
                <<row>>, <<>>, o, p)
      ELSE PushOn(t, o, p)

----------------------------------------------------------------------------
(* Limits, fractions and lines: a vbox with a pattern gives way to an      *)
(* element with some of its children.                                      *)

TransformUnderscript(t, o, p) ==
  LET n == At(t, o, p)  k == Kids(t, n)
  IN  IF /\ Kind(t, n) = "vbox"
         /\ Matches(t, n, <<{"param"}, {"hbox"}, {"kern"}, {"hbox"}, {"kern"}>>)
      THEN Done(Build(t, o, p, "munder", <<k[2], k[4]>>), <<>>, <<k[2], k[4]>>, o, p)
      ELSE PushOn(t, o, p)

(* Mutant: the limit is taken for the base.                                *)
TransformOverscript_Swapped(t, o, p) ==
  LET n == At(t, o, p)  k == Kids(t, n)
  IN  IF /\ Kind(t, n) = "vbox"
         /\ Matches(t, n, <<{"param"}, {"kern"}, {"hbox"}, {"kern"}, {"hbox"}>>)
      THEN Done(Build(t, o, p, "mover", <<k[3], k[5]>>), <<>>, <<k[3], k[5]>>, o, p)
      ELSE PushOn(t, o, p)

TransformOverscript(t, o, p) ==
  LET n == At(t, o, p)  k == Kids(t, n)
  IN  IF /\ Kind(t, n) = "vbox"
         /\ Matches(t, n, <<{"param"}, {"kern"}, {"hbox"}, {"kern"}, {"hbox"}>>)
      THEN Done(Build(t, o, p, "mover", <<k[5], k[3]>>), <<>>, <<k[3], k[5]>>, o, p)
      ELSE PushOn(t, o, p)

TransformUnderoverscript(t, o, p) ==
  LET n == At(t, o, p)  k == Kids(t, n)
  IN  IF /\ Kind(t, n) = "vbox"
         /\ Matches(t, n, <<{"param"}, {"kern"}, {"hbox"}, {"kern"}, {"hbox"},
                            {"kern"}, {"hbox"}, {"kern"}>>)
      THEN Done(Build(t, o, p, "munderover", <<k[5], k[7], k[3]>>), <<>>,
                <<k[5], k[3], k[7]>>, o, p)
      ELSE PushOn(t, o, p)

OverPatterns ==
  {<<{"param"}, ValidMathBox>> \o above \o <<{"rule"}>> \o below \o <<ValidMathBox>> :
     above, below \in {<<>>, <<{"kern"}>>}}

(* Mutant: the box of a fraction is pushed, which has been freed.          *)
TransformOver_PushesBox(t, o, p) ==
  LET n == At(t, o, p)  k == Kids(t, n)
  IN  IF Kind(t, n) = "vbox" /\ \E pattern \in OverPatterns : Matches(t, n, pattern)
      THEN Done(Build(t, o, p, "mfrac", <<k[2], Last(k)>>), <<n>>, <<>>, o, p)
      ELSE PushOn(t, o, p)

TransformOver(t, o, p) ==
  LET n == At(t, o, p)  k == Kids(t, n)
  IN  IF Kind(t, n) = "vbox" /\ \E pattern \in OverPatterns : Matches(t, n, pattern)
      THEN Done(Build(t, o, p, "mfrac", <<k[2], Last(k)>>), <<k[2], Last(k)>>, <<>>, o, p)
      ELSE PushOn(t, o, p)

Enclose(t, o, p, notation, content) ==
  Done([Build(t, o, p, "menclose", <<content>>) EXCEPT ![New(t)].val = <<notation>>],
       <<New(t)>>, <<>>, o, p)

TransformUnderline(t, o, p) ==
  LET n == At(t, o, p)
  IN  IF /\ Kind(t, n) = "vbox"
         /\ Matches(t, n, <<{"param"}, ValidMathBox, {"kern"}, {"rule"}>>)
      THEN Enclose(t, o, p, "bottom", Kids(t, n)[2])
      ELSE PushOn(t, o, p)

TransformOverline(t, o, p) ==
  LET n == At(t, o, p)
  IN  IF /\ Kind(t, n) = "vbox"
         /\ Matches(t, n, <<{"param"}, {"kern"}, {"rule"}, {"kern"}, ValidMathBox>>)
      THEN Enclose(t, o, p, "top", Kids(t, n)[5])
      ELSE PushOn(t, o, p)

----------------------------------------------------------------------------
(* Scripts                                                                 *)

Params(t, n) == IF HasParam(t, n) THEN <<Kids(t, n)[1]>> ELSE <<>>

(* Both scripts of a base are in the vbox after it.  The pass calls itself *)
(* on them, which pushes their params, and frees the params after that.    *)
TransformSubsup(t, o, p) ==
  LET q    == IF Kind(t, At(t, o, p)) = "glue" THEN p + 1 ELSE p
      base == At(t, o, q)
      box  == At(t, o, q + 1)
      sup  == Kids(t, box)[2]
      sub  == Kids(t, box)[4]
      made == Replace(Make(t, "msubsup", <<base, sub, sup>>), o, q, 2, <<New(t)>>)
  IN  IF /\ Kind(t, base) \in {"other", "hbox"} /\ Kind(t, box) = "vbox"
         /\ Matches(t, box, <<{"param"}, {"hbox"}, {"kern"}, {"hbox"}>>)
      THEN Step(FreeAround(made, box, <<sub, sup>>), <<>>, <<base, sub, sup>>,
                Params(t, sub) \o Params(t, sup), o, q + 1)
      ELSE PushOn(t, o, p)

(* A box that TeX shifted. *)
IsShifted(t, n) == Kind(t, n) = "hbox" /\ HasParam(t, n) /\ Param(t, n).shift # 0
ScriptKind(t, n) == IF Param(t, n).shift > 0 THEN "msub" ELSE "msup"

(* What is in the script becomes an mrow, and the script is freed. *)
Unboxed(t, n) == FreeAround(Make(t, "mrow", Tail(Kids(t, n))), n, Tail(Kids(t, n)))

TransformSubOrSup(t, o, p) ==
  LET n      == At(t, o, p)
      q      == IF Kind(t, At(t, o, p + 1)) = "kern" THEN p + 2 ELSE p + 1
      script == At(t, o, q)
      row    == New(t)
      made   == Make(Unboxed(t, script), ScriptKind(t, script), <<n, row>>)
      put    == Replace(made, o, p, q - p + 1, <<row + 1>>)
  IN  IF Kind(t, n) \in ValidMathBox /\ IsShifted(t, script)
      THEN Done(IF q = p + 2 THEN Free(put, At(t, o, p + 1)) ELSE put,
                <<>>, <<n, row>>, o, p)
      ELSE IF Kind(t, n) = "munderover" THEN Done(t, Kids(t, n), <<>>, o, p)
      ELSE PushOn(t, o, p)

(* A script without base.  The pass calls itself on the script, which it   *)
(* has just freed, and not on the mrow.                                    *)
TransformSimpleSubOrSup(t, o, p) ==
  LET n    == At(t, o, p)
      row  == New(t)
      made == [Make(Unboxed(t, n), ScriptKind(t, n), <<row>>)
                 EXCEPT ![row + 1].val = <<"single">>]
  IN  IF IsShifted(t, n) /\ Len(Kids(t, n)) > 1
      THEN Done(Replace(made, o, p, 1, <<row + 1>>), <<>>, <<n>>, o, p)
      ELSE PushOn(t, o, p)
=============================================================================
