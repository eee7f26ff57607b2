------------------------------ MODULE LogFixes ------------------------------
(***************************************************************************)
(* The stylesheet src/texmf/xslt/log-fixes.xsl, the last pass of the list  *)
(* `math', with those it includes: log-prescript.xsl, log-enlargesub.xsl   *)
(* and log-negative.xsl.  All templates look at the tree as it was; of     *)
(* those that match a node the one included last is applied.               *)
(***************************************************************************)
EXTENDS MathLog

Scripts == {"msub", "msup", "msubsup"}
Single(t, n)   == Kind(t, n) \in {"msub", "msup"} /\ t[n].val = <<"single">>
OnNumber(t, n) == Kind(t, n) \in {"msub", "msup"} /\ Kids(t, n) # <<>> /\ Kind(t, Kids(t, n)[1]) = "mn"

(* The p-th child of o is a number before a script that has one as base.   *)
InBase(t, o, p) == Kind(t, At(t, o, p)) = "mn" /\ OnNumber(t, At(t, o, p + 1))

IsNegative(t, n) ==
  /\ Kind(t, n) = "mrow" /\ Matches(t, n, <<{"mo"}, {"mn"}>>)
  /\ t[Kids(t, n)[1]].val = <<"minus">>

None == Node("none", <<>>)

(* What becomes of the p-th child of o: no node, or one. *)
RECURSIVE Fixed(_, _, _)
AllFixed(t, o) == Concat(LAMBDA p : <<Fixed(t, o, p)>>, Len(Kids(t, o)))
Copied(t, n)   == [t[n] EXCEPT !.kids = FlattenSeq(AllFixed(t, n))]

(* Of the script after it, one without a base becomes the prescript.       *)
Multiscripts(t, before, after) ==
  LET kids   == AllFixed(t, after)
      own    == FlattenSeq(AllFixed(t, before))
      only   == Last(kids)
      placed == CASE Kind(t, after) = "msub" -> kids[1] \o only \o <<None>>
                  [] Kind(t, after) = "msup" -> kids[1] \o <<None>> \o only
                  [] OTHER                   -> FlattenSeq(kids)
      prescripts == IF Kind(t, before) = "msub" THEN own \o <<None>> ELSE <<None>> \o own
  IN  Node("mmultiscripts", placed \o <<Node("mprescripts", <<>>)>> \o prescripts)

(* Mutant: the digits before a base are put behind it. *)
Enlarged_Behind(t, number, script) ==
  LET base == t[Kids(t, script)[1]]
  IN  [t[script] EXCEPT !.kids =
         <<[t[number] EXCEPT !.val = base.val \o @]>> \o FlattenSeq(Tail(AllFixed(t, script)))]

Enlarged(t, number, script) ==
  LET base == t[Kids(t, script)[1]]
  IN  [t[script] EXCEPT !.kids =
         <<[t[number] EXCEPT !.val = @ \o base.val]>> \o FlattenSeq(Tail(AllFixed(t, script)))]

Fixed(t, o, p) ==
  LET n      == At(t, o, p)
      before == At(t, o, p - 1)
      after  == At(t, o, p + 1)
  IN  IF \/ Kind(t, n) = "rule" \/ InBase(t, o, p)
         \/ Kind(t, n) \in Scripts /\ Single(t, before)
      THEN <<>>
      ELSE <<IF InBase(t, o, p - 1) THEN Enlarged(t, before, n)
             ELSE IF Single(t, n) /\ Kind(t, after) \in Scripts THEN Multiscripts(t, n, after)
             ELSE IF IsNegative(t, n)
             THEN [Blank EXCEPT !.kind = "mn", !.val = <<"-">> \o t[Kids(t, n)[2]].val]
             ELSE Copied(t, n)>>

(* The document that takes the place of the tree. *)
LogFixes(t) == Numbered(<<Copied(t, 1)>>, 1)
=============================================================================
