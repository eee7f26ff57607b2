----------------------------- MODULE MCPostXml -----------------------------
(* Documents of PostXml: flat ones with the marks of paragraphs and        *)
(* sections, lists and bibliographies, and boxes with marks in them.       *)
EXTENDS PostXml

Made(k, d, l) == [kind |-> k, depth |-> d, level |-> l]
SeqsUpTo(S, n) == UNION {[1 .. m -> S] : m \in 0 .. n}

FlatNodes == {Made("text", 1, 0), Made("parsep", 1, 0), Made("section", 1, 1),
              Made("section", 1, 2), Made("thebibliography", 1, 0)}
Within(k, m) ==
  {Made(k, 2, 0), Made("text", 2, 0), Made("chars", 2, 0), Made(m, 2, 0)}
Inside(m) == {s \in SeqsUpTo(Within(m[1], m[2]) \cup {Made("text", 3, 0)}, 4) :
                \A p \in 1 .. Len(s) :
                  s[p].depth = 3 => p > 1 /\ (s[p - 1].kind = m[1] \/ s[p - 1].depth = 3)}
Around(k, d) == {<<Made(k, 1, 0)>> \o s : s \in d}

MCDocuments ==
  SeqsUpTo(FlatNodes, 5)
  \cup Around("list", Inside(<<"item", "bibitem">>))
  \cup Around("thebibliography", Inside(<<"bibitem", "item">>))
  \cup {b \o s : b \in Around("box", SeqsUpTo({Made("text", 2, 0), Made("parsep", 2, 0), Made("section", 2, 1)}, 3)),
                 s \in SeqsUpTo(FlatNodes, 2)}

=============================================================================
