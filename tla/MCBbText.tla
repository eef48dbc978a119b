----------------------------- MODULE MCBbText ------------------------------
(* Three patterns over the letters a, b, A on a few inputs, and up to three   *)
(* string calls with two patterns among them.  The grammar in C is            *)
(*   E <- {a E b} / {a}cb, with noop before it and a callback that refuses    *)
(*   the empty text only.                                                     *)
EXTENDS BbText

a == 97
b == 98
MCPlans == {[pats |-> 3, calls |-> 0], [pats |-> 0, calls |-> 3], [pats |-> 2, calls |-> 2]}
MCWords == {<<a>>, <<a, b>>, <<a, a>>}
MCLiterals == {<<a>>, <<a, b>>}
MCFiller == <<b, b>>
MCRanges == {<<1, 2>>, <<-3, 1>>}
MCMarks == {<<-1, b>>}
MCSpecs == {<<b, 45, a, 65>>}
\* -1 is 0xFFFFFFFF to rep, as true is.
MCReps == {<<0, -1>>, <<1, 2>>}
MCInputs == {<<>>, <<a, b>>, <<a, a, b>>, <<a, b, a, b>>, <<b, a, 65>>}
MCTexts == <<<<a, b>>, <<32, 65, a, b>>>>
MCStatics == (100 :> cma_init_seq("OR", <<101, 105>>)) @@ (101 :> cma_init_cap(102, 0))
          @@ (102 :> cma_init_seq("AND", <<103, 104, 106>>)) @@ (103 :> cma_init_str(<<a>>, FALSE))
          @@ (104 :> cma_init_ref(100)) @@ (105 :> cma_init_cap_cb(108, {2}))
          @@ (106 :> cma_init_str(<<b>>, FALSE))
          @@ (107 :> cma_init_seq("AND", <<109, 100>>))
          @@ (108 :> [type |-> "REP", min |-> 1, max |-> CMA_INF, pattern |-> 110, fn |-> "rep_set"])
          @@ (109 :> cma_init_noop) @@ (110 :> cma_init_set(cma_set_invert({b})))
=============================================================================
