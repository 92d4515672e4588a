------------------------------ MODULE MCMulDiv ------------------------------
(* Streams for the run of MulDiv. *)
EXTENDS MulDiv

\* No division is in flight together with a multiplication or a branch: the two streams in
\* which div_busy goes wrong (runs divide_multiply and divide_flush).
Apart ==
  LET ops == {window[i].op : i \in DOMAIN window}
  IN  "div" \in ops => ops \subseteq {"div", "alu"}

MCSpec == Init /\ [][Next /\ Apart']_vars /\ WF_vars(Next /\ Apart')
=============================================================================
