----------------------------- MODULE MCLocalize -----------------------------
(* Small instances of Localize: few iterations, few levels, three decades. *)
EXTENDS Localize

\* The programs that are tested against each other.
MCDescents ==
  [impl : {"cleartext", "emp", "aby"}, method : {"lm", "gn"}, flow : {LOOP_LEAK}]
  \cup {[impl |-> "emp", method |-> "lm", flow |-> DO]}
MCEmpGaussNewtonDO == {[impl |-> "emp", method |-> "gn", flow |-> DO]}
MCAbyDO == [impl : {"aby"}, method : {"lm", "gn"}, flow : {DO}]
MCNorm == 0 .. 3
=============================================================================
