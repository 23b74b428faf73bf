----------------------------- MODULE MCLowering -----------------------------
(* Two functions, one of them with a parameter, and case values of two types  *)
(* that have the same bits.                                                   *)
EXTENDS Lowering, TLC

MCMark == "f" :> "main" @@ "g" :> "none"
MCResult == "f" :> "void" @@ "g" :> "value"
MCParams == "f" :> 1 @@ "g" :> 0
MCCaseVals == { [ty |-> "i8", bits |-> 1], [ty |-> "i32", bits |-> 1],
                [ty |-> "i32", bits |-> 2] }
=============================================================================
