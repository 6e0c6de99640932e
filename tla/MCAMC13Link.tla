---------------------------- MODULE MCAMC13Link -----------------------------
(* The simulator link on small fills; see the cfg of each run for its       *)
(* bounds.                                                                  *)
EXTENDS AMC13Link

AnySetting == BOOLEAN
RiderOnly == {TRUE}
FreshOnly == {FALSE}

(* The runs are instances of what the theorems say.                         *)
ASSUME SizesAreThoseOfTheorems == FirstBlockHasData /\ ReaderKnowsBlocks /\ PartsCopied
=============================================================================
