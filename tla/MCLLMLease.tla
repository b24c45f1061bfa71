----------------------------- MODULE MCLLMLease -----------------------------
(* A small instance of LLMLease: the Guardian, two workflow stages, the     *)
(* operator's chat and the background reconciliation, which asks without    *)
(* waiting.  Each may come back for the lease any number of times.          *)
EXTENDS LLMLease
CONSTANTS guardian, stage1, stage2, chat, background

MCCalls == {guardian, stage1, stage2, chat, background}
MCPriority == [c \in MCCalls |->
    CASE c = guardian -> 0
      [] c = chat -> 20
      [] c = background -> 30
      [] OTHER -> 10]
MCPatient == {guardian, stage1, stage2, chat}
=============================================================================
