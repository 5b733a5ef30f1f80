------------------------------ MODULE MCLoadGen ------------------------------
(* Constants for checking LoadGen.tla: prompts that share a first block, one  *)
(* shorter than a block, and each fault.                                      *)
EXTENDS LoadGen

Prompt(blocks, fault) ==
    [estimate |-> Len(blocks) * BlockTokens + 5, blocks |-> blocks, maxTokens |-> 8, fault |-> fault]

AllItems ==
    {Prompt(<<>>, "none"), Prompt(<<"hot">>, "none"), Prompt(<<"hot", "doc">>, "none"),
     Prompt(<<"cold">>, "none"), Prompt(<<"hot", "doc">>, "midstream"), Prompt(<<"cold">>, "before_first")}
=============================================================================
