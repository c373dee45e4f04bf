------------------------------- MODULE MCCfApi -------------------------------
(* Instances of CfApi for TLC: an empty file, one whose last chunk is short,  *)
(* and, in a subdirectory, one that promises a byte and has none.             *)
EXTENDS CfApi

AllFiles == {"empty", "whole", "short"}
AllSizes == [f \in AllFiles |-> CASE f = "empty" -> 0 [] f = "whole" -> 3 [] f = "short" -> 1]
AllReadable == [f \in AllFiles |-> CASE f = "empty" -> 0 [] f = "whole" -> 3 [] f = "short" -> 0]
AllIn == [e \in AllFiles \union {"sub"} |-> IF e = "short" THEN "sub" ELSE "root"]

OneFile == {"whole"}
OneSize == [f \in OneFile |-> 3]
OneIn == [f \in OneFile |-> "root"]
==============================================================================
