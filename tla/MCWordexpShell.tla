---------------------------- MODULE MCWordexpShell ----------------------------
(* WordexpShell with pipes of two pieces and shells that succeed, complain *)
(* before, between or after the words, print too little, or fill stderr.   *)
EXTENDS WordexpShell

O(n_, prints, status_) == [announced |-> n_, prints |-> prints, status |-> status_]

MCOutputs == {
    O(2, <<"count", "word", "word">>, 0),
    O(3, <<"count", "word", "word", "word">>, 0),
    O(0, <<"count">>, 0),
    O(1, <<"count", "word", "error">>, 0),
    O(2, <<"warning", "count", "word", "error", "word">>, 0),
    O(1, <<"count", "warning", "word", "warning", "error">>, 0),
    O(1, <<"warning", "error", "count", "word", "warning">>, 0),
    O(2, <<"count", "word", "error">>, 1),
    O(1, <<"error">>, 1),
    O(2, <<"warning">>, 0),
    O(1, <<"warning", "warning", "warning", "count", "word">>, 0) }
================================================================================
