---------------------------- MODULE MCLifecycle ----------------------------
(***************************************************************************)
(* Small instances of Lifecycle.  PHP code that runs inside the parser or  *)
(* inside a validation may start any operation.                            *)
(***************************************************************************)
EXTENDS Lifecycle, TLC

CONSTANTS o1, o2, t1, t2, t3, plain, texts, word, broken

Objects == {o1, o2}
Addresses == {t1, t2, t3}
RuleSets == {plain, texts}
Patterns == {word, broken}
Used == (plain :> {}) @@ (texts :> {word, broken})
Valid == {word}

\* Everything, from everywhere.
AnyCall == Functions \X Operations
=============================================================================
