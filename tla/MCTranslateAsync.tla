-------------------------- MODULE MCTranslateAsync --------------------------
(* Small instances of the translation pool.                                *)
EXTENDS TranslateAsync
=============================================================================
