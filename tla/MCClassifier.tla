---------------------------- MODULE MCClassifier ----------------------------
(* Small instances of Classifier.                                          *)
EXTENDS Classifier
=============================================================================
