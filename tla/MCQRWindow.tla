------------------------------ MODULE MCQRWindow ------------------------------
(* TLC instance of QRWindow: the requests are interchangeable.              *)
EXTENDS QRWindow, TLC

ReaderSymmetry == Permutations(Readers)
=============================================================================
