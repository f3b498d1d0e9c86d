--------------------------- MODULE MCCredentialFile ---------------------------
(***************************************************************************)
(* Small instances of CredentialFile.  Processes are only ever compared    *)
(* for equality, so one of the calls may as well be of the first.          *)
(***************************************************************************)
EXTENDS CredentialFile

FirstCall == CHOOSE c \in Call : TRUE
FirstProc == CHOOSE p \in Proc : TRUE

FirstInit == Init /\ procOf[FirstCall] = FirstProc

FirstSpec == FirstInit /\ [][Next]_vars /\ Fairness
=============================================================================
