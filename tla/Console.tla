------------------------------- MODULE Console -------------------------------
(***************************************************************************)
(* The console of one person (web/src/routes/router.tsx): the list, the    *)
(* device page and the pages of accounts and roles, each with the part of  *)
(* the server it works on, and the two dialogs that are opened over pages, *)
(* printing and importing.  Every page is a route of its own, and what it  *)
(* holds ends with it.  They share no state that is modelled, so that      *)
(* their steps commute, and it is enough to let one be open at a time.     *)
(***************************************************************************)
EXTENDS AssetList, AssetForm, Accounts, PrintDialog, ImportDialog

VARIABLE page

consoleVars == <<page, listVars, formVars, accountsVars, printVars, importVars>>

ConsoleInit ==
    /\ page \in {"assets", "assets/:id", "roles", "print", "import"}
    /\ ListInit /\ FormInit /\ AccountsInit /\ PrintInit /\ ImportInit

OnList ==
    /\ page = "assets" /\ ListNext
    /\ UNCHANGED <<page, formVars, accountsVars, printVars, importVars>>

OnDevice ==
    /\ page = "assets/:id" /\ FormNext
    /\ UNCHANGED <<page, listVars, accountsVars, printVars, importVars>>

OnRoles ==
    /\ page = "roles" /\ AccountsNext
    /\ UNCHANGED <<page, listVars, formVars, printVars, importVars>>

OnPrint ==
    /\ page = "print" /\ PrintNext
    /\ UNCHANGED <<page, listVars, formVars, accountsVars, importVars>>

OnImport ==
    /\ page = "import" /\ ImportNext
    /\ UNCHANGED <<page, listVars, formVars, accountsVars, printVars>>

ConsoleNext == OnList \/ OnDevice \/ OnRoles \/ OnPrint \/ OnImport

ConsoleSpec == ConsoleInit /\ [][ConsoleNext]_consoleVars

(* What each page holds is what it is declared as, whichever is open       *)
(* (web/src/routes).                                                       *)
ConsoleTypeOK ==
    ListTypeOK /\ FormTypeOK /\ AccountsTypeOK /\ PrintTypeOK /\ ImportTypeOK

=============================================================================
