----------------------------- MODULE DatabaseDump -----------------------------
(***************************************************************************)
(* The two ends of a dump: DatabaseExport writes one, DatabaseImport reads *)
(* one.  They run on threads of their own and share no state but the       *)
(* index, of which each sees its own side, so a run follows one of them:   *)
(* end says which, and the other stays as it starts.                       *)
(***************************************************************************)
EXTENDS DatabaseExport, DatabaseImport

VARIABLE end

dumpVars == <<end, vars, importVars>>

DumpInit ==
  /\ end \in {"export", "import"}
  /\ Init /\ (end = "import" => index = {})
  /\ ImportInit /\ (end = "export" => \A p \in Paths : file[p] = NoDump)

Exporting(step) == end = "export" /\ step /\ UNCHANGED <<end, importVars>>
Importing == end = "import" /\ ImportNext /\ UNCHANGED <<end, vars>>

(* Both threads of an export are scheduled and no query or write takes for  *)
(* ever.                                                                    *)
DumpSpec ==
  /\ DumpInit /\ [][Exporting(Next) \/ Importing]_dumpVars
  /\ WF_dumpVars(Exporting(ReaderStep)) /\ WF_dumpVars(Exporting(WriterStep))

-----------------------------------------------------------------------------
(* Whatever fails and whenever it is cancelled, neither thread waits for    *)
(* the other for ever: run() returns.                                       *)
ExportReturns == end = "export" ~> outcome # "none"
=============================================================================
