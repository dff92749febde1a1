----------------------- MODULE MCInstallTransaction -----------------------
(* Instances of InstallTransaction for TLC.                                *)
EXTENDS InstallTransaction

CONSTANTS a, b,           \* applications
          dll, exe, dat1, \* files
          root, vendor, appA, appB, sub, common

\* Two applications that share one file, in a directory of its own.
SharedApps == {a, b}
SharedFiles == {dll, exe, dat1}
SharedDirs == {root, common, appA, appB}
SharedParent == [d \in SharedDirs |-> root]
SharedDirOf == dll :> common @@ exe :> appA @@ dat1 :> appB
SharedAppDir == a :> appA @@ b :> appB
SharedExtraDirs == a :> <<>> @@ b :> <<>>
SharedEntries ==
  a :> << [file |-> dll, opts |-> {"shared", "restartreplace", "restartdelete"}],
          [file |-> exe, opts |-> {}] >>
  @@ b :> << [file |-> dll, opts |-> {"shared", "noprompt", "onlyifdoesntexist"}],
             [file |-> dat1, opts |-> {"shared", "neveruninstall"}] >>

\* One application whose shared file is an assembly.
AssemblyApps == {a}
AssemblyFiles == {dll}
AssemblyDirOf == dll :> common
AssemblyAppDir == a :> appA
AssemblyEntries ==
  a :> << [file |-> dll, opts |-> {"shared", "restartreplace", "gacinstall"}] >>

\* Two applications of one vendor; files that may be in use.
VendorDirs == {root, vendor, appA, appB, sub}
VendorParent ==
  root :> root @@ vendor :> root @@ appA :> vendor @@ appB :> vendor @@ sub :> appA
VendorDirOf == exe :> sub @@ dat1 :> appB
VendorFiles == {exe, dat1}
VendorExtraDirs == a :> << [dir |-> sub, opts |-> {}] >> @@ b :> <<>>
VendorEntries ==
  a :> << [file |-> exe, opts |-> {"restartreplace", "restartdelete"}] >>
  @@ b :> << [file |-> dat1, opts |-> {"restartdelete"}] >>

None == {}
Installs == {"install"}
=============================================================================
