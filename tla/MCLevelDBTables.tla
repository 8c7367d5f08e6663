---------------------------- MODULE MCLevelDBTables ----------------------------
(***************************************************************************)
(* The parts of LevelDB about table files, in one run: their life in the   *)
(* directory, what is inside one, and the iterators over all of them.      *)
(* part says which of them a behaviour is about; the others stand still.   *)
(***************************************************************************)
EXTENDS TableFiles, TableIndex, DBIterator, TLC

VARIABLE part

partVars == <<part, fileVars, tableVars, iterVars>>

Parts == {"files", "index", "iterator"}

MCReaders == Permutations(Readers)

\* Prefixes of each other, bytes to raise, bytes next to each other, 0xff.
MCStrings == {<<0>>, <<0, 0>>, <<0, 2>>, <<1>>, <<2>>, <<2, 2>>}

\* The database under an iterator that is not looked at.
MCOneKey ==
    /\ sequence_ = StoredSeq
    /\ child = [c \in Children |-> IF c # 1 THEN {} ELSE
                    {[k |-> 1, s |-> s, del |-> FALSE] : s \in 1..StoredSeq}]

Init ==
    /\ part \in Parts
    /\ FilesInit /\ TableInit /\ IterInit
    /\ part # "iterator" => MCOneKey

FilesStep == part = "files" /\ FilesNext /\ UNCHANGED <<part, tableVars, iterVars>>
IndexStep == part = "index" /\ TableNextState /\ UNCHANGED <<part, fileVars, iterVars>>
IteratorStep == part = "iterator" /\ IterNext /\ UNCHANGED <<part, fileVars, tableVars>>

Next == FilesStep \/ IndexStep \/ IteratorStep

Spec == Init /\ [][Next]_partVars

\* Versions and handles in use have references, and iterators and files are
\* what their types say.
StorageTypesOK == FilesTypeOK /\ IterTypeOK
===============================================================================
