---------------------------- MODULE MCFileExtractor ----------------------------
(***************************************************************************)
(* Small instances of FileExtractor: installations of two or three files   *)
(* of up to three units, on slices of four.                                *)
(***************************************************************************)
EXTENDS FileExtractor

File(n, c, e) == [size |-> n, compressed |-> c, encrypted |-> e, solidBreak |-> FALSE,
                  strategy |-> "zstd"]
Break(f) == [f EXCEPT !.solidBreak = TRUE]

\* What Compression=<method> stands for.
DefaultLevel == [none |-> 0, zip |-> 7, bzip |-> 9, lzma |-> 3, lzma2 |-> 3,
                 brotli |-> 6, zstd |-> 6, smart |-> 2]

Script(method, solid, room, files) ==
  [method |-> method, level |-> DefaultLevel[method], solid |-> solid, spanning |-> TRUE,
   room |-> room, files |-> files]
At5(s) == [s EXCEPT !.level = 5]
OneFile(s) == [s EXCEPT !.spanning = FALSE]

\* One chunk over three slices; chunks that share a slice; a chunk that ends
\* with its slice; empty files; files excepted from compression or encryption
\* in the middle of a solid script; a chunk that is broken.
ScriptsThatWork ==
  {Script("lzma2", TRUE, room, <<File(3, TRUE, FALSE), File(0, TRUE, FALSE), File(2, TRUE, FALSE)>>)
     : room \in 0..4}
  \cup {Script("zip", TRUE, 3, <<File(3, TRUE, TRUE), File(2, TRUE, TRUE)>>),
        Script("lzma", FALSE, 4, <<File(2, TRUE, TRUE), File(1, TRUE, TRUE), File(0, TRUE, TRUE)>>),
        Script("zip", TRUE, 4, <<File(2, TRUE, FALSE), File(1, FALSE, FALSE), File(2, TRUE, FALSE)>>),
        Script("zip", TRUE, 4, <<File(2, TRUE, TRUE), File(1, TRUE, FALSE), File(1, TRUE, TRUE)>>),
        Script("lzma2", TRUE, 2, <<File(1, TRUE, FALSE), Break(File(2, TRUE, FALSE))>>),
        Script("lzma2", TRUE, 2, <<File(0, TRUE, FALSE), File(3, TRUE, FALSE), Break(File(2, TRUE, FALSE))>>),
        Script("none", TRUE, 2, <<File(3, FALSE, TRUE), File(3, FALSE, TRUE)>>),
        OneFile(Script("lzma2", TRUE, 10, <<File(3, TRUE, FALSE), File(2, TRUE, FALSE)>>)),
        OneFile(Script("lzma2", TRUE, 3, <<File(3, TRUE, FALSE)>>)),
        OneFile(Script("none", FALSE, 3, <<File(2, FALSE, FALSE), File(1, FALSE, FALSE)>>)),
        \* Two that no compressor takes, the second in the middle of the script.
        Script("bzip", TRUE, 4, <<File(2, TRUE, FALSE)>>),
        Script("brotli", TRUE, 1, <<File(2, FALSE, FALSE), File(2, TRUE, FALSE)>>)}

\* Compression=bzip/5.  Without a level, or with a higher one, it does not
\* compile: see ScriptsThatWork.
ScriptsForBzip == {At5(Script("bzip", TRUE, 4, <<File(2, TRUE, FALSE)>>))}
=================================================================================
