--------------------------- MODULE DirectoryStream ---------------------------
(* src/ps5_directory.cpp: opendir, readdir, rewinddir and closedir over         *)
(* getdents. The kernel hands out the folder's records in batches; a stream      *)
(* keeps one batch and answers one record at a time. A record is known by its    *)
(* place in the folder; "free" records have no inode, "bad" ones do not parse.   *)
EXTENDS ShimParameters

VARIABLES
    stream,      \* "closed", "open", or "reading": inside ps5_readdir
    position,    \* how many records the kernel has handed out since the rewind
    buffered,    \* how many of those lie between offset and bytes
    finished,
    broken,      \* whether an error finished it
    listed       \* the places of the records answered since the rewind

directoryVars == <<stream, position, buffered, finished, broken, listed>>

Consumed == position - buffered
Next1 == Consumed + 1

Fresh == position' = 0 /\ buffered' = 0 /\ finished' = FALSE /\ broken' = FALSE /\ listed' = <<>>

(* A failed open, or one without memory for the stream, leaves nothing.      *)
Opendir ==
    /\ stream = "closed"
    /\ stream' = "open"
    /\ Fresh

ReaddirCall ==
    /\ stream = "open"
    /\ stream' = "reading"
    /\ UNCHANGED <<position, buffered, finished, broken, listed>>

(* ps5_readdir answers nothing: at the end, after an error, and ever after.  *)
Finish(wrong) ==
    /\ stream' = "open"
    /\ finished' = TRUE
    /\ broken' = (broken \/ wrong)
    /\ UNCHANGED <<position, buffered, listed>>

ReaddirFinished ==
    /\ stream = "reading" /\ finished
    /\ Finish(FALSE)

(* The buffer is filled only when it is used up.                             *)
Refill ==
    /\ stream = "reading" /\ ~finished /\ buffered = 0
    /\ \E count \in 1 .. Batch :
          /\ position + count <= Len(Folder)
          /\ position' = position + count
          /\ buffered' = count
    /\ UNCHANGED <<stream, finished, broken, listed>>

RefillEnds ==
    /\ stream = "reading" /\ ~finished /\ buffered = 0
    /\ \/ position = Len(Folder) /\ Finish(FALSE)
       \/ Finish(TRUE)

TakeBad ==
    /\ stream = "reading" /\ ~finished /\ buffered > 0
    /\ Folder[Next1] = "bad"
    /\ Finish(TRUE)

TakeFree ==
    /\ stream = "reading" /\ ~finished /\ buffered > 0
    /\ Folder[Next1] = "free"
    /\ buffered' = buffered - 1
    /\ UNCHANGED <<stream, position, finished, broken, listed>>

TakeLive ==
    /\ stream = "reading" /\ ~finished /\ buffered > 0
    /\ Folder[Next1] = "live"
    /\ buffered' = buffered - 1
    /\ listed' = Append(listed, Next1)
    /\ stream' = "open"
    /\ UNCHANGED <<position, finished, broken>>

(* Mutated form: what is left in the buffer survives the rewind.             *)
RewindKeepsBuffer ==
    /\ stream = "open"
    /\ position' = 0 /\ finished' = FALSE /\ broken' = FALSE /\ listed' = <<>>
    /\ UNCHANGED <<stream, buffered>>

(* A seek that fails leaves the stream where it is.                          *)
Rewinddir ==
    /\ stream = "open"
    /\ Fresh
    /\ UNCHANGED stream

Closedir ==
    /\ stream = "open"
    /\ stream' = "closed"
    /\ UNCHANGED <<position, buffered, finished, broken, listed>>

DirectoryInit ==
    /\ stream = "closed"
    /\ position = 0 /\ buffered = 0 /\ finished = FALSE /\ broken = FALSE /\ listed = <<>>

DirectoryNext ==
    \/ Opendir \/ ReaddirCall \/ ReaddirFinished \/ Refill \/ RefillEnds
    \/ TakeBad \/ TakeFree \/ TakeLive \/ Rewinddir \/ Closedir

DirectorySpec == DirectoryInit /\ [][DirectoryNext]_directoryVars

-----------------------------------------------------------------------------
DirectoryTypeOK ==
    /\ stream \in {"closed", "open", "reading"}
    /\ position \in 0 .. Len(Folder) /\ buffered \in 0 .. position
    /\ finished \in BOOLEAN /\ broken \in BOOLEAN
    /\ listed \in Seq(Nat)

(* However the records fall into batches and wherever the stream was rewound,   *)
(* what was answered since is every live record up to the one it has come to,    *)
(* each once and in the folder's order.                                       *)
ListedInOrder ==
    /\ \A i \in DOMAIN listed : listed[i] \in 1 .. Consumed /\ Folder[listed[i]] = "live"
    /\ \A i, j \in DOMAIN listed : i < j => listed[i] < listed[j]
    /\ \A n \in 1 .. Consumed : Folder[n] = "live" => \E i \in DOMAIN listed : listed[i] = n

(* A listing that ends without an error has reached the end of the folder.    *)
EndIsTheEnd == finished /\ ~broken => position = Len(Folder) /\ buffered = 0

(* ps5_readdir's listing is right: see the parts.                            *)
ListingTrue == DirectoryTypeOK /\ ListedInOrder /\ EndIsTheEnd
=============================================================================
