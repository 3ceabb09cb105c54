---------------------------- MODULE BufferedFile ----------------------------
(***************************************************************************)
(* What the processes that have one file open may rely on: a single content*)
(* that every write changes in the bytes it writes and nowhere else, and a *)
(* stored copy that a successful save makes equal to all of that content.  *)
(* One kind of save loses bytes: that of a truncate that did not see the   *)
(* stored file.  It loses none that were written since.                    *)
(* Nothing is said of pages, downloads or local files: FdEntity.tla is the *)
(* machinery that has to provide this.                                     *)
(***************************************************************************)
EXTENDS Integers

CONSTANTS MaxSize,                   \* no file is larger
          Byte, Zero                 \* the values of a byte, and that of a hole

VARIABLES
  content, stored,                   \* what processes see, and what is stored
  dirty,                             \* there are writes that were not saved
  open,
  unseen                             \* a truncate is under way that did not see the stored file

Offsets == 0..MaxSize - 1

\* A file is its size and its bytes, with Zero behind the end.
File(size, data) == [size |-> size, data |-> [i \in Offsets |-> IF i < size THEN data[i] ELSE Zero]]
Empty  == File(0, [i \in Offsets |-> Zero])
Cut(f, n) == File(n, f.data)

Overwritten(f, start, len, b) ==
  File(IF f.size < start + len THEN start + len ELSE f.size,
       [i \in Offsets |-> IF start <= i /\ i < start + len THEN b ELSE f.data[i]])

Files == [size : 0..MaxSize, data : [Offsets -> Byte]]

Init == /\ stored \in Files /\ stored = Cut(stored, stored.size)
        /\ content = Empty /\ dirty = FALSE /\ open = FALSE /\ unseen = FALSE

\* The first open shows the stored file, cut or stretched to n bytes; it may be that
\* of a truncate that did not see the file.
Open(n) == /\ ~open /\ open' = TRUE /\ unseen' \in BOOLEAN
           /\ content' = Cut(stored, n) /\ dirty' = FALSE
           /\ UNCHANGED stored

Put(start, len, b) == /\ open
                      /\ content' = Overwritten(content, start, len, b) /\ dirty' = TRUE
                      /\ UNCHANGED <<stored, open, unseen>>

Save == /\ open
        /\ stored' = content /\ dirty' = FALSE
        /\ UNCHANGED <<content, open, unseen>>

\* A save that reports an error may still have reached the store.
FailedSave == /\ open
              /\ stored' = content
              /\ UNCHANGED <<content, dirty, open, unseen>>

\* The bytes i \in lost of a file become Zero.
Without(f, lost) == File(f.size, [i \in Offsets |-> IF i \in lost THEN Zero ELSE f.data[i]])

\* The save of a truncate that did not see the stored file takes bytes from it, but
\* not when there are writes to save.  It may report an error all the same.
SaveUnseen == /\ open /\ unseen /\ unseen' = FALSE
              /\ \E lost \in SUBSET Offsets :
                   /\ dirty => lost = {}
                   /\ content' = Without(content, lost)
              /\ stored' = content' /\ dirty' \in {dirty, FALSE}
              /\ UNCHANGED open

\* Or it fails and stores nothing.
GiveUp == /\ open /\ unseen /\ unseen' = FALSE
          /\ UNCHANGED <<content, stored, dirty, open>>

\* What the last close finds unsaved is gone.
Close == /\ open /\ open' = FALSE
         /\ content' = Empty /\ dirty' = FALSE
         /\ UNCHANGED <<stored, unseen>>

Next == \/ \E n \in 0..MaxSize : Open(n)
        \/ \E start \in 0..MaxSize, len \in 0..MaxSize, b \in Byte :
              start + len <= MaxSize /\ Put(start, len, b)
        \/ Save
        \/ FailedSave
        \/ SaveUnseen
        \/ GiveUp
        \/ Close

Spec == Init /\ [][Next]_<<content, stored, dirty, open, unseen>>

==============================================================================
