-------------------------------- MODULE Pump --------------------------------
(***************************************************************************)
(* The tee of net/pump.rs: spawn_pump copies a body to a SharedBody, to a  *)
(* file, or to both.  It is one of the two producers of SharedBody (waits  *)
(* is FALSE): it pushes without waiting and then writes the same chunk to  *)
(* a temporary file, which takes the name of the destination only at the   *)
(* end.  The subscribers come, read and go between its steps.              *)
(*                                                                         *)
(* The first chunk is the peek, which is written and pushed before the     *)
(* loop.  Without a shared target nobody can hold a handle.                *)
(***************************************************************************)
EXTENDS SharedBody

VARIABLES
    shared, file_dest,   \* the targets: both are Some, or one of them
    file,                \* none, temp, renamed (to file_dest), gone (the temporary file is removed)
    file_error,
    written, filed,      \* chunks in the file, chunks write_to_file was called with
    tee,                 \* setup, peek, loop, flushed, ended, done
    result               \* of the task: None, "path", "nothing" or "error"

targetVars == <<shared, file_dest>>
fileVars   == <<file, file_error, written>>
teeVars    == <<targetVars, fileVars, filed, tee, result>>
allVars    == <<vars, teeVars>>

PumpInit ==
    /\ Init
    /\ shared \in BOOLEAN /\ file_dest \in BOOLEAN /\ (shared \/ file_dest)
    /\ waits => shared /\ ~file_dest
    /\ file = "none" /\ file_error = FALSE /\ written = 0 /\ filed = 0
    /\ tee = "setup" /\ result = None

-----------------------------------------------------------------------------
\* The temporary file is made and the peek written to it.  Where that fails a shared target
\* goes on without a file, and a file-only pump ends.
setup ==
    /\ tee = "setup" /\ ~waits
    /\ filed' = 1
    /\ \/ ~file_dest /\ tee' = "peek" /\ UNCHANGED <<fileVars, result>>
       \/ file_dest /\ file' = "temp" /\ written' = 1 /\ tee' = "peek"
          /\ UNCHANGED <<file_error, result>>
       \/ file_dest /\ shared /\ file_error' = TRUE /\ tee' = "peek"
          /\ UNCHANGED <<file, written, result>>
       \/ file_dest /\ ~shared /\ result' = "error" /\ tee' = "done" /\ UNCHANGED fileVars
    /\ UNCHANGED <<vars, targetVars>>

push_peek ==
    /\ tee = "peek"
    /\ read /\ tee' = "loop"
    /\ UNCHANGED <<targetVars, fileVars, filed, result>>

\* The top of the loop: what was read before is pushed and written.
Looping == tee = "loop" /\ pump = "reading" /\ filed = sent

pump_read ==
    /\ Looping /\ read
    /\ UNCHANGED teeVars

write_to_file_again ==
    /\ tee = "loop" /\ pump = "reading" /\ filed < sent
    /\ filed' = sent
    /\ \/ file = "none" /\ UNCHANGED <<written, file_error>>
       \/ file = "temp" /\ written' = written + 1 /\ UNCHANGED file_error
       \/ file = "temp" /\ UNCHANGED <<written, file_error>>
    /\ UNCHANGED <<vars, targetVars, file, tee, result>>

\* A chunk goes to the file once it was pushed.  A failure is kept, and stops the writes
\* but not the stream.
write_to_file ==
    /\ tee = "loop" /\ pump = "reading" /\ filed < sent
    /\ filed' = sent
    /\ \/ (file = "none" \/ file_error) /\ UNCHANGED <<written, file_error>>
       \/ file = "temp" /\ ~file_error /\ written' = written + 1 /\ UNCHANGED file_error
       \/ file = "temp" /\ ~file_error /\ file_error' = TRUE /\ UNCHANGED written
    /\ UNCHANGED <<vars, targetVars, file, tee, result>>

\* The end of the source: the file is flushed, which may fail, and then the shared body
\* ends, cleanly whatever became of the file.
flush ==
    /\ Looping /\ sent = BodyLen
    /\ \/ UNCHANGED file_error
       \/ file = "temp" /\ ~file_error /\ file_error' = TRUE
    /\ tee' = "flushed"
    /\ UNCHANGED <<vars, targetVars, file, written, filed, result>>

pump_finish ==
    /\ tee = "flushed" /\ finish /\ tee' = "ended"
    /\ UNCHANGED <<targetVars, fileVars, filed, result>>

\* Cancelled, timed out or failed to read.
pump_error ==
    /\ Looping /\ error /\ tee' = "ended"
    /\ UNCHANGED <<targetVars, fileVars, filed, result>>

Removed == IF file = "temp" THEN "gone" ELSE file

\* The end of the task: the file gets its name after a clean transfer that wrote all of it,
\* and is removed with the writer otherwise.
settle ==
    /\ tee = "ended" /\ tee' = "done"
    /\ \/ (failed \/ (file_dest /\ file_error)) /\ result' = "error" /\ file' = Removed
       \/ ~failed /\ ~file_dest /\ result' = "nothing" /\ UNCHANGED file
       \/ ~failed /\ file_dest /\ ~file_error
          /\ \/ result' = "path" /\ file' = "renamed"
             \/ result' = "error" /\ file' = Removed
    /\ UNCHANGED <<vars, targetVars, file_error, written, filed>>

-----------------------------------------------------------------------------
\* The steps that wait for nothing but the disk.
TeeStep == setup \/ push_peek \/ write_to_file \/ pump_finish \/ settle

PumpNext ==
    \/ /\ \/ shared /\ \E s \in Subs : subscribe(s) \/ poll_next(s) \/ drop_stream(s)
          \/ DropHandle \/ Deliver
          \/ waits /\ (first_subscriber \/ stop_abandoned \/ Reader)
       /\ UNCHANGED teeVars
    \/ TeeStep \/ pump_read \/ flush \/ pump_error

PumpSpec == PumpInit /\ [][PumpNext]_allVars /\ PumpFairness /\ WF_allVars(TeeStep)

-----------------------------------------------------------------------------
\* A file with the destination's name is the whole body of a transfer that ended cleanly,
\* and the task says so; once the task is over no temporary file is left.
FileIsWhole ==
    /\ file = "renamed" => written = BodyLen /\ closed /\ ~failed
    /\ tee = "done" => (result = "path") = (file = "renamed") /\ file # "temp"
=============================================================================
