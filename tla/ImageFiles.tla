------------------------------ MODULE ImageFiles ------------------------------
(***************************************************************************)
(* The drawn images of a service: render calls that draw in a blocking     *)
(* thread, save their image under a name nobody has, and then clean up the *)
(* directory they all share.  A save takes no lock; a step is one file     *)
(* operation the other threads may see.  Time is in seconds.               *)
(***************************************************************************)
EXTENDS Integers, FiniteSets

CONSTANTS
  Calls,        \* bound: calls of the tools that draw
  Stem,         \* what their images are named after: the tool and its subject
  Slots,        \* drawings a service makes at once (render_slots)
  MaxFiles,     \* max_files of the policy
  Ttl,          \* and its ttl
  Attempts,     \* names that are tried for one image
  MaxSeconds,   \* bound: the time
  MaxSaveFaults \* bound: operations that fail

ASSUME PolicyAssumption ==
  /\ Slots \in Nat \ {0} /\ MaxFiles \in Nat \ {0} /\ Ttl \in Nat \ {0} /\ Attempts \in Nat \ {0}
  /\ Calls \in Nat /\ MaxSeconds \in Nat /\ MaxSaveFaults \in Nat

VARIABLES
  images,  \* the png files of the directory
  hidden,  \* calls whose temporary file is in the directory
  render,  \* every call: where it is and what it knows
  second,  \* the time
  faults,  \* what is left of MaxSaveFaults
  saved    \* every image there ever was (history)

imageVars == <<images, hidden, render, second, faults, saved>>

Render == 1..Calls   \* numbered as they come

NotAsked == [pc |-> "idle", stem |-> "none", now |-> 0, attempt |-> 0, time |-> 0,
             listed |-> {}, doomed |-> {}]

(* The directory is empty at first; what a killed process leaves in it the  *)
(* next one finds.                                                          *)
ImageInit ==
  /\ images = {} /\ hidden = {} /\ saved = {}
  /\ render = [r \in Render |-> NotAsked]
  /\ second = 0 /\ faults = MaxSaveFaults

-----------------------------------------------------------------------------
At(r, pc) == render[r].pc = pc
Becomes(r, new) == render' = [render EXCEPT ![r] = new]
GoesTo(r, pc) == Becomes(r, [render[r] EXCEPT !.pc = pc])

(* The call ends; its thread gives the permit back.                        *)
Ends(r, how) == Becomes(r, [NotAsked EXCEPT !.pc = how])
Fails(r) == Ends(r, "failed")

Works == UNCHANGED faults
Breaks == faults > 0 /\ faults' = faults - 1

Taken == {i.name : i \in images}
Name(r) == <<render[r].stem, render[r].now, render[r].attempt>>
Unlinked(name) == {i \in images : i.name # name}

(* The temporary is removed after a failure; nobody looks whether it is.    *)
DropTemporary(r) == hidden' \in {hidden \ {r}, hidden}

-----------------------------------------------------------------------------
(* From the call to the drawing.                                           *)

Ask(r) ==
  /\ At(r, "idle") /\ \A earlier \in 1..(r - 1) : ~At(earlier, "idle")
  /\ \E stem \in Stem :
       Becomes(r, [NotAsked EXCEPT !.pc = "waiting", !.stem = stem, !.now = second])
  /\ UNCHANGED <<images, hidden, second, faults, saved>>

Working == {r \in Render : render[r].pc \notin {"idle", "waiting", "done", "failed", "killed"}}

(* The permit is moved into the thread that draws and saves; a call of     *)
(* render_b50_image that waits too long gives up.                          *)
Acquire(r) ==
  /\ At(r, "waiting")
  /\ \/ Cardinality(Working) < Slots /\ GoesTo(r, "drawing")
     \/ Cardinality(Working) = Slots /\ Fails(r)
  /\ UNCHANGED <<images, hidden, second, faults, saved>>

(* The drawing itself; an asset may be missing.                            *)
Draw(r) ==
  /\ At(r, "drawing")
  /\ \/ Works /\ GoesTo(r, "create")
     \/ Breaks /\ Fails(r)
  /\ UNCHANGED <<images, hidden, second, saved>>

-----------------------------------------------------------------------------
(* atomic_write_unique.                                                    *)

(* The directory is there, and a new hidden file in it.                    *)
CreateTemporary(r) ==
  /\ At(r, "create")
  /\ \/ Works /\ hidden' = hidden \cup {r} /\ GoesTo(r, "write")
     \/ Breaks /\ Fails(r) /\ UNCHANGED hidden
  /\ UNCHANGED <<images, second, saved>>

(* The bytes, which give the file its time.                                *)
WriteAll(r) ==
  /\ At(r, "write")
  /\ \/ Works /\ Becomes(r, [render[r] EXCEPT !.pc = "link", !.time = second]) /\ UNCHANGED hidden
     \/ Breaks /\ Fails(r) /\ DropTemporary(r)
  /\ UNCHANGED <<images, second, saved>>

(* Mutant: the image is renamed to its name, whoever has it.               *)
RenameOver(r) ==
  /\ At(r, "link")
  /\ LET image == [name |-> Name(r), by |-> r, time |-> render[r].time]
     IN images' = Unlinked(Name(r)) \cup {image} /\ saved' = saved \cup {image}
  /\ GoesTo(r, "unlink")
  /\ UNCHANGED <<hidden, second, faults>>

(* The whole file gets a name that nobody has.                             *)
HardLink(r) ==
  /\ At(r, "link")
  /\ \/ /\ Works /\ Name(r) \notin Taken
        /\ LET image == [name |-> Name(r), by |-> r, time |-> render[r].time]
           IN images' = images \cup {image} /\ saved' = saved \cup {image}
        /\ GoesTo(r, "unlink") /\ UNCHANGED hidden
     \/ /\ Works /\ Name(r) \in Taken /\ render[r].attempt + 1 < Attempts
        /\ Becomes(r, [render[r] EXCEPT !.attempt = @ + 1])
        /\ UNCHANGED <<images, hidden, saved>>
     \/ /\ \/ Works /\ Name(r) \in Taken /\ render[r].attempt + 1 = Attempts
           \/ Breaks
        /\ Fails(r) /\ DropTemporary(r) /\ UNCHANGED <<images, saved>>
  /\ UNCHANGED second

(* The hidden name goes; if it does not, the image stays all the same.     *)
UnlinkTemporary(r) ==
  /\ At(r, "unlink")
  /\ \/ Works /\ hidden' = hidden \ {r} /\ GoesTo(r, "secure")
     \/ Breaks /\ Fails(r) /\ UNCHANGED hidden
  /\ UNCHANGED <<images, second, saved>>

(* Its mode is set by its name, which another call's cleanup may have      *)
(* removed by now; and the directory is synced.                            *)
Secure(r) ==
  /\ At(r, "secure")
  /\ \/ Works /\ Name(r) \in Taken /\ GoesTo(r, "list")
     \/ Works /\ Name(r) \notin Taken /\ Fails(r)
     \/ Breaks /\ Fails(r)
  /\ UNCHANGED <<images, hidden, second, saved>>

-----------------------------------------------------------------------------
(* cleanup, with the call's own time.                                      *)

(* png_files reads the directory entry by entry: a file that comes or goes *)
(* meanwhile may be seen or not.                                           *)
BeginList(r) ==
  /\ At(r, "list")
  /\ \/ Works /\ Becomes(r, [render[r] EXCEPT !.pc = "listing", !.listed = images])
     \/ Breaks /\ Fails(r)
  /\ UNCHANGED <<images, hidden, second, saved>>

ExpiredAt(now) == {i \in saved : i.time <= now - Ttl}

EndList(r) ==
  /\ At(r, "listing")
  /\ \E seen \in SUBSET (render[r].listed \cup images) :
       /\ render[r].listed \cap images \subseteq seen
       /\ Becomes(r, [render[r] EXCEPT !.pc = "expire", !.listed = seen,
                        !.doomed = seen \cap ExpiredAt(render[r].now)])
  /\ UNCHANGED <<images, hidden, second, faults, saved>>

(* One of the files it has chosen is removed, by its name.                 *)
RemoveFile(r) ==
  /\ render[r].pc \in {"expire", "trim"}
  /\ \E i \in render[r].doomed :
       \/ /\ Works /\ images' = Unlinked(i.name)
          /\ Becomes(r, [render[r] EXCEPT !.doomed = @ \ {i}])
       \/ Breaks /\ Fails(r) /\ UNCHANGED images
  /\ UNCHANGED <<hidden, second, saved>>

(* Mutant: the files are sorted with the oldest first.                     *)
OldestFirst(listed) ==
  {kept \in SUBSET listed :
     /\ Cardinality(kept) = IF Cardinality(listed) < MaxFiles THEN Cardinality(listed) ELSE MaxFiles
     /\ \A i \in kept, j \in listed \ kept : i.time <= j.time}

(* The newest MaxFiles files; those of one time come in any order.         *)
Newest(listed) ==
  {kept \in SUBSET listed :
     /\ Cardinality(kept) = IF Cardinality(listed) < MaxFiles THEN Cardinality(listed) ELSE MaxFiles
     /\ \A i \in kept, j \in listed \ kept : i.time >= j.time}

(* Those still there are counted, the oldest too many are chosen.          *)
Retain(r) ==
  /\ At(r, "expire") /\ render[r].doomed = {}
  /\ LET there == {i \in render[r].listed : i.name \in Taken}
     IN \E kept \in Newest(there) :
          Becomes(r, [render[r] EXCEPT !.pc = "trim", !.listed = {}, !.doomed = there \ kept])
  /\ UNCHANGED <<images, hidden, second, faults, saved>>

(* The caller is told the path.                                            *)
Answer(r) ==
  /\ At(r, "trim") /\ render[r].doomed = {}
  /\ Ends(r, "done")
  /\ UNCHANGED <<images, hidden, second, faults, saved>>

-----------------------------------------------------------------------------
SecondPasses ==
  /\ second < MaxSeconds /\ second' = second + 1
  /\ UNCHANGED <<images, hidden, render, faults, saved>>

(* The process is killed; the calls that were not made yet find the next.  *)
KillDrawing ==
  /\ Breaks
  /\ render' = [r \in Render |-> IF At(r, "idle") THEN render[r] ELSE [NotAsked EXCEPT !.pc = "killed"]]
  /\ UNCHANGED <<images, hidden, second, saved>>

Save(r) == CreateTemporary(r) \/ WriteAll(r) \/ HardLink(r) \/ UnlinkTemporary(r) \/ Secure(r)
Cleanup(r) == BeginList(r) \/ EndList(r) \/ RemoveFile(r) \/ Retain(r)
RenderCall(r) == Ask(r) \/ Acquire(r) \/ Draw(r) \/ Save(r) \/ Cleanup(r) \/ Answer(r)

(* Every call has ended. *)
AllDrawn == (\A r \in Render : render[r].pc \in {"done", "failed", "killed"}) /\ UNCHANGED imageVars

ImageNext == SecondPasses \/ KillDrawing \/ AllDrawn \/ \E r \in Render : RenderCall(r)
ImageSpec == ImageInit /\ [][ImageNext]_imageVars

-----------------------------------------------------------------------------
(* However saves, cleanups, failures and kills overlap, nobody's image is  *)
(* replaced by another one, and an image goes only after the ttl or when   *)
(* MaxFiles others at least as new had been saved.  The exception is a     *)
(* name that was free again and used for a newer image in the same second, *)
(* while a cleanup had the older one in its list.                          *)
ImagesKept ==
  [][\A i \in images \ images' :
       \/ \E r \in Render : ~At(r, "idle") /\ i \in ExpiredAt(render[r].now)
       \/ Cardinality({j \in saved \ {i} : j.time >= i.time}) >= MaxFiles
       \/ \E j \in saved \ {i} : j.name = i.name]_imageVars
=============================================================================
