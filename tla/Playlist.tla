------------------------------ MODULE Playlist ------------------------------
(***************************************************************************)
(* Playlist capture: title samples read from the screen cut one recording  *)
(* into logical videos, which a user reviews (PlaylistService).            *)
(*                                                                         *)
(* The dashboard makes a service, and so a lock, for each request: two     *)
(* requests load playlist.json, change what they loaded and save it        *)
(* without excluding each other.                                           *)
(*                                                                         *)
(* Simplifications.                                                        *)
(*  - A title is its signature; whether a sample is clear enough or needs  *)
(*    a review is a choice, made once for each sample.                     *)
(*  - Offsets stand for the fragment sequences sent with them.             *)
(*  - Counts of samples stop at StableSamples.                             *)
(*  - Renaming, dating and confirming a video change marks of it only; the *)
(*    same edits of a candidate are left out.                              *)
(***************************************************************************)
EXTENDS Integers, FiniteSets, FiniteSetsExt, Sequences, SequencesExt

CONSTANTS
  Requests,   \* requests of the dashboard
  Titles,     \* signatures of titles
  MaxOffset,  \* bound: the recording's length
  MaxOps,     \* bound: requests made
  None

StableSamples == 2
Offsets == 0 .. MaxOffset

VARIABLES
  clock,    \* offset the recording has reached
  file,     \* playlist.json
  request,  \* each request: what it asks and what it loaded
  \* history
  asked,    \* requests made
  settled,  \* reviews acknowledged to a request that met no other: <<kind, number>>
  merges    \* some video was merged into its neighbour

pvars == <<clock, file, request, asked, settled, merges>>

Video     == [id : Nat, title : Titles, start : Offsets, end : Offsets \cup {None},
              marks : SUBSET (1 .. MaxOps)]
Candidate == [id : 1 .. MaxOps, title : Titles, at : Offsets]

Empty == [candidate |-> None, count |-> 0, since |-> 0, reviewed |-> None, reviews |-> 0,
          current |-> None, videos |-> <<>>, candidates |-> {}]

Free == [kind |-> "none", title |-> None, at |-> 0, on |-> 0, number |-> 0,
         data |-> Empty, alone |-> TRUE]

TypeOK ==
  /\ clock \in Offsets
  /\ file.candidate \in Titles \cup {None} /\ file.count \in 0 .. StableSamples
  /\ file.reviewed \in Titles \cup {None} /\ file.reviews \in 0 .. StableSamples
  /\ file.current \in Titles \cup {None} /\ file.since \in Offsets
  /\ \A i \in DOMAIN file.videos : file.videos[i] \in Video /\ file.videos[i].id > 0
  /\ file.candidates \subseteq Candidate
  /\ asked \in 0 .. MaxOps
  /\ settled \subseteq {"mark", "confirm"} \X (1 .. MaxOps)
  /\ merges \in BOOLEAN

Init ==
  /\ clock = 0 /\ file = Empty
  /\ request = [r \in Requests |-> Free]
  /\ asked = 0 /\ settled = {} /\ merges = FALSE

-----------------------------------------------------------------------------
(* What a sample or a review makes of the data it loaded.                  *)

\* Mutant of NextId: counted from zero.
NextIdFromZero(videos) == Len(videos)

\* A new video is named after the number of videos.
NextId(videos) == Len(videos) + 1

\* A new video starts at an offset and ends the one that was open.
Opened(videos, new) ==
  LET n == Len(videos)
      before == IF n > 0 /\ videos[n].end = None
                THEN [videos EXCEPT ![n].end = new.start] ELSE videos
  IN Append(before, new)

NewVideo(d, title, offset) ==
  [id |-> NextId(d.videos), title |-> title, start |-> offset, end |-> None, marks |-> {}]

Counted(n) == IF n < StableSamples THEN n + 1 ELSE n

\* A title that needs a review becomes a candidate when it is stable, once.
Doubtful(d, title, offset, number) ==
  LET n == IF d.reviewed = title THEN Counted(d.reviews) ELSE 1
      known == \E c \in d.candidates : c.title = title
  IN [d EXCEPT !.reviewed = title, !.reviews = n, !.candidate = None, !.count = 0,
        !.candidates = IF n < StableSamples \/ known THEN @
                       ELSE @ \cup {[id |-> number, title |-> title, at |-> offset]}]

\* A clear title starts a video when it is stable and not the current one, at
\* the offset of its first sample.
Clear(d, title, offset) ==
  LET again == d.candidate = title
      n     == IF again THEN Counted(d.count) ELSE 1
      since == IF again THEN d.since ELSE offset
      seen  == [d EXCEPT !.reviewed = None, !.reviews = 0, !.candidate = title,
                         !.count = n, !.since = since]
  IN IF n < StableSamples \/ d.current = title THEN seen
     ELSE [seen EXCEPT !.videos = Opened(d.videos, NewVideo(d, title, since)),
                       !.current = title]

\* The video an identifier names is the first that bears it.
Named(d, i) == \A j \in 1 .. i - 1 : d.videos[j].id # d.videos[i].id

\* Rename, date or confirm.
Marked(d, i, number) == [d EXCEPT !.videos[i].marks = @ \cup {number}]

CanSplit(d, i, offset) ==
  d.videos[i].start < offset /\ (d.videos[i].end # None => offset < d.videos[i].end)

\* Mutant of Halves: the first half keeps its end.
HalvesOpen(video, offset, id) == <<video, [video EXCEPT !.id = id, !.start = offset]>>

Halves(video, offset, id) ==
  <<[video EXCEPT !.end = offset], [video EXCEPT !.id = id, !.start = offset]>>

Split(d, i, offset) ==
  [d EXCEPT !.videos = SubSeq(@, 1, i - 1) \o Halves(@[i], offset, NextId(@))
                         \o SubSeq(@, i + 1, Len(@))]

Merge(d, i) ==
  [d EXCEPT !.videos = RemoveAt([@ EXCEPT ![i].end = d.videos[i + 1].end], i + 1)]

ConfirmCandidate(d, c) ==
  [d EXCEPT !.videos = Opened(@, NewVideo(d, c.title, c.at)),
            !.candidates = @ \ {c}, !.current = c.title]

-----------------------------------------------------------------------------
(* Requests: load, then save what was made of it.                          *)

Asks(r, ask) ==
  LET company == \E q \in Requests : request[q].kind # "none"
  IN /\ request[r].kind = "none" /\ asked < MaxOps
     /\ asked' = asked + 1
     /\ request' = [q \in Requests |->
          IF q = r THEN [ask EXCEPT !.data = file, !.number = asked + 1, !.alone = ~company]
          ELSE IF company THEN [request[q] EXCEPT !.alone = FALSE] ELSE request[q]]
     /\ UNCHANGED <<clock, file, settled, merges>>

\* observe: a sample of the offset the recording is at.
Sample(r) ==
  \E title \in Titles, kind \in {"clear", "doubtful"} :
    Asks(r, [Free EXCEPT !.kind = kind, !.title = title, !.at = clock])

\* review, of a video that was found, and confirm_candidate.
Review(r) ==
  \/ \E i \in DOMAIN file.videos : Named(file, i) /\
       \/ Asks(r, [Free EXCEPT !.kind = "mark", !.on = i])
       \/ \E offset \in Offsets : CanSplit(file, i, offset) /\
            Asks(r, [Free EXCEPT !.kind = "split", !.on = i, !.at = offset])
       \/ i < Len(file.videos) /\ Asks(r, [Free EXCEPT !.kind = "merge", !.on = i])
  \/ \E c \in file.candidates : Asks(r, [Free EXCEPT !.kind = "confirm", !.on = c.id])

Made(q) ==
  LET d == q.data
  IN CASE q.kind = "clear" -> Clear(d, q.title, q.at)
       [] q.kind = "doubtful" -> Doubtful(d, q.title, q.at, q.number)
       [] q.kind = "mark" -> Marked(d, q.on, q.number)
       [] q.kind = "split" -> Split(d, q.on, q.at)
       [] q.kind = "merge" -> Merge(d, q.on)
       [] q.kind = "confirm" ->
            ConfirmCandidate(d, CHOOSE c \in d.candidates : c.id = q.on)

\* The review of a merged video goes with it: its marks are of what is gone.
Gone(q) == IF q.kind # "merge" THEN {}
           ELSE {"mark"} \X q.data.videos[q.on + 1].marks

\* atomic_write_json, and the answer.
Save(r) ==
  LET q == request[r]
  IN /\ q.kind # "none"
     /\ file' = Made(q)
     /\ request' = [request EXCEPT ![r] = Free]
     /\ merges' = (merges \/ q.kind = "merge")
     /\ settled' = (settled \ Gone(q)) \cup
          (CASE q.kind = "mark" /\ q.alone -> {<<"mark", q.number>>}
             [] q.kind = "confirm" /\ q.alone -> {<<"confirm", q.on>>}
             [] OTHER -> {})
     /\ UNCHANGED <<clock, asked>>

Record == clock < MaxOffset /\ clock' = clock + 1 /\ UNCHANGED <<file, request, asked, settled, merges>>

Next == Record \/ \E r \in Requests : Sample(r) \/ Review(r) \/ Save(r)

Spec == Init /\ [][Next]_pvars

-----------------------------------------------------------------------------
(* Properties.                                                             *)

\* The logical videos cover the recording from the first title on: each ends
\* where the next starts and only the last is open, whatever requests met.
Contiguous ==
  \A i \in DOMAIN file.videos :
    file.videos[i].end = IF i = Len(file.videos) THEN None ELSE file.videos[i + 1].start

\* As long as no video was merged away, an identifier names one video.
NamesUnique ==
  ~merges => \A i, j \in DOMAIN file.videos : i # j => file.videos[i].id # file.videos[j].id

\* A review acknowledged to a request that met no other is still there: the
\* mark on its video, and the candidate gone.
ReviewsKept ==
  /\ \A s \in settled : s[1] = "mark" =>
       \E i \in DOMAIN file.videos : s[2] \in file.videos[i].marks
  /\ \A s \in settled : s[1] = "confirm" => \A c \in file.candidates : c.id # s[2]

PlaylistSafe == Contiguous /\ NamesUnique /\ ReviewsKept

=============================================================================
