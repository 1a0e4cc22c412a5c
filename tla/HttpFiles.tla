------------------------------ MODULE HttpFiles ------------------------------
(***************************************************************************)
(* httpfs: clients upload files of the same names ("size-0", "size-1"...)  *)
(* to one server and list the names; Download reads such a list and gets   *)
(* the files with several threads.  The server serves each request in a    *)
(* goroutine of its own, straight from and to its directory: uploads of    *)
(* one name write one file, each at its own offset, and a file is served   *)
(* while it is written.  The server may be killed and started again,       *)
(* clients may be killed, connections break, and a copy may fail.          *)
(*                                                                         *)
(* A file is a sequence of pieces, each named by the client it came from.  *)
(***************************************************************************)
EXTENDS Integers, FiniteSets, Sequences

CONSTANTS
    Clients,            \* processes that upload, each with a list of its own
    server,             \* files the server generated itself come from it
    filenumber,         \* files of an upload
    Size,               \* pieces of a file
    Gets,               \* concurrentGet
    MaxRestarts         \* bound: restarts of the server

ASSUME HttpAssumption ==
    /\ server \notin Clients /\ "none" \notin Clients \cup {server}
    /\ filenumber \in Nat /\ Size \in Nat \ {0} /\ Gets \in Nat \ {0}

Files == 0 .. filenumber - 1
Getters == 0 .. Gets - 1
Hole == "none"          \* a piece of a file nobody wrote
Page == <<"page">>      \* what a client stores for a file the server does not find

VARIABLES
    client, listed,     \* client: control point, number of names in its list
    request,            \* client, name -> handler: step, pieces copied
    file,               \* the directory: name -> pieces, if the file exists
    creator, lone,      \* who created it last; nobody wrote it then (ghosts)
    source, toget,      \* Download: whose list it reads, number of its names
    getter, name,       \* thread: control point, name it is at
    body,               \* its response: length announced, pieces received
    downloaded,         \* the local files that are complete: <<name, content>>
    returned, restarts

uploadVars == <<client, listed>>
serverVars == <<request, file, creator, lone>>
downloadVars == <<source, toget, getter, name, body, downloaded, returned>>
httpVars == <<uploadVars, serverVars, downloadVars, restarts>>

Whole(c) == [k \in 1 .. Size |-> c]
Step(c, n) == request[c][n].step
Exists(n) == creator[n] # "none"
Writing(n) == {c \in Clients : Step(c, n) = "copy"}

\* Some files may be there from the start.
HttpInit ==
    /\ client = [c \in Clients |-> "next"] /\ listed = [c \in Clients |-> 0]
    /\ request = [c \in Clients |-> [n \in Files |-> [step |-> "none", at |-> 0]]]
    /\ \E old \in SUBSET Files :
          /\ file = [n \in Files |-> IF n \in old THEN Whole(server) ELSE <<>>]
          /\ creator = [n \in Files |-> IF n \in old THEN server ELSE "none"]
    /\ lone = [n \in Files |-> TRUE]
    /\ source = "none" /\ toget = 0
    /\ getter = [t \in Getters |-> "none"] /\ name = [t \in Getters |-> t]
    /\ body = [t \in Getters |-> [length |-> 0, got |-> <<>>]]
    /\ downloaded = {} /\ returned = FALSE /\ restarts = 0

-----------------------------------------------------------------------------
(* The server *)

Turn(c, n, step) == request' = [request EXCEPT ![c][n].step = step]

\* os.Create truncates the file for all that have it open.
CreateFile(c, n) ==
    /\ Step(c, n) = "create"
    /\ file' = [file EXCEPT ![n] = <<>>]
    /\ creator' = [creator EXCEPT ![n] = c] /\ lone' = [lone EXCEPT ![n] = Writing(n) = {}]
    /\ Turn(c, n, "copy")

BugAppends(f, k, piece) == Append(f, piece)

\* A write at an offset; what lies between it and the end of a shorter file is a hole.
WriteAt(f, k, piece) ==
    [j \in 1 .. (IF k > Len(f) THEN k ELSE Len(f)) |->
       IF j = k THEN piece ELSE IF j <= Len(f) THEN f[j] ELSE Hole]

CopyPiece(c, n) ==
    /\ Step(c, n) = "copy" /\ request[c][n].at < Size
    /\ request' = [request EXCEPT ![c][n].at = @ + 1]
    /\ file' = [file EXCEPT ![n] = WriteAt(@, request[c][n].at + 1, c)]
    /\ UNCHANGED <<creator, lone>>

\* dst.Close(), and no part is left: the answer is 200.
EndCopy(c, n) ==
    /\ Step(c, n) = "copy" /\ request[c][n].at = Size
    /\ Turn(c, n, "stored")
    /\ UNCHANGED <<file, creator, lone>>

\* os.Create or io.Copy fails, or the body ends early: return, and the answer is 200 too.
CopyFails(c, n) ==
    /\ Step(c, n) \in {"create", "copy"}
    /\ Turn(c, n, "failed")
    /\ UNCHANGED <<file, creator, lone, uploadVars, downloadVars, restarts>>

uploadHandler(c, n) ==
    /\ CreateFile(c, n) \/ CopyPiece(c, n) \/ EndCopy(c, n)
    /\ UNCHANGED <<uploadVars, downloadVars, restarts>>

\* The server is killed and started again: connections are gone, files stay.
Restart ==
    /\ restarts < MaxRestarts /\ restarts' = restarts + 1
    /\ request' = [c \in Clients |-> [n \in Files |->
          [request[c][n] EXCEPT !.step = IF @ \in {"create", "copy"} THEN "lost" ELSE @]]]
    /\ getter' = [t \in Getters |-> IF getter[t] = "body" THEN "lost" ELSE getter[t]]
    /\ UNCHANGED <<uploadVars, file, creator, lone, source, toget, name, body, downloaded, returned>>

-----------------------------------------------------------------------------
(* Upload of client.go *)

Post(c) ==
    /\ client[c] = "next" /\ listed[c] < filenumber
    /\ client' = [client EXCEPT ![c] = "post"]
    /\ Turn(c, listed[c], "create")
    /\ UNCHANGED <<listed, file, creator, lone>>

BugListsFirst(c) ==
    /\ client[c] = "post"
    /\ listed' = [listed EXCEPT ![c] = @ + 1]
    /\ client' = [client EXCEPT ![c] = "next"]
    /\ UNCHANGED serverVars

\* Whatever the answer is, the name is listed.
Answered(c) ==
    /\ client[c] = "post" /\ Step(c, listed[c]) \in {"stored", "failed"}
    /\ listed' = [listed EXCEPT ![c] = @ + 1]
    /\ client' = [client EXCEPT ![c] = "next"]
    /\ UNCHANGED serverVars

EndUpload(c) ==
    /\ client[c] = "next" /\ listed[c] = filenumber
    /\ client' = [client EXCEPT ![c] = "done"]
    /\ UNCHANGED <<listed, serverVars>>

\* Without an answer resp is nil, and resp.Body panics.
Unanswered(c) ==
    /\ client[c] = "post" /\ Step(c, listed[c]) = "lost"
    /\ client' = [client EXCEPT ![c] = "dead"]
    /\ UNCHANGED <<listed, serverVars>>

Upload(c) ==
    /\ Post(c) \/ Answered(c) \/ EndUpload(c) \/ Unanswered(c)
    /\ UNCHANGED <<downloadVars, restarts>>

\* Killed, or ended by an error of a local file or of the connection; its request goes on.
ClientEnds(c) ==
    /\ client[c] \in {"next", "post"}
    /\ client' = [client EXCEPT ![c] = "dead"]
    /\ UNCHANGED <<listed, serverVars, downloadVars, restarts>>

-----------------------------------------------------------------------------
(* Download of client.go *)

\* The names of a list, dealt to the threads one by one.
ReadList(c) ==
    /\ source = "none"
    /\ source' = c /\ toget' = listed[c]
    /\ getter' = [t \in Getters |-> "next"]
    /\ UNCHANGED <<name, body, downloaded, returned, uploadVars, serverVars, restarts>>

\* The server opens the file and announces its length ...
Get(t) ==
    /\ getter[t] = "next" /\ name[t] < toget /\ Exists(name[t])
    /\ getter' = [getter EXCEPT ![t] = "body"]
    /\ body' = [body EXCEPT ![t] = [length |-> Len(file[name[t]]), got |-> <<>>]]
    /\ UNCHANGED <<name, downloaded, returned>>

Stored(t, content) ==
    /\ downloaded' = downloaded \cup {<<name[t], content>>}
    /\ name' = [name EXCEPT ![t] = @ + Gets]

\* ... or answers with a page that says 404, which is stored all the same.
GetNothing(t) ==
    /\ getter[t] = "next" /\ name[t] < toget /\ ~Exists(name[t])
    /\ Stored(t, Page)
    /\ UNCHANGED <<getter, body, returned>>

Behind(t) == Len(body[t].got) < body[t].length
More(t) == Len(body[t].got) < Len(file[name[t]])

ReadPiece(t) ==
    /\ getter[t] = "body" /\ Behind(t) /\ More(t)
    /\ body' = [body EXCEPT ![t].got = Append(@, file[name[t]][Len(@) + 1])]
    /\ UNCHANGED <<getter, name, downloaded, returned>>

\* io.Copy has all that was announced: downloadTimer.Update, and the next name.
CopyReturns(t) ==
    /\ getter[t] = "body" /\ ~Behind(t)
    /\ Stored(t, body[t].got)
    /\ getter' = [getter EXCEPT ![t] = "next"]
    /\ UNCHANGED <<body, returned>>

BugStalls(t) ==
    /\ getter[t] = "next" /\ name[t] >= toget
    /\ getter' = [getter EXCEPT ![t] = "done"]
    /\ UNCHANGED <<name, body, downloaded, returned>>

\* wg.Done: after the last name, or when the response breaks off, because the server is
\* gone or the file was truncated to less than was announced.
GetterEnds(t) ==
    /\ \/ getter[t] = "next" /\ name[t] >= toget
       \/ getter[t] = "lost"
       \/ getter[t] = "body" /\ Behind(t) /\ ~More(t)
    /\ getter' = [getter EXCEPT ![t] = "done"]
    /\ UNCHANGED <<name, body, downloaded, returned>>

\* wg.Wait
DownloadReturns ==
    /\ \A t \in Getters : getter[t] = "done"
    /\ ~returned /\ returned' = TRUE
    /\ UNCHANGED <<getter, name, body, downloaded>>

Download ==
    /\ \/ \E t \in Getters : Get(t) \/ GetNothing(t) \/ ReadPiece(t) \/ CopyReturns(t) \/ GetterEnds(t)
       \/ DownloadReturns
    /\ UNCHANGED <<source, toget, uploadVars, serverVars, restarts>>

\* An error of the request, of the connection or of a local file.
GetFails(t) ==
    /\ getter[t] = "body" \/ (getter[t] = "next" /\ name[t] < toget)
    /\ getter' = [getter EXCEPT ![t] = "done"]
    /\ UNCHANGED <<source, toget, name, body, downloaded, returned, uploadVars, serverVars, restarts>>

HttpNext ==
    \/ \E c \in Clients : \/ Upload(c) \/ ClientEnds(c) \/ ReadList(c)
                          \/ \E n \in Files : uploadHandler(c, n) \/ CopyFails(c, n)
    \/ \E t \in Getters : GetFails(t)
    \/ Download \/ Restart

\* A process that can go on does; a handler that is not stopped copies the body.
HttpSpec ==
    /\ HttpInit /\ [][HttpNext]_httpVars
    /\ WF_httpVars(Download)
    /\ \A c \in Clients :
          /\ WF_httpVars(Upload(c))
          /\ \A n \in Files : WF_httpVars(uploadHandler(c, n))

-----------------------------------------------------------------------------
(* Properties *)

\* When the upload that created a file last has ended well, the file has its size and no
\* hole, also if others that write it were truncated or failed (server.go:36-46).
StoredIsWhole ==
    \A n \in Files, c \in Clients :
        creator[n] = c /\ Step(c, n) = "stored" =>
            Len(file[n]) = Size /\ \A k \in 1 .. Size : file[n][k] # Hole

\* What is in a file that nobody else wrote when it was created is of its creator, even if
\* the upload failed or the server was killed: no piece of an earlier upload is left
\* (server.go:36-41).
LoneIsOwn ==
    \A n \in Files : lone[n] => \A k \in 1 .. Len(file[n]) : file[n][k] = creator[n]

\* Whatever uploads overlap, the one that created a file last prevails: what it stored has
\* no gap, and what it wrote alone is its own (server.go:36-46).
CreatorPrevails == StoredIsWhole /\ LoneIsOwn

\* A file that one upload stored, and no other touched since it was created, is downloaded
\* as it was uploaded by who reads the list of that upload, which may still go on
\* (client.go:168-175, 216-258).
DownloadedAsStored ==
    \A d \in downloaded :
        LET n == d[1] IN
        creator[n] = source /\ lone[n] /\ Step(source, n) = "stored" => d[2] = Whole(source)

\* An upload ends whatever the answers of the server are (client.go:137-180), and wg.Wait
\* returns, also if the server is killed, or files are truncated while they are sent
\* (client.go:227-273).
ClientsEnd ==
    /\ \A c \in Clients : <>(client[c] \in {"done", "dead"})
    /\ source # "none" ~> returned

\* The list holds the names of uploaded files: "-fn for specified name of file storing all
\* uploaded file name" (client.go:41).  A name whose copy failed is listed too.
ListedIsUploaded ==
    \A c \in Clients : \A n \in 0 .. listed[c] - 1 : Step(c, n) = "stored"
==============================================================================
