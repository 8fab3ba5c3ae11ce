------------------------------ MODULE Responses -------------------------------
(***************************************************************************)
(* How a response starts, up to its end in the response stream sender: the *)
(* handlers of the document roots, the root redirect, the temporary file   *)
(* and the template a script sends.  A path is a sequence of names, their  *)
(* extensions and slashes; of the resource asked for, only what the        *)
(* handler cuts off behind its own resource counts.                        *)
(***************************************************************************)
EXTENDS ResponseStream, SequencesExt

CONSTANTS
    Rests,      \* what requests ask for below the resource of a handler
    Short,      \* a resource shorter than the handler's
    Files,      \* plain files of the directory, by their paths in it
    ZipPrefix,  \* zipInnerPrefix
    ZipEntries, \* names in the zip file, with their slashes
    Loadable,   \* what the resource loader of wilton_core finds
    MimeTypes   \* of the document root, as <<extension, type>>

ASSUME RestsAssumption == Short \notin Rests /\ \A r \in Rests : r \in Seq(STRING)

VARIABLES
    asked,      \* the handler that runs, and what it is asked for
    answer,     \* "none", "direct", "stream"; "refused": an error to the
                \* script; "thrown": an exception to the native server
    status,     \* of the response, and its content type
    tmp         \* of a temporary file: the file, and the finalizer's context

startVars == <<asked, answer, status, tmp>>

Static == {"file", "zip", "loader"}
NoStatus == [code |-> 0, type |-> ""]
Gone == [file |-> FALSE, context |-> FALSE]

StartInit ==
    /\ Init
    /\ asked \in [handler : Static, rest : Rests \cup {Short}] \cup
                 [handler : {"redirect"}, rest : Rests] \cup
                 [handler : {"temp_file", "template"}, rest : {<<>>}]
    /\ source = asked.handler \/ (asked.handler \in {"loader", "redirect"} /\ source = "file")
    /\ answer = "none"
    /\ status = NoStatus
    /\ tmp = IF asked.handler = "temp_file" THEN [file |-> TRUE, context |-> TRUE] ELSE Gone

-----------------------------------------------------------------------------
Runs(handlers) == answer = "none" /\ asked.handler \in handlers

Reply(code, type) ==
    /\ answer' = "direct"
    /\ status' = [code |-> code, type |-> type]
    /\ UNCHANGED <<asked, tmp, vars>>

Throw ==
    /\ answer' = "thrown"
    /\ UNCHANGED <<asked, status, tmp, vars>>

StripSlash(path) == IF path # <<>> /\ path[1] = "/" THEN Tail(path) ELSE path

EndsWith(path, name) == path # <<>> /\ Last(path) = name

(* set_response_headers: the first extension the path ends with.           *)
ContentType(path) ==
    LET fits == {i \in DOMAIN MimeTypes : EndsWith(path, MimeTypes[i][1])} IN
    IF fits = {} THEN "application/octet-stream"
    ELSE MimeTypes[CHOOSE i \in fits : \A j \in fits : i <= j][2]

StartStream(type) ==
    /\ answer' = "stream"
    /\ status' = [code |-> 200, type |-> type]
    /\ UNCHANGED <<asked, tmp, vars>>

-----------------------------------------------------------------------------
(* file_handler: its answer to a bad path has the status of a missing one. *)

(* The operating system opens the directory, a slash and the path: slashes *)
(* at its start add nothing to that slash, nor one slash to another.       *)
Adds(path, name) == IF name = "/" /\ (path = <<>> \/ Last(path) = "/") THEN path
                    ELSE Append(path, name)

Squeeze(path) ==
    LET found[i \in 0 .. Len(path)] ==
            IF i = 0 THEN <<>> ELSE Adds(found[i - 1], path[i])
    IN  found[Len(path)]

(* A directory can be opened, but is not taken.                            *)
Opens(path) == ".." \notin Range(path) /\ Squeeze(path) \in Files

FileAnswers ==
    /\ Runs({"file"})
    /\ asked.rest # Short /\ Opens(asked.rest)
    /\ StartStream(ContentType(asked.rest))

FileNotFound ==
    /\ Runs({"file"})
    /\ asked.rest # Short /\ ~Opens(asked.rest)
    /\ Reply(404, "")

(* Unlike the two others it cuts the resource with no look at its length.  *)
FileThrows ==
    /\ Runs({"file"})
    /\ asked.rest = Short
    /\ Throw

(* zip_handler.  Opening an entry of a damaged zip file throws.            *)
Something == asked.rest # Short /\ asked.rest # <<>>

(* Mutant: the slash is left where the root ends.                          *)
ZipPathUncut == ZipPrefix \o asked.rest

ZipPath == ZipPrefix \o StripSlash(asked.rest)

InZip == Something /\ ZipPath \in ZipEntries

ZipAnswers ==
    /\ Runs({"zip"})
    /\ InZip
    /\ StartStream(ContentType(ZipPath)) \/ Throw

ZipNotFound == Runs({"zip"}) /\ ~InZip /\ Reply(404, "")

(* loader_handler sends what was loaded in one piece.                      *)
Loads == Something /\ StripSlash(asked.rest) \in Loadable

LoaderAnswers ==
    /\ Runs({"loader"})
    /\ Loads
    /\ Reply(200, ContentType(StripSlash(asked.rest)))

LoaderNotFound == Runs({"loader"}) /\ ~Loads /\ Reply(404, "")

(* The handler of "/" gets every resource no other handler takes.          *)
RedirectAnswers ==
    /\ Runs({"redirect"})
    /\ Reply(IF asked.rest = <<"/">> THEN 303 ELSE 404, "")

-----------------------------------------------------------------------------
(* request_send_temp_file and request_send_mustache.                       *)

ScriptStreams ==
    /\ Runs({"temp_file", "template"})
    /\ StartStream("")

(* The file does not open, the request is a websocket's or was answered:   *)
(* nobody calls the finalizer.                                             *)
SendRefused ==
    /\ Runs({"temp_file"})
    /\ answer' = "refused"
    /\ UNCHANGED <<asked, status, tmp, vars>>

(* The template cannot be read, after the request was committed.           *)
TemplateRefused ==
    /\ Runs({"template"})
    /\ answer' = "refused"
    /\ UNCHANGED <<asked, status, tmp, vars>>

(* Mutant: the finalizer removes the file only if it was told of success.  *)
FinalizeSuccess ==
    tmp' = IF told' # told /\ told'[Len(told')] THEN Gone ELSE tmp

(* The finalizer removes the file and deletes its context.                 *)
Finalize == tmp' = IF told' # told THEN Gone ELSE tmp

Stream ==
    /\ answer = "stream"
    /\ Next
    /\ Finalize
    /\ UNCHANGED <<asked, answer, status>>

Start ==
    \/ FileAnswers \/ FileNotFound \/ FileThrows \/ ZipAnswers \/ ZipNotFound
    \/ LoaderAnswers \/ LoaderNotFound \/ RedirectAnswers
    \/ ScriptStreams \/ SendRefused \/ TemplateRefused

StartSpec == StartInit /\ [][Start \/ Stream]_<<vars, startVars>>

(* The pool thread that runs a handler goes on, and so does the native     *)
(* server with every write it was given.                                   *)
FairSpec == StartSpec /\ WF_<<vars, startVars>>(Start) /\ WF_<<vars, startVars>>(Stream)

-----------------------------------------------------------------------------
(* Properties.                                                             *)

(* Every variable keeps to the values the code gives it.                   *)
StartTypeOK ==
    /\ TypeOK
    /\ asked.handler \in Static \cup {"redirect", "temp_file", "template"}
    /\ answer \in {"none", "direct", "stream", "refused", "thrown"}
    /\ status.code \in {0, 200, 303, 404}
    /\ tmp \in [file : BOOLEAN, context : BOOLEAN]

(* What the roots hold: the same path asked of any of them is found if the *)
(* root has it.                                                            *)
Holds(path) ==
    CASE asked.handler = "file" -> path \in Files
      [] asked.handler = "zip" -> ZipPrefix \o path \in ZipEntries
      [] asked.handler = "loader" -> path \in Loadable

(* At most one slash between the root and the path, and between two names. *)
Plain(path) == \A i \in 2 .. Len(path) : path[i] = "/" => path[i - 1] # "/"

(* What no root is asked for: a resource shorter than the handler's, a     *)
(* path upwards of a directory, nothing of a zip file or of the loader.    *)
Unasked ==
    \/ asked.rest = Short
    \/ IF asked.handler = "file" THEN ".." \in Range(asked.rest) ELSE asked.rest = <<>>

(* A static request for something a root holds is answered with it unless  *)
(* reading fails, with or without a slash between root and path, one for   *)
(* anything else is told that it was not found; the only other outcomes    *)
(* are the exceptions of the file handler for a resource shorter than its  *)
(* own, and of a damaged zip file.  A zip file and the loader have no name *)
(* for a path with slashes doubled, the operating system opens it.         *)
StaticAnswered ==
    answer # "none" /\ asked.handler \in Static =>
        IF answer = "thrown"
        THEN (asked.handler = "file" /\ asked.rest = Short) \/ asked.handler = "zip"
        ELSE /\ status.code = 404 \/ (status.code = 200 /\ ~Unasked)
             /\ ~Unasked /\ (asked.handler = "file" \/ Plain(asked.rest)) =>
                   (status.code = 200 <=> Holds(Squeeze(asked.rest)))

(* A response is over: answered in one piece or not at all, or its sender  *)
(* is gone and the native server is done with the last chunk.              *)
Ended == answer # "none" /\ (answer = "stream" => sender = "gone" /\ final # "under way")

(* Whatever the handler, whatever fails, a response comes to its end, and  *)
(* a sender lets its memory go.                                            *)
ResponseEnds == <>[]Ended

(* A temporary file and the context of its finalizer are there as long as  *)
(* the sender reads, and both are gone when all is over, except after a    *)
(* send that was refused and a read that threw, which leave both.          *)
ReadThrew == sender = "gone" /\ final = "no" /\ told = <<>>

TempFileRemoved ==
    asked.handler = "temp_file" =>
        /\ sender # "gone" => tmp.file /\ tmp.context
        /\ Ended => IF answer = "refused" \/ ReadThrew THEN tmp.file /\ tmp.context
                    ELSE tmp = Gone
=============================================================================
