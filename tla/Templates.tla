------------------------------- MODULE Templates -------------------------------
(***************************************************************************)
(* AssetService.build starts one thread per kind of template and joins     *)
(* them one after the other; each reader constructs its files in turn and  *)
(* ends at the first that raises, with nobody told.  Afterwards requests   *)
(* ask for HTML templates: the permission looks at the path, the pipe at   *)
(* the loaded ones, and the endpoint, in a thread of the pool, has the     *)
(* data validated by the template's own validator, an object that all      *)
(* requests for the template share and that keeps the document and the     *)
(* errors of the validation in fields.                                     *)
(*                                                                         *)
(* The style sheets and images are read first, in the main thread;         *)
(* loadHTMLData looks for them with a pattern that is made of the name of  *)
(* the Extension and matches no file, so it changes nothing.               *)
(***************************************************************************)
EXTENDS Naturals, Sequences

CONSTANTS Requests,       \* the requests for a template
          Files,          \* kind -> the files of its directory, in order
          Sound,          \* the files whose constructor does not raise
          Validated,      \* the HTML files whose schema makes a validator
          Raising,        \* those of them with a rule that raises
          WindowsPaths,   \* os.path.sep is the separator of the routes
          Unknown,        \* a path that is no file
          None            \* no document

Elements(s) == {s[i] : i \in DOMAIN s}
\* The order of the joins.
Kinds == <<"html", "pdf", "sms", "phone">>

ASSUME ConstantsAssumption ==
    /\ DOMAIN Files = Elements(Kinds)
    /\ \A k \in DOMAIN Files : Files[k] \in Seq(Elements(Files[k]))
    /\ Unknown \notin Elements(Files["html"])
    /\ None \notin Requests
    /\ Raising \subseteq Validated
    /\ WindowsPaths \in BOOLEAN

Templates == Elements(Files["html"])

\* The data of a request: "raising" fills a field whose rule raises, be it
\* right or wrong otherwise; "separator" has a key that holds the separator of
\* flatten_dict.
Documents == {"valid", "invalid", "raising", "separator"}

VARIABLES
    pos, reader, values,   \* of each ThreadedReader
    joined,                \* how many build() has joined
    served,                \* kind -> what it found then
    pc, asks, doc, may,    \* each request, what it sends and may ask for
    document, errors,      \* template -> fields of its validator
    status, blamed,        \* the answer, and whose data it reports on
    met                    \* history: another one used the validator meanwhile

loading == <<pos, reader, values, joined, served>>
input == <<asks, doc, may>>
answer == <<status, blamed>>
vars == <<loading, pc, input, document, errors, answer, met>>

Init ==
    /\ pos = [k \in DOMAIN Files |-> 0]
    /\ reader = [k \in DOMAIN Files |-> "running"]
    /\ values = [k \in DOMAIN Files |-> {}]
    /\ joined = 0
    /\ served = [k \in DOMAIN Files |-> {}]
    /\ pc = [r \in Requests |-> "idle"]
    /\ asks \in [Requests -> Templates \cup {Unknown}]
    /\ doc \in [Requests -> Documents]
    /\ \A r \in Requests : doc[r] = "raising" => asks[r] \in Raising
    /\ may \in [Requests -> BOOLEAN]
    /\ document = [t \in Templates |-> None]
    /\ errors = [t \in Templates |-> {}]
    /\ status = [r \in Requests |-> 0]
    /\ blamed = [r \in Requests |-> {}]
    /\ met = [r \in Requests |-> FALSE]

-----------------------------------------------------------------------------
(* AssetService.build                                                      *)

\* PDFTemplate takes two arguments and is given three.
Constructs(k, f) == k # "pdf" /\ f \in Sound

\* Mutant of ReadFile: the readers share one dictionary.
ReadIntoShared(k) ==
    /\ reader[k] = "running"
    /\ pos[k] < Len(Files[k])
    /\ LET f == Files[k][pos[k] + 1] IN
         IF Constructs(k, f)
         THEN /\ values' = [j \in DOMAIN Files |-> values[j] \cup {f}]
              /\ pos' = [pos EXCEPT ![k] = @ + 1]
              /\ UNCHANGED reader
         ELSE /\ reader' = [reader EXCEPT ![k] = "dead"]
              /\ UNCHANGED <<pos, values>>
    /\ UNCHANGED <<joined, served, pc, input, document, errors, answer, met>>

\* The next file of a reader: an exception ends its thread.
ReadFile(k) ==
    /\ reader[k] = "running"
    /\ pos[k] < Len(Files[k])
    /\ LET f == Files[k][pos[k] + 1] IN
         IF Constructs(k, f)
         THEN /\ values' = [values EXCEPT ![k] = @ \cup {f}]
              /\ pos' = [pos EXCEPT ![k] = @ + 1]
              /\ UNCHANGED reader
         ELSE /\ reader' = [reader EXCEPT ![k] = "dead"]
              /\ UNCHANGED <<pos, values>>
    /\ UNCHANGED <<joined, served, pc, input, document, errors, answer, met>>

\* After the last file; without any file loadHTMLData has no argument, and the
\* thread ends with an exception that makes no difference.
EndRead(k) ==
    /\ reader[k] = "running"
    /\ pos[k] = Len(Files[k])
    /\ reader' = [reader EXCEPT ![k] = "ended"]
    /\ UNCHANGED <<pos, values, joined, served, pc, input, document, errors, answer, met>>

\* Mutant of Join: the values are taken before the thread has ended.
JoinAtOnce ==
    /\ joined < Len(Kinds)
    /\ LET k == Kinds[joined + 1] IN served' = [served EXCEPT ![k] = values[k]]
    /\ joined' = joined + 1
    /\ UNCHANGED <<pos, reader, values, pc, input, document, errors, answer, met>>

\* build() waits for one reader after the other, however it ended.
Join ==
    /\ joined < Len(Kinds)
    /\ LET k == Kinds[joined + 1] IN
         /\ reader[k] # "running"
         /\ served' = [served EXCEPT ![k] = values[k]]
    /\ joined' = joined + 1
    /\ UNCHANGED <<pos, reader, values, pc, input, document, errors, answer, met>>

-----------------------------------------------------------------------------
(* A request for a template                                                *)

Respond(r, s) ==
    /\ pc' = [pc EXCEPT ![r] = "answered"]
    /\ status' = [status EXCEPT ![r] = s]

\* JWTAssetPermission: the path must begin with an allowed one; flatten_dict
\* raises KeyError for a key that holds its separator.
Permit(r) ==
    /\ joined = Len(Kinds)
    /\ pc[r] = "idle"
    /\ IF ~may[r] THEN Respond(r, 403)
       ELSE IF doc[r] = "separator" THEN Respond(r, 400)
       ELSE pc' = [pc EXCEPT ![r] = "permitted"] /\ UNCHANGED status
    /\ UNCHANGED <<loading, input, document, errors, blamed, met>>

\* The path of the request is put together with backslashes, the keys of the
\* loaded templates with the separator of the system.
Routed(t) == WindowsPaths /\ t \in served["html"]

\* TemplateParamsPipe.
Find(r) ==
    /\ pc[r] = "permitted"
    /\ IF Routed(asks[r])
       THEN pc' = [pc EXCEPT ![r] = "found"] /\ UNCHANGED status
       ELSE Respond(r, 404)
    /\ UNCHANGED <<loading, input, document, errors, blamed, met>>

\* Mutant of ValidatorOf: the validator is an attribute of the class.
ValidatorOfClass(t) == CHOOSE v \in Validated : TRUE

\* Every template has its own validator.
ValidatorOf(t) == t

Using == {"validating", "checked", "refused"}

\* validate() begins by replacing document and errors of the validator; a
\* template without a schema has no attribute Validator.
Begin(r) ==
    /\ pc[r] = "found"
    /\ LET t == ValidatorOf(asks[r])
           others == {q \in Requests \ {r} : asks[q] = asks[r] /\ pc[q] \in Using}
       IN  IF asks[r] \in Validated
           THEN /\ document' = [document EXCEPT ![t] = r]
                /\ errors' = [errors EXCEPT ![t] = {}]
                /\ met' = [q \in Requests |->
                             met[q] \/ q \in others \/ (q = r /\ others # {})]
                /\ pc' = [pc EXCEPT ![r] = "validating"]
                /\ UNCHANGED status
           ELSE /\ Respond(r, 500)
                /\ UNCHANGED <<document, errors, met>>
    /\ UNCHANGED <<loading, input, blamed>>

\* The rules are applied to the document the validator has now.  For a field
\* with a schema of its own Cerberus constructs the class again, with keywords
\* CustomValidator does not take; the constraint location and the rule "for"
\* call functions with the wrong number of arguments.  The TypeError passes
\* validate() and build(), and leaves the errors found before it.
Check(r) ==
    /\ pc[r] = "validating"
    /\ LET t == ValidatorOf(asks[r])
           found == [errors EXCEPT ![t] = @ \cup {document[t]}]
       IN  \/ /\ doc[document[t]] # "raising"
              /\ errors' = IF doc[document[t]] = "invalid" THEN found ELSE errors
              /\ pc' = [pc EXCEPT ![r] = "checked"]
              /\ UNCHANGED status
           \/ /\ doc[document[t]] = "raising"
              /\ errors' \in {errors, found}
              /\ Respond(r, 500)
    /\ UNCHANGED <<loading, input, document, blamed, met>>

\* validate() returns whether there are errors now.  Accepted data goes to
\* inject, which fails and returns None, and build unpacks it.
Judge(r) ==
    /\ pc[r] = "checked"
    /\ IF errors[ValidatorOf(asks[r])] = {}
       THEN Respond(r, 500)
       ELSE pc' = [pc EXCEPT ![r] = "refused"] /\ UNCHANGED status
    /\ UNCHANGED <<loading, input, document, errors, blamed, met>>

\* TemplateValidationError carries the errors as they are read now.
Report(r) ==
    /\ pc[r] = "refused"
    /\ Respond(r, 400)
    /\ blamed' = [blamed EXCEPT ![r] = errors[ValidatorOf(asks[r])]]
    /\ UNCHANGED <<loading, input, document, errors, met>>

Next ==
    \/ \E k \in DOMAIN Files : ReadFile(k) \/ EndRead(k)
    \/ Join
    \/ \E r \in Requests : Permit(r) \/ Find(r) \/ Begin(r) \/ Check(r) \/ Judge(r) \/ Report(r)

Spec == Init /\ [][Next]_vars

-----------------------------------------------------------------------------
(* Properties                                                              *)

AllFiles == UNION {Elements(Files[k]) : k \in DOMAIN Files}

\* The type of every variable; a reader has files of its own kind.
TypeOK ==
    /\ pos \in [DOMAIN Files -> Nat]
    /\ reader \in [DOMAIN Files -> {"running", "ended", "dead"}]
    /\ values \in [DOMAIN Files -> SUBSET AllFiles]
    /\ \A k \in DOMAIN Files : values[k] \subseteq Elements(Files[k])
    /\ joined \in 0 .. Len(Kinds)
    /\ served \in [DOMAIN Files -> SUBSET AllFiles]
    /\ pc \in [Requests -> {"idle", "permitted", "found", "answered"} \cup Using]
    /\ asks \in [Requests -> Templates \cup {Unknown}]
    /\ doc \in [Requests -> Documents]
    /\ may \in [Requests -> BOOLEAN]
    /\ document \in [Templates -> Requests \cup {None}]
    /\ errors \in [Templates -> SUBSET Requests]
    /\ status \in [Requests -> {0, 400, 403, 404, 500}]
    /\ blamed \in [Requests -> SUBSET Requests]
    /\ met \in [Requests -> BOOLEAN]

\* Once build() has returned, each kind serves the files before its first
\* unsound one, all of them and for good: neither the order in which the
\* threads run nor the failure of another kind takes anything away.
ServedUpToFirstFailure ==
    joined = Len(Kinds) =>
      \A k \in DOMAIN Files :
        served[k] = {Files[k][i] : i \in {j \in DOMAIN Files[k] :
                        \A h \in 1 .. j : Constructs(k, Files[k][h])}}

\* Whoever had the validator of a template to itself is judged by its own
\* data, whatever happens at other templates meanwhile: it is told about
\* errors exactly if the rules get through its data and find some, and about
\* no others.  Data that makes a rule raise is never answered with errors,
\* even if it has some, and never accepted either.
AloneIsJudgedRight ==
    \A r \in Requests :
       pc[r] = "answered" /\ ~met[r] /\ may[r] /\ doc[r] # "separator"
         /\ asks[r] \in served["html"] \cap Validated /\ WindowsPaths
       => /\ status[r] = IF doc[r] = "invalid" THEN 400 ELSE 500
          /\ blamed[r] = IF doc[r] = "invalid" THEN {r} ELSE {}

\* Validating "the data injected into the template" reports on that data.
VerdictIsOwn ==
    \A r \in Requests : pc[r] = "answered" => blamed[r] \subseteq {r}
=============================================================================
