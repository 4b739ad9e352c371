-------------------------------- MODULE ErrorCodes --------------------------------
(***************************************************************************)
(* The generator of error codes (errorx/generator/generator.go): it reads  *)
(* the catalogue, one YAML file per business module, checks it, and writes *)
(* one Go file for each, over and over while the catalogue is edited.      *)
(*                                                                         *)
(* YAML files are numbers in the order of their paths.  A Go file is the   *)
(* set of the definitions in it.  A document is asked for (-doc-out).      *)
(***************************************************************************)
EXTENDS Integers, FiniteSetsExt, SequencesExt

CONSTANTS
    Yaml,           \* the paths a YAML file may have
    FileName,       \* FileName[y]: the Go file sanitizeFileName makes of it
    Functions,      \* Functions[n]: the functions New<n>, Wrap<n> and Is<n>, for every
                    \* exported Go identifier n
    Catalogues,     \* the catalogues: for each YAML file its content, or NoFile
    NoFile,
    MaxEdits,       \* bound on edits of the catalogue
    MaxRuns         \* bound on runs of the generator

\* The content of a YAML file.
File == [appCode : Int, bizCode : Int, errorCode : Seq([name : STRING, code : Int])]

ASSUME CodesAssumption ==
    /\ Yaml \subseteq Nat /\ IsFiniteSet(Yaml)
    /\ \A catalogue \in Catalogues, y \in Yaml :
         catalogue[y] = NoFile \/ catalogue[y] \in File
    /\ \A m, n \in DOMAIN Functions : m # n => Functions[m] \cap Functions[n] = {}
    /\ MaxEdits \in Nat /\ MaxRuns \in Nat

VARIABLES
    catalogue,  \* the YAML files
    stage,         \* where the run is; "idle" and "failed" between two runs
    inputs,     \* the paths it collected
    specs,      \* the contents it has loaded, in the order of inputs
    output,     \* the Go files of the output directory
    written,    \* those this run wrote
    document,   \* the definitions in the Markdown document
    edits, runs

codeVars == <<catalogue, stage, inputs, specs, output, written, document, edits, runs>>

CodesInit ==
    /\ catalogue \in Catalogues
    /\ stage = "failed" /\ inputs = <<>> /\ specs = <<>>
    /\ output = <<>> /\ written = {} /\ document = {}
    /\ edits = 0 /\ runs = 0

EditCatalogue ==
    /\ edits < MaxEdits /\ edits' = edits + 1
    /\ catalogue' \in Catalogues \ {catalogue}
    /\ UNCHANGED <<stage, inputs, specs, output, written, document, runs>>

\* The one input is a directory.
collectYAMLFiles == SetToSortSeq({y \in Yaml : catalogue[y] # NoFile}, <)

\* A directory without YAML files is an error.
Generate ==
    /\ stage \in {"idle", "failed"} /\ runs < MaxRuns
    /\ runs' = runs + 1
    /\ inputs' = collectYAMLFiles
    /\ specs' = <<>> /\ written' = {}
    /\ stage' = IF inputs' = <<>> THEN "failed" ELSE "load"
    /\ UNCHANGED <<catalogue, output, document, edits>>

\* composeErrorCode
composeErrorCode(appCode, bizCode, subCode) ==
    appCode * 100000000 + bizCode * 10000 + subCode

\* The codes validateSpec admits.
AppCodes   == 1 .. 9
FourDigits == 1 .. 9999

\* validateSpec
ValidSpec(spec) ==
    /\ spec.appCode \in AppCodes /\ spec.bizCode \in FourDigits
    /\ spec.errorCode # <<>>
    /\ \A i \in DOMAIN spec.errorCode :
         spec.errorCode[i].name \in DOMAIN Functions /\ spec.errorCode[i].code \in FourDigits
    /\ \A i, j \in DOMAIN spec.errorCode :
         \/ i = j
         \/ /\ spec.errorCode[i].name # spec.errorCode[j].name
            /\ spec.errorCode[i].code # spec.errorCode[j].code

\* loadSpec and validateSpec, file by file; the catalogue may be edited in between.
LoadSpec ==
    /\ stage = "load"
    /\ LET y == inputs[Len(specs) + 1]
       IN  IF catalogue[y] # NoFile /\ ValidSpec(catalogue[y])
           THEN /\ specs' = Append(specs, catalogue[y])
                /\ stage' = IF Len(specs') = Len(inputs) THEN "validate" ELSE "load"
           ELSE stage' = "failed" /\ UNCHANGED specs
    /\ UNCHANGED <<catalogue, inputs, output, written, document, edits, runs>>

\* The definitions the Go file of a spec holds.
Definitions(spec) ==
    {[name |-> d.name, code |-> composeErrorCode(spec.appCode, spec.bizCode, d.code)] :
       d \in ToSet(spec.errorCode)}

\* What the code of a definition declares in the package: its variable and the three
\* functions (writeDefinition, writeFunctions).
Declared(d) == {d.name} \cup Functions[d.name]

Clash(d, e) == d.name = e.name \/ d.code = e.code

\* Mutated form of NoConflict: sub-codes are taken to be unique by their bizCode.
NoConflictOfNames ==
    \A i, j \in DOMAIN specs : i # j =>
      /\ FileName[inputs[i]] # FileName[inputs[j]]
      /\ \A d \in Definitions(specs[i]), e \in Definitions(specs[j]) : d.name # e.name

\* validateInputFiles: no two files have the same Go file, a name or a full code.
NoConflict ==
    \A i, j \in DOMAIN specs : i # j =>
      /\ FileName[inputs[i]] # FileName[inputs[j]]
      /\ \A d \in Definitions(specs[i]), e \in Definitions(specs[j]) : ~Clash(d, e)

Validate ==
    /\ stage = "validate"
    /\ stage' = IF NoConflict THEN "write" ELSE "failed"
    /\ UNCHANGED <<catalogue, inputs, specs, output, written, document, edits, runs>>

\* generateGoCode for the next file.  It may fail, and leaves the files written so far.
WriteFile ==
    /\ stage = "write"
    /\ LET n == Cardinality(written) + 1
           file == FileName[inputs[n]]
       IN  \/ /\ output' = [f \in DOMAIN output \cup {file} |->
                              IF f = file THEN Definitions(specs[n]) ELSE output[f]]
              /\ written' = written \cup {file}
              /\ stage' = IF n = Len(inputs) THEN "document" ELSE "write"
           \/ stage' = "failed" /\ UNCHANGED <<output, written>>
    /\ UNCHANGED <<catalogue, inputs, specs, document, edits, runs>>

\* generateMarkdown, for all files together; its order is left out.
WriteDocument ==
    /\ stage = "document"
    /\ \/ /\ document' = UNION {Definitions(specs[i]) : i \in DOMAIN specs}
          /\ stage' = "idle"
       \/ stage' = "failed" /\ UNCHANGED document
    /\ UNCHANGED <<catalogue, inputs, specs, output, written, edits, runs>>

CodesNext ==
    EditCatalogue \/ Generate \/ LoadSpec \/ Validate \/ WriteFile \/ WriteDocument

CodesSpec == CodesInit /\ [][CodesNext]_codeVars

(***************************************************************************)
(* Properties.                                                             *)
(***************************************************************************)

\* The package a run leaves behind when it succeeds: the Go files it wrote and the
\* document hold the same definitions, those it read, no two of them with a name or a
\* full code in common (generator.go Generate, validateSpec, validateInputFiles).  Two of
\* them declare the same identifier only if one has the name of a function of the other
\* (A and NewA): no check looks for that, and the package does not compile.  Go files of
\* YAML files that are gone stay where they are and may clash.
PackageIsConsistent ==
    stage = "idle" =>
      /\ \A i \in DOMAIN specs : output[FileName[inputs[i]]] = Definitions(specs[i])
      /\ document = UNION {output[f] : f \in written}
      /\ \A f, g \in written : \A d \in output[f], e \in output[g] :
           Clash(d, e) => f = g /\ d = e
      /\ \A d, e \in document : d # e =>
           Declared(d) \cap Declared(e) =
             ({d.name} \cap Functions[e.name]) \cup ({e.name} \cap Functions[d.name])
==================================================================================
