----------------------------- MODULE Favourites ------------------------------
(***************************************************************************)
(* What the user keeps: the presets of DAB and the list of FM stations,    *)
(* with the keypad, the buttons and the form by which frequencies and      *)
(* names are entered.  All of it runs in the GUI thread; what is kept is   *)
(* written to files when a system is left, and the program can die at any  *)
(* time, also in the middle of writing.                                    *)
(*                                                                         *)
(* Frequencies are integers of a word, in Hz or in kHz as in the code; a   *)
(* product that does not fit wraps, as it does in the builds.              *)
(***************************************************************************)
EXTENDS Integers, Sequences, FiniteSets

CONSTANTS
  Text,          \* what can be typed as the name of a station
  NoText,        \* the empty form
  Preset,        \* a channel with the name of a service
  Colon,         \* presets whose service has a colon in its name
  Kilo,          \* 1000
  Ten,           \* 10
  Word,          \* the values of an int
  fmLow, fmHigh, \* the band, in kHz
  fmDefault,     \* the frequency of the first start, in kHz
  FmStep,        \* the step of both buttons, in kHz
  DabFrequency,  \* the frequencies of the channels, in Hz
  MaxRows, MaxForms, MaxWires   \* bounds of the model

ASSUME FavouritesAssumption ==
  /\ {Kilo, Ten, Word, fmLow, fmHigh, fmDefault, FmStep} \subseteq Nat \ {0}
  /\ fmLow <= fmDefault /\ fmDefault <= fmHigh /\ Kilo * fmHigh < Word \div 2
  /\ DabFrequency \subseteq Nat \ {0}
  /\ Colon \subseteq Preset
  /\ {MaxRows, MaxForms, MaxWires} \subseteq Nat

VARIABLES
  decoder,        \* the system that is on, or that the program does not run
  vfoFrequency,   \* the frequency of the device, in Hz
  panel,          \* the number keyed in
  isVisible,      \* the keypad is shown
  wires,          \* how often freqButton and freqSave are connected to their slots
  forms,          \* the forms on the screen, and the text in each
  myLine,         \* the form that handle_myLine reads, 0 for nullptr
  tableWidget,    \* the rows of the list of stations
  presetSelector, \* the entries of the combobox, without its first
  savedTable,     \* the file of the list
  presetFile,     \* the file of the presets
  settings        \* the system and the FM frequency (in kHz) of the next start

keys    == <<panel, isVisible>>
form    == <<forms, myLine>>
files   == <<savedTable, presetFile, settings>>
favVars == <<decoder, vfoFrequency, keys, wires, form, tableWidget, presetSelector, files>>

\* A product as an int: it wraps.
Int32(x) == ((x + Word \div 2) % Word) - (Word \div 2)

KHz(x) == Int32(Kilo * x)
MHz(x) == Int32(Kilo * Kilo * x)

\* x - x % 10: the remainder has the sign of x.
Correct(x) == IF x >= 0 THEN x - (x % Ten) ELSE x + ((-x) % Ten)

FavouritesInit ==
  /\ decoder = "off" /\ vfoFrequency = 0
  /\ panel = 0 /\ isVisible = FALSE /\ wires = 0
  /\ forms = <<>> /\ myLine = 0
  /\ tableWidget = <<>> /\ presetSelector = {}
  /\ savedTable = <<>> /\ presetFile = {}
  /\ settings = [system |-> "DAB", fmFrequency |-> fmDefault]
-----------------------------------------------------------------------------
(* Tuning in FM.                                                           *)

\* A frequency outside the band is ignored.
newFrequency(freq) ==
  vfoFrequency' = IF freq < Kilo * fmLow \/ freq > Kilo * fmHigh THEN vfoFrequency ELSE freq

\* collectData with a digit, of a keypad that is shown.
Digit(d) ==
  /\ isVisible
  /\ panel' = Int32(Ten * panel + d)
  /\ UNCHANGED <<decoder, vfoFrequency, isVisible, wires, form, tableWidget, presetSelector,
                 files>>

\* The clear key and the correct key.
ClearOrCorrect ==
  /\ isVisible
  /\ panel' \in {0, Correct(panel)}
  /\ UNCHANGED <<decoder, vfoFrequency, isVisible, wires, form, tableWidget, presetSelector,
                 files>>

\* The kHz key and the MHz key.
Enter ==
  /\ isVisible
  /\ \E freq \in {KHz(panel), MHz(panel)} : newFrequency(freq)
  /\ panel' = 0 /\ isVisible' = FALSE
  /\ UNCHANGED <<decoder, wires, form, tableWidget, presetSelector, files>>

\* handle_freqButton, once for each connection. showPad clears the number.
FreqButton ==
  /\ decoder = "FM"
  /\ isVisible' = IF wires % 2 = 1 THEN ~isVisible ELSE isVisible
  /\ panel' = IF isVisible /\ wires = 1 THEN panel ELSE 0
  /\ UNCHANGED <<decoder, vfoFrequency, wires, form, tableWidget, presetSelector, files>>

\* handle_decrementButton, handle_incrementButton and a click in the list.
StepOrRow ==
  /\ decoder = "FM"
  /\ \E freq \in {vfoFrequency - Kilo * FmStep, vfoFrequency + Kilo * FmStep}
                 \cup {KHz(tableWidget[row].freq) : row \in DOMAIN tableWidget} :
       newFrequency(freq)
  /\ UNCHANGED <<decoder, keys, wires, form, tableWidget, presetSelector, files>>
-----------------------------------------------------------------------------
(* The list of stations.                                                   *)

Row == [name : Text \cup {NoText}, freq : Nat]

\* set_freqSave, once for each connection: each makes a form, and the last is the
\* one that is read.
FreqSave ==
  /\ decoder = "FM"
  /\ \E new \in SUBSET ((1 .. MaxForms) \ DOMAIN forms) :
       /\ Cardinality(new) = wires
       /\ myLine' \in new
       /\ forms' = [f \in DOMAIN forms \cup new |-> IF f \in new THEN NoText ELSE forms[f]]
  /\ UNCHANGED <<decoder, vfoFrequency, keys, wires, tableWidget, presetSelector, files>>

\* The user types in a form.
Type(f, name) ==
  /\ f \in DOMAIN forms
  /\ forms' = [forms EXCEPT ![f] = name]
  /\ UNCHANGED <<decoder, vfoFrequency, keys, wires, myLine, tableWidget, presetSelector, files>>

\* handle_myLine, on return in any form: the name is that of the form made last, the
\* frequency the one of now.  A form outlives the system it was made in.
HandleMyLine ==
  /\ myLine # 0 /\ Len(tableWidget) < MaxRows
  /\ tableWidget' = Append(tableWidget, [name |-> forms[myLine], freq |-> vfoFrequency \div Kilo])
  /\ forms' = [f \in DOMAIN forms \ {myLine} |-> forms[f]]
  /\ myLine' = 0
  /\ UNCHANGED <<decoder, vfoFrequency, keys, wires, presetSelector, files>>

\* removeRow, on a double click in the list, which is shown in FM only.
RemoveRow(row) ==
  /\ decoder = "FM" /\ row \in DOMAIN tableWidget
  /\ tableWidget' = SubSeq(tableWidget, 1, row - 1)
                      \o SubSeq(tableWidget, row + 1, Len(tableWidget))
  /\ UNCHANGED <<decoder, vfoFrequency, keys, wires, form, presetSelector, files>>
-----------------------------------------------------------------------------
(* DAB.                                                                    *)

\* The right button on the service that is on: an entry is added once.
AddPreset(p) ==
  /\ decoder = "DAB"
  /\ presetSelector' = presetSelector \cup {p}
  /\ UNCHANGED <<decoder, vfoFrequency, keys, wires, form, tableWidget, files>>

\* The channel selector, the channel buttons, and a preset that localSelect can split.
SelectFrequency ==
  /\ decoder = "DAB"
  /\ vfoFrequency' \in DabFrequency
  /\ UNCHANGED <<decoder, keys, wires, form, tableWidget, presetSelector, files>>
-----------------------------------------------------------------------------
(* The systems, the files, and the end of the program.                     *)

\* savePresets, in stop_dabSystem.  An entry with another colon has three parts, and
\* is passed over.
SavePresets ==
  /\ presetFile' = presetSelector \ Colon
  /\ UNCHANGED savedTable

\* Mutant of SaveTable: the list is not saved.
SaveNothing == UNCHANGED <<savedTable, presetFile>>

\* saveTable, in stop_fmSystem.
SaveTable ==
  /\ savedTable' = tableWidget
  /\ UNCHANGED presetFile

\* set_dabSystem does nothing when DAB is on.
ToDab ==
  /\ decoder = "FM"
  /\ SaveTable
  /\ settings' = [settings EXCEPT !.fmFrequency = vfoFrequency \div Kilo]
  /\ isVisible' = FALSE /\ wires' = 0
  /\ decoder' = "DAB"
  /\ vfoFrequency' \in DabFrequency
  /\ UNCHANGED <<panel, form, tableWidget, presetSelector>>

\* set_fmSystem does not look whether FM is on: then it connects once more, but a
\* device that runs is not tuned.  Here a device always starts.
ToFm ==
  /\ decoder \in {"DAB", "FM"} /\ wires < MaxWires
  /\ IF decoder = "DAB" THEN SavePresets ELSE UNCHANGED <<savedTable, presetFile>>
  /\ wires' = wires + 1
  /\ myLine' = 0
  /\ vfoFrequency' = IF decoder = "FM" THEN vfoFrequency ELSE KHz(settings.fmFrequency)
  /\ decoder' = "FM"
  /\ UNCHANGED <<keys, forms, tableWidget, presetSelector, settings>>

\* What is in memory is gone.
Ends ==
  /\ decoder # "off" /\ decoder' = "off"
  /\ vfoFrequency' = 0
  /\ panel' = 0 /\ isVisible' = FALSE /\ wires' = 0
  /\ forms' = <<>> /\ myLine' = 0
  /\ tableWidget' = <<>> /\ presetSelector' = {}

\* closeEvent and TerminateProcess. Forms that are still open keep the process, but
\* no system is stopped a second time, so nothing is saved any more.
Close ==
  /\ Ends
  /\ \/ /\ decoder = "DAB" /\ SavePresets
        /\ settings' = [settings EXCEPT !.system = "DAB"]
     \/ /\ decoder = "FM" /\ SaveTable
        /\ settings' = [system |-> "FM", fmFrequency |-> vfoFrequency \div Kilo]

\* The program is killed, or dies: handle_myLine has no form to read.
Dies == Ends /\ UNCHANGED files

\* A row the file ends before: it is read as one with empty texts.
BlankRow == [name |-> NoText, freq |-> 0]

\* It dies when a file has been opened for writing, which empties it: the presets
\* come at once, the rows one by one behind their number.
DiesInSaving ==
  /\ Ends
  /\ \/ /\ decoder = "DAB" /\ presetFile' = {}
        /\ UNCHANGED savedTable
     \/ /\ decoder = "FM"
        /\ \/ savedTable' = <<>>
           \/ \E n \in 0 .. Len(tableWidget) :
                savedTable' = [row \in 1 .. Len(tableWidget) |->
                                IF row <= n THEN tableWidget[row] ELSE BlankRow]
        /\ UNCHANGED presetFile
  /\ UNCHANGED settings

\* The constructor: loadPresets, loadTable, and the system of last time.
Start ==
  /\ decoder = "off"
  /\ decoder' = settings.system
  /\ tableWidget' = savedTable /\ presetSelector' = presetFile
  /\ IF settings.system = "FM"
     THEN wires' = 1 /\ vfoFrequency' = KHz(settings.fmFrequency)
     ELSE wires' = 0 /\ vfoFrequency' \in DabFrequency
  /\ UNCHANGED <<keys, form, files>>

FavouritesNext ==
  \/ \E d \in 0 .. Ten - 1 : Digit(d)
  \/ ClearOrCorrect \/ Enter \/ FreqButton \/ StepOrRow
  \/ FreqSave \/ HandleMyLine
  \/ \E f \in 1 .. MaxForms, name \in Text : Type(f, name)
  \/ \E row \in 1 .. MaxRows : RemoveRow(row)
  \/ \E p \in Preset : AddPreset(p)
  \/ SelectFrequency \/ ToDab \/ ToFm
  \/ Close \/ Dies \/ DiesInSaving \/ Start

FavouritesSpec == FavouritesInit /\ [][FavouritesNext]_favVars
-----------------------------------------------------------------------------
(* Properties.                                                             *)

\* The values every variable keeps.
FavouritesTypeOK ==
  /\ decoder \in {"off", "DAB", "FM"}
  /\ vfoFrequency \in Nat
  /\ panel \in Int /\ isVisible \in BOOLEAN /\ wires \in Nat
  /\ DOMAIN forms \subseteq 1 .. MaxForms
  /\ \A f \in DOMAIN forms : forms[f] \in Text \cup {NoText}
  /\ myLine \in {0} \cup DOMAIN forms
  /\ tableWidget \in Seq(Row) /\ savedTable \in Seq(Row)
  /\ presetSelector \subseteq Preset /\ presetFile \subseteq Preset
  /\ settings \in [system : {"DAB", "FM"}, fmFrequency : fmLow .. fmHigh]

\* In FM the device is tuned within the band, whatever is keyed in (also numbers that
\* do not fit a word), stepped to or clicked, and with the frequency of last time.
InBand == decoder = "FM" => vfoFrequency \in Kilo * fmLow .. Kilo * fmHigh

\* The file of presets has nothing the program has not, and nothing that cannot be
\* saved; in FM it has all the rest, because presets are only entered in DAB.
FilesAgree ==
  /\ presetFile \cap Colon = {}
  /\ decoder # "off" => presetFile \subseteq presetSelector
  /\ decoder = "FM" => presetSelector \ Colon \subseteq presetFile

Rows(table) == {table[row] : row \in DOMAIN table}

Runs   == decoder # "off" /\ decoder' # "off"
Killed == Dies \/ DiesInSaving

\* A station leaves the list when its row is removed, or with the program.
ListsKeep ==
  Runs =>
    /\ \A r \in Rows(tableWidget) \ Rows(tableWidget') :
         \E row \in DOMAIN tableWidget : tableWidget[row] = r /\ RemoveRow(row)
    /\ presetSelector \subseteq presetSelector'

\* When FM is left the file has every station, and when the program is closed, from
\* whatever system, every preset that can be saved.
LeavingSaves ==
  ~Killed =>
    /\ decoder = "FM" /\ decoder' # "FM" => Rows(tableWidget) \subseteq Rows(savedTable')
    /\ decoder # "off" /\ decoder' = "off" => presetSelector \ Colon \subseteq presetFile'

\* A start begins with all that is in the files.
StartReads ==
  decoder = "off" /\ decoder' # "off" =>
    Rows(savedTable) \subseteq Rows(tableWidget') /\ presetFile \subseteq presetSelector'

\* Nothing leaves a file that is still in the list, unless the program dies while it
\* writes.
FilesKeep ==
  ~DiesInSaving =>
    /\ \A r \in Rows(savedTable) \ Rows(savedTable') : r \notin Rows(tableWidget)
    /\ presetFile \subseteq presetFile'

\* What the user keeps is lost only when the program dies, over any number of changes
\* of the system and of starts.
NothingForgotten == [][ListsKeep /\ LeavingSaves /\ StartReads /\ FilesKeep]_favVars

\* As the comment before handle_freqButton says: pressing the button shows the keypad,
\* and "pressing the button (for the second time) will hide the keypad again".
ButtonToggles == [][FreqButton => isVisible' = ~isVisible]_favVars
=============================================================================
