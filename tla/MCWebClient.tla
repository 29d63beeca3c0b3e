---------------------------- MODULE MCWebClient ----------------------------
(* The pages of the web client, each with the part of the server it talks   *)
(* to, side by side: they share no state of these modules, so that one      *)
(* behaviour moves one of them.                                             *)
EXTENDS WebChat, WebKnowledge, WebSettings, WebActivity, WebBrands, DocumentChunks, TLC
LOCAL INSTANCE SequencesExt

VARIABLE part

pageVars == <<chatVars, knowledgeVars, settingsVars, activityVars, brandVars, chunkVars>>

\* Texts of up to nine characters; sheets of up to four rows that are not empty.
Characters == {"letter", "space", "line"}
MCTexts == {<<"letter">>} \cup {<<"letter">> \o s \o <<"letter">> : s \in SeqOf(Characters, 7)}
Row(columns) == [1 .. columns -> {0, 1, 5}] \ {[j \in 1 .. columns |-> 0]}
MCMatrices == UNION {[1 .. n -> Row(columns)] : n \in 1 .. 4, columns \in 1 .. 2}

\* What differs at the start differs in the part that moves.
Init ==
  /\ part \in {"chat", "knowledge", "settings", "activity", "brands", "document"}
  /\ ChatInit /\ KnowledgeInit /\ SettingsInit /\ ActivityInit /\ BrandsInit /\ DocumentInit
  /\ part # "document" => text = <<"letter">>
  /\ library.active = page.active
  /\ at.active = page.active
  /\ catalog.active \in {General, page.active} /\ (part # "brands" => catalog.active = General)
  /\ part # "settings" => env = None

Chat_Step == part = "chat" /\ ChatNext
  /\ UNCHANGED <<part, knowledgeVars, settingsVars, activityVars, brandVars, chunkVars>>
Knowledge_Step == part = "knowledge" /\ KnowledgeNext
  /\ UNCHANGED <<part, chatVars, settingsVars, activityVars, brandVars, chunkVars>>
Settings_Step == part = "settings" /\ SettingsNext
  /\ UNCHANGED <<part, chatVars, knowledgeVars, activityVars, brandVars, chunkVars>>
Activity_Step == part = "activity" /\ ActivityNext
  /\ UNCHANGED <<part, chatVars, knowledgeVars, settingsVars, brandVars, chunkVars>>
Brands_Step == part = "brands" /\ BrandsNext
  /\ UNCHANGED <<part, chatVars, knowledgeVars, settingsVars, activityVars, chunkVars>>
Document_Step == part = "document" /\ DocumentNext
  /\ UNCHANGED <<part, chatVars, knowledgeVars, settingsVars, activityVars, brandVars>>

Next == Chat_Step \/ Knowledge_Step \/ Settings_Step \/ Activity_Step \/ Brands_Step
        \/ Document_Step
Spec == Init /\ [][Next]_<<part, pageVars>>

Same == Permutations(Workspaces) \cup Permutations(Folders)
=============================================================================
