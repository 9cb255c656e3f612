------------------------------ MODULE MCAssets ------------------------------
\* Instances of Assets for TLC.
EXTENDS Assets

CONSTANTS jita, amarr

Three == 1..3
Two == {jita, amarr}

Personal(p) == [owner |-> "character", parent |-> p]
Corporate(p) == [owner |-> "corporation", parent |-> p]

\* A blueprint in a container of the corporation, which lies in one of the
\* character's; and three items side by side, of which the corporation's comes
\* before the character's when it is handed over.
SmallHangars ==
  {<<Personal(2), Corporate(3), Personal(jita)>>,
   <<Corporate(jita), Personal(jita), Personal(jita)>>}

=============================================================================
