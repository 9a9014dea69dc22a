------------------------- MODULE MCClientSubmission -------------------------
EXTENDS ClientSubmission, Naturals

Uploads(o) == {n \in {"upload_id", "upload_model_id", "base_upload_id"} : Given(o[n])}
HasBase(o) == o.base_brew_build # "none" \/ Given(o.base_upload_id)

\* The ways to name up to two uploads with a target and a base, and the ways
\* to choose the mock configs of builds; the two hardly meet, so they are
\* combined only for a target with one upload.
SomeOptions ==
  {o \in Choices :
     /\ o.version_diff <=> HasBase(o)
     /\ o.base_mock_config = "auto" => o.base_brew_build # "none"
     /\ o.base_mock_config # "named"
     /\ o.dist_git_url => o.brew_build = "none" /\ ~HasBase(o) /\ Uploads(o) = {}
     /\ o.brew_build # "none" /\ Given(o.upload_id) => ~HasBase(o) /\ ~o.auto
     /\ o.base_brew_build # "none" => ~Given(o.base_upload_id)
     /\ Uploads(o) # {} => /\ o.brew_build # "container"
                           /\ o.base_brew_build # "container"
                           /\ o.base_mock_config = "absent"
     /\ Cardinality(Uploads(o)) < (IF o.auto THEN 2 ELSE 3)
     /\ o.brew_build = "container" => ~HasBase(o)}
=============================================================================
