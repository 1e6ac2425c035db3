-------------------------- MODULE SchemaRevisions --------------------------
(***************************************************************************)
(* The three revisions under migrations/versions, each an upgrade and a    *)
(* downgrade script: the statements of its file in their order, those on   *)
(* one table in one batch taken together.                                  *)
(***************************************************************************)
EXTENDS SchemaObjects

(* The pre-Alembic schema as migrations.py knows it: tables and columns. *)
LegacyBaselineColumns ==
    [users |-> {"id", "email", "nickname", "created_at"},
     auth_identities |-> {"id", "user_id", "provider", "subject", "password_hash",
                          "created_at"},
     closets |-> {"id", "user_id", "name", "created_at"},
     items |-> {"id", "closet_id", "display_name", "category", "subcategory", "status",
                "image_key", "color_hex", "color_name", "style_tags", "season_tags",
                "confidence", "user_attributes", "created_at", "updated_at"}]

(***************************************************************************)
(* 0001_baseline.                                                          *)
(***************************************************************************)
CreateUsers == Create("users", {"id", "email", "nickname", "created_at"}, {})

CreateAuthIdentities == Create("auth_identities",
    {"id", "user_id", "provider", "subject", "password_hash", "created_at"},
    {<<"user_id", "users", "">>})

CreateClosets == Create("closets", {"id", "user_id", "name", "created_at"},
    {<<"user_id", "users", "">>})

CreateItems == Create("items",
    {"id", "closet_id", "display_name", "category", "subcategory", "status", "image_key",
     "color_hex", "color_name", "style_tags", "season_tags", "confidence",
     "user_attributes", "created_at", "updated_at"},
    {<<"closet_id", "closets", "">>})

Upgrade0001 == <<CreateUsers, CreateAuthIdentities, CreateClosets, CreateItems>>

Downgrade0001 ==
    <<Undo(CreateItems), Undo(CreateClosets), Undo(CreateAuthIdentities), Undo(CreateUsers)>>

(***************************************************************************)
(* 0002_expand_wireframe_domain_schema.                                    *)
(***************************************************************************)
CreateOutfits == Create("outfits",
    {"id", "user_id", "source", "status", "scheduled_for", "occasion",
     "weather_snapshot", "preference_snapshot", "overall_score", "score_breakdown",
     "recommendation_reasons", "stylist_tip", "scoring_version", "is_bookmarked",
     "created_at", "updated_at"},
    {<<"user_id", "users", "CASCADE">>})

CreateRefreshTokens == Create("refresh_tokens",
    {"id", "user_id", "token_hash", "device_id", "issued_at", "expires_at",
     "revoked_at", "replaced_by_id"},
    {<<"replaced_by_id", "refresh_tokens", "SET NULL">>, <<"user_id", "users", "CASCADE">>})

CreateSubscriptions == Create("subscriptions",
    {"id", "user_id", "provider", "external_subscription_id", "plan", "status",
     "current_period_end", "cancel_at_period_end", "created_at", "updated_at"},
    {<<"user_id", "users", "CASCADE">>})

CreateUserPreferences == Create("user_preferences",
    {"user_id", "preferred_styles", "disliked_styles", "preferred_colors",
     "fit_preferences", "ai_settings", "notification_settings", "updated_at"},
    {<<"user_id", "users", "CASCADE">>})

CreateUserProfiles == Create("user_profiles",
    {"user_id", "display_name", "profile_image_key", "location_name", "timezone",
     "gender_identity", "height_cm", "body_type", "personal_colors",
     "onboarding_completed_at", "updated_at"},
    {<<"user_id", "users", "CASCADE">>})

CreateImportJobs == Create("import_jobs",
    {"id", "user_id", "closet_id", "source_type", "source_key", "status",
     "detected_item_count", "error_code", "created_at", "completed_at"},
    {<<"closet_id", "closets", "CASCADE">>, <<"user_id", "users", "CASCADE">>})

CreateOutfitFeedback == Create("outfit_feedback",
    {"id", "outfit_id", "user_id", "feedback_type", "reason_tags", "created_at",
     "updated_at"},
    {<<"outfit_id", "outfits", "CASCADE">>, <<"user_id", "users", "CASCADE">>})

CreateWearEvents == Create("wear_events",
    {"id", "user_id", "outfit_id", "worn_at", "weather_snapshot", "occasion",
     "idempotency_key", "created_at"},
    {<<"outfit_id", "outfits", "RESTRICT">>, <<"user_id", "users", "CASCADE">>})

CreateOutfitReviews == Create("outfit_reviews",
    {"id", "wear_event_id", "rating", "quick_tags", "note", "created_at", "updated_at"},
    {<<"wear_event_id", "wear_events", "CASCADE">>})

CreateAnalysisJobs == Create("analysis_jobs",
    {"id", "item_id", "status", "attempt", "provider", "pipeline_version", "error_code",
     "error_detail", "queued_at", "started_at", "completed_at"},
    {<<"item_id", "items", "CASCADE">>})

CreateItemImages == Create("item_images",
    {"id", "item_id", "image_type", "storage_key", "content_type", "width", "height",
     "byte_size", "sha256", "created_at"},
    {<<"item_id", "items", "CASCADE">>})

CreateOutfitItems == Create("outfit_items",
    {"outfit_id", "item_id", "role", "position", "created_at"},
    {<<"item_id", "items", "RESTRICT">>, <<"outfit_id", "outfits", "CASCADE">>})

CreateItemAnalyses == Create("item_analyses",
    {"id", "item_id", "analysis_job_id", "model_name", "model_version",
     "pipeline_version", "category", "subcategory", "materials", "colors",
     "style_tags", "season_tags", "attributes", "confidence", "raw_result",
     "created_at", "superseded_at"},
    {<<"analysis_job_id", "analysis_jobs", "CASCADE">>, <<"item_id", "items", "CASCADE">>})

(* The reflected foreign key, whatever its name, replaced by one that
   cascades; the upgrade raises when there is none (_foreign_key_name).    *)
Reflected(table, column, parent) == <<table, column, parent, "">>

AlterAuthIdentities ==
    Alter({Reflected("auth_identities", "user_id", "users")},
          {<<"auth_identities", "user_id", "users", "CASCADE">>}, {})

AlterClosets ==
    Alter({Reflected("closets", "user_id", "users")},
          {<<"closets", "is_default">>, <<"closets", "updated_at">>,
           <<"closets", "archived_at">>, <<"closets", "user_id", "users", "CASCADE">>}, {})

RenameStatus ==
    Alter({}, {}, {<< <<"items", "status">>, <<"items", "analysis_status">> >>})

AlterItems ==
    Alter({Reflected("items", "closet_id", "closets")},
          {<<"items", c>> : c \in
              {"import_job_id", "brand", "collection_name", "lifecycle_status",
               "source_type", "colors", "materials", "purchase_price", "currency",
               "acquired_at", "donated_at", "last_worn_at", "wear_count"}}
          \cup {<<"items", "import_job_id", "import_jobs", "SET NULL">>,
                <<"items", "closet_id", "closets", "CASCADE">>}, {})

AlterUsers ==
    Alter({}, {<<"users", "status">>, <<"users", "updated_at">>, <<"users", "deleted_at">>},
          {})

Upgrade0002 ==
    <<CreateOutfits, CreateRefreshTokens, CreateSubscriptions, CreateUserPreferences,
      CreateUserProfiles, CreateImportJobs, CreateOutfitFeedback, CreateWearEvents,
      CreateOutfitReviews, CreateAnalysisJobs, CreateItemImages, CreateOutfitItems,
      CreateItemAnalyses, AlterAuthIdentities, AlterClosets, RenameStatus, AlterItems,
      AlterUsers>>

RestoreUsers ==
    Alter({<<"users", "deleted_at">>, <<"users", "updated_at">>, <<"users", "status">>}, {},
          {})

RestoreItems ==
    Alter({<<"items", c>> : c \in
              {"wear_count", "last_worn_at", "donated_at", "acquired_at", "currency",
               "purchase_price", "materials", "colors", "source_type",
               "lifecycle_status", "collection_name", "brand", "import_job_id"}}
          \cup {<<"items", "closet_id", "closets", "CASCADE">>,
                <<"items", "import_job_id", "import_jobs", "SET NULL">>},
          {<<"items", "closet_id", "closets", "">>}, {})

RestoreStatus ==
    Alter({}, {}, {<< <<"items", "analysis_status">>, <<"items", "status">> >>})

RestoreClosets ==
    Alter({<<"closets", "archived_at">>, <<"closets", "updated_at">>,
           <<"closets", "is_default">>, <<"closets", "user_id", "users", "CASCADE">>},
          {<<"closets", "user_id", "users", "">>}, {})

RestoreAuthIdentities ==
    Alter({<<"auth_identities", "user_id", "users", "CASCADE">>},
          {<<"auth_identities", "user_id", "users", "">>}, {})

Downgrade0002 ==
    <<RestoreUsers, RestoreItems, RestoreStatus, RestoreClosets, RestoreAuthIdentities,
      Undo(CreateItemAnalyses), Undo(CreateOutfitItems), Undo(CreateItemImages),
      Undo(CreateAnalysisJobs), Undo(CreateOutfitReviews), Undo(CreateWearEvents),
      Undo(CreateOutfitFeedback), Undo(CreateImportJobs), Undo(CreateUserProfiles),
      Undo(CreateUserPreferences), Undo(CreateSubscriptions), Undo(CreateRefreshTokens),
      Undo(CreateOutfits)>>

(***************************************************************************)
(* 0003_add_weather_cache.                                                 *)
(***************************************************************************)
CreateWeatherCache == Create("weather_cache",
    {"location_key", "location", "provider", "temperature", "feels_like", "condition",
     "description", "precipitation", "humidity", "wind_speed", "observed_at",
     "fetched_at"}, {})

Upgrade0003 == <<CreateWeatherCache>>

Downgrade0003 == <<Undo(CreateWeatherCache)>>

(***************************************************************************)
(* The chain of revisions: base is 0, head is 3.                           *)
(***************************************************************************)
Revisions == 1..3
HeadRevision == 3

UpgradeScript == <<Upgrade0001, Upgrade0002, Upgrade0003>>
DowngradeScript == <<Downgrade0001, Downgrade0002, Downgrade0003>>

Schema0 == {}
Schema1 == Execute(Schema0, Upgrade0001)
Schema2 == Execute(Schema1, Upgrade0002)
Schema3 == Execute(Schema2, Upgrade0003)

SchemaAt(r) == <<Schema0, Schema1, Schema2, Schema3>>[r + 1]

(* alembic upgrade head, from revision r: every later script in turn. *)
UpgradedFrom(schema, r) ==
    CASE r = 0 -> Execute(Execute(Execute(schema, Upgrade0001), Upgrade0002), Upgrade0003)
      [] r = 1 -> Execute(Execute(schema, Upgrade0002), Upgrade0003)
      [] r = 2 -> Execute(schema, Upgrade0003)
      [] r = 3 -> schema

(* alembic downgrade -1, from revision r. *)
DowngradedFrom(schema, r) == Execute(schema, DowngradeScript[r])
=============================================================================
