--------------------------- MODULE SchemaMetadata ---------------------------
(***************************************************************************)
(* The schema the server is written against: Base.metadata, one definition *)
(* per mapped class of adapters/outbound/database/orm.                     *)
(***************************************************************************)
EXTENDS SchemaObjects

UserRow == Objects("users",
    {"id", "email", "nickname", "status", "created_at", "updated_at", "deleted_at"}, {})

AuthIdentityRow == Objects("auth_identities",
    {"id", "user_id", "provider", "subject", "password_hash", "created_at"},
    {<<"user_id", "users", "CASCADE">>})

RefreshTokenRow == Objects("refresh_tokens",
    {"id", "user_id", "token_hash", "device_id", "issued_at", "expires_at",
     "revoked_at", "replaced_by_id"},
    {<<"user_id", "users", "CASCADE">>, <<"replaced_by_id", "refresh_tokens", "SET NULL">>})

UserProfileRow == Objects("user_profiles",
    {"user_id", "display_name", "profile_image_key", "location_name", "timezone",
     "gender_identity", "height_cm", "body_type", "personal_colors",
     "onboarding_completed_at", "updated_at"},
    {<<"user_id", "users", "CASCADE">>})

UserPreferenceRow == Objects("user_preferences",
    {"user_id", "preferred_styles", "disliked_styles", "preferred_colors",
     "fit_preferences", "ai_settings", "notification_settings", "updated_at"},
    {<<"user_id", "users", "CASCADE">>})

ClosetRow == Objects("closets",
    {"id", "user_id", "name", "is_default", "created_at", "updated_at", "archived_at"},
    {<<"user_id", "users", "CASCADE">>})

ImportJobRow == Objects("import_jobs",
    {"id", "user_id", "closet_id", "source_type", "source_key", "status",
     "detected_item_count", "error_code", "created_at", "completed_at"},
    {<<"user_id", "users", "CASCADE">>, <<"closet_id", "closets", "CASCADE">>})

FashionItemRow == Objects("items",
    {"id", "closet_id", "import_job_id", "display_name", "brand", "collection_name",
     "category", "subcategory", "analysis_status", "lifecycle_status", "source_type",
     "image_key", "color_hex", "color_name", "colors", "materials", "style_tags",
     "season_tags", "confidence", "user_attributes", "purchase_price", "currency",
     "acquired_at", "donated_at", "last_worn_at", "wear_count", "created_at",
     "updated_at"},
    {<<"closet_id", "closets", "CASCADE">>, <<"import_job_id", "import_jobs", "SET NULL">>})

ItemImageRow == Objects("item_images",
    {"id", "item_id", "image_type", "storage_key", "content_type", "width", "height",
     "byte_size", "sha256", "created_at"},
    {<<"item_id", "items", "CASCADE">>})

AnalysisJobRow == Objects("analysis_jobs",
    {"id", "item_id", "status", "attempt", "provider", "pipeline_version", "error_code",
     "error_detail", "queued_at", "started_at", "completed_at"},
    {<<"item_id", "items", "CASCADE">>})

ItemAnalysisRow == Objects("item_analyses",
    {"id", "item_id", "analysis_job_id", "model_name", "model_version",
     "pipeline_version", "category", "subcategory", "materials", "colors",
     "style_tags", "season_tags", "attributes", "confidence", "raw_result",
     "created_at", "superseded_at"},
    {<<"item_id", "items", "CASCADE">>, <<"analysis_job_id", "analysis_jobs", "CASCADE">>})

OutfitRow == Objects("outfits",
    {"id", "user_id", "source", "status", "scheduled_for", "occasion",
     "weather_snapshot", "preference_snapshot", "overall_score", "score_breakdown",
     "recommendation_reasons", "stylist_tip", "scoring_version", "is_bookmarked",
     "created_at", "updated_at"},
    {<<"user_id", "users", "CASCADE">>})

OutfitItemRow == Objects("outfit_items",
    {"outfit_id", "item_id", "role", "position", "created_at"},
    {<<"outfit_id", "outfits", "CASCADE">>, <<"item_id", "items", "RESTRICT">>})

OutfitFeedbackRow == Objects("outfit_feedback",
    {"id", "outfit_id", "user_id", "feedback_type", "reason_tags", "created_at",
     "updated_at"},
    {<<"outfit_id", "outfits", "CASCADE">>, <<"user_id", "users", "CASCADE">>})

WearEventRow == Objects("wear_events",
    {"id", "user_id", "outfit_id", "worn_at", "weather_snapshot", "occasion",
     "idempotency_key", "created_at"},
    {<<"user_id", "users", "CASCADE">>, <<"outfit_id", "outfits", "RESTRICT">>})

OutfitReviewRow == Objects("outfit_reviews",
    {"id", "wear_event_id", "rating", "quick_tags", "note", "created_at", "updated_at"},
    {<<"wear_event_id", "wear_events", "CASCADE">>})

SubscriptionRow == Objects("subscriptions",
    {"id", "user_id", "provider", "external_subscription_id", "plan", "status",
     "current_period_end", "cancel_at_period_end", "created_at", "updated_at"},
    {<<"user_id", "users", "CASCADE">>})

WeatherCacheRow == Objects("weather_cache",
    {"location_key", "location", "provider", "temperature", "feels_like", "condition",
     "description", "precipitation", "humidity", "wind_speed", "observed_at",
     "fetched_at"}, {})

Metadata ==
    UNION {UserRow, AuthIdentityRow, RefreshTokenRow, UserProfileRow, UserPreferenceRow,
           ClosetRow, ImportJobRow, FashionItemRow, ItemImageRow, AnalysisJobRow,
           ItemAnalysisRow, OutfitRow, OutfitItemRow, OutfitFeedbackRow, WearEventRow,
           OutfitReviewRow, SubscriptionRow, WeatherCacheRow}
=============================================================================
