--------------------------- MODULE Configuration ---------------------------
(***************************************************************************)
(* The configuration (src/config.rs): what validation accepts, and what    *)
(* the code asks of it afterwards, where a value that is missing is a      *)
(* panic and a pool that cannot be built keeps the hub from starting.      *)
(*                                                                         *)
(* A configuration is a good one with a few edits.  A value is good,       *)
(* missing, empty (a blank text, a zero) or wrong (an unknown word, a      *)
(* number out of its range).                                               *)
(***************************************************************************)
EXTENDS Integers, FiniteSets, Sequences, TLC

CONSTANT MaxEdits  \* bound on the edits of tools, kinds, connectors and pools

VARIABLES
    conf,        \* the configuration
    stage,       \* "edit", "accepted", "refused", "running", "failed", "answers", "panics"
    edits
confVars == <<conf, stage, edits>>

-----------------------------------------------------------------------------
(* What validation asks of each field                                       *)

ReadCacheChecks == [enable |-> "set", backend |-> "word", local_dir |-> "text", capacity_bytes |-> "text",
    max_file_size_bytes |-> "text", cache_thumbnail_paths |-> "set", skip_extensions |-> "text", ttl_secs |-> "text"]
WriteCacheChecks == [enable |-> "set", backend |-> "word", local_dir |-> "text", capacity_bytes |-> "text",
    max_file_size_bytes |-> "text", cache_thumbnail_paths |-> "set", skip_extensions |-> "text",
    flush_concurrency |-> "text", flush_interval_ms |-> "text", flush_deadline_secs |-> "text",
    abnormal_spill_dir |-> "text"]
BatchChecks == [timeout_secs |-> "text", max_concurrent_tasks |-> "text",
    max_concurrent_tasks_low_memory |-> "text", max_concurrent_tasks_throughput |-> "text",
    wal_min_size_bytes |-> "text", wal_skip_temp_path |-> "set"]
CompressChecks == [enable |-> "set", exe_7zip_path |-> "set", default_compression_format |-> "text",
    process_manager_max_concurrency |-> "text", process_manager_max_concurrency_low_memory |-> "text",
    process_manager_max_concurrency_throughput |-> "text", max_cpu_threads |-> "text",
    max_cpu_threads_low_memory |-> "text", max_cpu_threads_throughput |-> "text",
    compression_max_level |-> "range", timeout_secs |-> "text", max_extract_size_gb |-> "text",
    max_compress_items |-> "text", max_compress_total_size_mb |-> "text", max_compress_output_size_mb |-> "text",
    max_decompress_archive_size_mb |-> "text", enable_archive_browser |-> "set", decompression_formats |-> "set"]
IndexChecks == [vfs_sync_index_mode |-> "range", max_concurrent_refresh |-> "text",
    max_concurrent_refresh_low_memory |-> "text", max_concurrent_refresh_throughput |-> "text",
    max_files_per_refresh |-> "text", max_files_per_refresh_low_memory |-> "text",
    max_files_per_refresh_throughput |-> "text", refresh_timeout |-> "text", refresh_trigger_filename |-> "text",
    enable_partition |-> "set", partition_count |-> "text", admin_consistency_check_batch_size |-> "text",
    admin_consistency_check_timeout |-> "text"]
ThumbnailChecks == [enabled |-> "set", cache_mode |-> "word", allow_user_directory_mode_override |-> "set",
    allow_user_show_hidden_thumbnail_dirs |-> "set", default_show_thumbnail_directories |-> "set",
    cache_dir |-> "text", thumb_size_px |-> "text", thumb_format |-> "text", thumb_quality |-> "word"]
ImageChecks == [enabled |-> "set", max_size_mb |-> "text", timeout_secs |-> "text", backend |-> "word",
    imagemagick_max_mb |-> "unchecked", small_skip_mb |-> "unchecked"]
DocChecks == [enabled |-> "set", max_size_mb |-> "text", timeout_secs |-> "text", imagemagick_max_mb |-> "unchecked"]
TranscodingChecks == [enabled |-> "set", cache_dir |-> "text", cleanup_ttl_secs |-> "text", timeout_secs |-> "text",
    max_concurrent_tasks |-> "text", max_concurrent_tasks_low_memory |-> "text",
    max_concurrent_tasks_throughput |-> "text", allow_software_fallback |-> "set"]
TranscodingVideoChecks == [enabled |-> "set", delivery |-> "word", segment_duration_secs |-> "text",
    video_codec |-> "word", audio_codec |-> "word", preset |-> "text", crf |-> "range", max_width |-> "text",
    max_height |-> "text", max_fps |-> "text", audio_bitrate_kbps |-> "text"]
HardwareChecks == [enabled |-> "set", backend |-> "word", allow_fallback_to_software |-> "set"]
ProtectedChecks == [global_mode |-> "word"]
ObfuscationChecks == [block_size_kib |-> "text", prng |-> "word", workers |-> "set"]
EncryptChecks == [cipher |-> "word", wrap_key |-> "word"]
ShareChecks == [enable |-> "set", isdisable_seacher_engine |-> "set", enable_user_direct_share |-> "set",
    trash_retention_days |-> "set"]
MaintenanceChecks == [s3_multipart_cleanup_enabled |-> "set", s3_multipart_grace_period_secs |-> "text"]

Checks ==
    [temp_file |-> [dir |-> "text", max_age |-> "text"],
     read_cache |-> ReadCacheChecks, write_cache |-> WriteCacheChecks, batch_operation |-> BatchChecks,
     file_compress |-> CompressChecks, file_index |-> IndexChecks, thumbnail |-> ThumbnailChecks,
     image |-> ImageChecks, video |-> DocChecks, pdf |-> DocChecks, office |-> DocChecks, text |-> DocChecks,
     model3d |-> DocChecks, media_transcoding |-> TranscodingChecks, transcoding_video |-> TranscodingVideoChecks,
     hardware |-> HardwareChecks, protected_storage |-> ProtectedChecks, obfuscation |-> ObfuscationChecks,
     encrypt |-> EncryptChecks, file_share |-> ShareChecks, maintenance |-> MaintenanceChecks]
Sections == DOMAIN Checks
Rejected(kind) ==
    CASE kind = "unchecked" -> {}
      [] kind = "set" -> {"missing"}
      [] kind = "text" -> {"missing", "empty"}
      [] kind = "range" -> {"missing", "wrong"}
      [] OTHER -> {"missing", "empty", "wrong"}
Faults == UNION {{s} \X (DOMAIN Checks[s]) \X {"missing", "empty", "wrong"} : s \in Sections}
AcceptedField(fault) == fault[3] \notin Rejected(Checks[fault[1]][fault[2]])

-----------------------------------------------------------------------------
(* What the code asks for, by section and hardware profile                  *)

Profiles == {"low_memory", "balanced", "throughput"}
Sized(field, profile) ==
    CASE profile = "low_memory" -> field \o "_low_memory"
      [] profile = "throughput" -> field \o "_throughput"
      [] OTHER -> field
ReadCacheGetters == {"enable", "backend", "local_dir", "capacity_bytes", "max_file_size_bytes",
    "cache_thumbnail_paths", "skip_extensions", "ttl_secs"}
WriteCacheGetters == {"enable", "backend", "local_dir", "capacity_bytes", "max_file_size_bytes",
    "cache_thumbnail_paths", "skip_extensions", "flush_concurrency", "flush_interval_ms",
    "flush_deadline_secs", "abnormal_spill_dir"}
BatchGetters(profile) == {"timeout_secs", Sized("max_concurrent_tasks", profile), "wal_skip_temp_path",
    "wal_min_size_bytes"}
CompressGetters(profile) == {"enable", "exe_7zip_path", "default_compression_format",
    Sized("process_manager_max_concurrency", profile), Sized("max_cpu_threads", profile), "compression_max_level",
    "timeout_secs", "max_extract_size_gb", "max_compress_items", "max_compress_total_size_mb",
    "max_compress_output_size_mb", "max_decompress_archive_size_mb", "decompression_formats", "enable_archive_browser"}
IndexGetters(profile) == {"vfs_sync_index_mode", Sized("max_concurrent_refresh", profile), "refresh_timeout",
    Sized("max_files_per_refresh", profile), "refresh_trigger_filename"}
ThumbnailGetters == {"enabled", "cache_mode", "cache_dir", "allow_user_directory_mode_override",
    "allow_user_show_hidden_thumbnail_dirs", "default_show_thumbnail_directories", "thumb_size_px", "thumb_format",
    "thumb_quality"}
ImageGetters == {"enabled", "small_skip_mb", "max_size_mb", "imagemagick_max_mb", "timeout_secs", "backend"}
VideoGetters == {"enabled", "max_size_mb", "imagemagick_max_mb", "timeout_secs"}
DocGetters == {"enabled", "max_size_mb", "imagemagick_max_mb", "timeout_secs"}
TranscodingGetters(profile) == {"enabled", "cache_dir", "cleanup_ttl_secs", "timeout_secs",
    Sized("max_concurrent_tasks", profile), "allow_software_fallback"}
TranscodingVideoGetters == {"enabled", "delivery", "segment_duration_secs", "video_codec", "audio_codec", "preset",
    "crf", "max_width", "max_height", "max_fps", "audio_bitrate_kbps"}
HardwareGetters == {"enabled", "backend", "allow_fallback_to_software"}
ProtectedGetters == [protected_storage |-> {"global_mode"}, obfuscation |-> {"block_size_kib", "prng", "workers"},
    encrypt |-> {"cipher", "wrap_key"}]
ShareGetters == {"trash_retention_days", "isdisable_seacher_engine", "enable_user_direct_share"}
MaintenanceGetters == {"s3_multipart_cleanup_enabled", "s3_multipart_grace_period_secs"}
Getters(profile) ==
    [temp_file |-> {"dir", "max_age"}, read_cache |-> ReadCacheGetters, write_cache |-> WriteCacheGetters,
     batch_operation |-> BatchGetters(profile), file_compress |-> CompressGetters(profile),
     file_index |-> IndexGetters(profile), thumbnail |-> ThumbnailGetters, image |-> ImageGetters,
     video |-> VideoGetters, pdf |-> DocGetters, office |-> DocGetters, text |-> DocGetters, model3d |-> DocGetters,
     media_transcoding |-> TranscodingGetters(profile), transcoding_video |-> TranscodingVideoGetters,
     hardware |-> HardwareGetters, file_share |-> ShareGetters, maintenance |-> MaintenanceGetters] @@ ProtectedGetters
Panics(profile) ==
    {g \in UNION {{s} \X Getters(profile)[s] : s \in Sections} :
        g[1] \in conf.gone \/ <<g[1], g[2], "missing">> \in conf.faults}

-----------------------------------------------------------------------------
(* Thumbnails and their tools                                               *)

\* The kinds of thumbnails, and transcoded videos.
Kinds == {"image", "pdf", "office", "video", "text", "model3d", "transcoding"}
Tools == {"vips", "imagemagick", "libreoffice", "blender", "ffmpeg", "legacy ffmpeg"}
Ffmpeg == conf.tools \cap {"ffmpeg", "legacy ffmpeg"} # {}
Raster == conf.tools \cap {"vips", "imagemagick"} # {}
ToolErrors ==
    \/ "image" \in conf.kinds /\ ~conf.builtin /\ ~Raster
    \/ conf.kinds \cap {"pdf", "office"} # {} /\ ~Raster
    \/ "office" \in conf.kinds /\ "libreoffice" \notin conf.tools
    \/ conf.kinds \cap {"video", "transcoding"} # {} /\ ~Ffmpeg
    \/ "text" \in conf.kinds /\ "imagemagick" \notin conf.tools
    \/ "model3d" \in conf.kinds /\ "blender" \notin conf.tools
SeekErrors ==
    "video" \in conf.kinds /\
        \/ conf.ratio = "wrong" \/ conf.seconds = "wrong"
        \/ conf.seekMode = "ratio" /\ conf.ratio # "good"
        \/ conf.seekMode = "seconds" /\ conf.seconds # "good"
        \/ conf.seekMode = "auto" /\ conf.ratio # "good" /\ conf.seconds # "good"
        \/ conf.seekMode \notin {"ratio", "seconds", "auto"}
\* What rendering a kind runs; an office file goes through a PDF, LaTeX needs what texts do.
NeededTools(kind) ==
    CASE kind = "image" -> IF conf.builtin THEN {} ELSE {{"vips", "imagemagick"}}
      [] kind = "pdf" -> {{"vips", "imagemagick"}}
      [] kind = "office" -> {{"libreoffice"}, {"vips", "imagemagick"}}
      [] kind \in {"video", "transcoding"} -> {{"ffmpeg", "legacy ffmpeg"}}
      [] kind = "text" -> {{"imagemagick"}}
      [] kind = "model3d" -> {{"blender"}}
\* The start of a video's frame: an error when it has no number to go by.
SeekFails == \/ conf.seekMode = "auto" /\ conf.ratio = "missing" /\ conf.seconds = "missing"
             \/ conf.seekMode \notin {"ratio", "seconds", "auto"}

-----------------------------------------------------------------------------
(* Connectors, pools and routes                                             *)

\* A name as it is written, perhaps with blanks around it.
EmptyName == <<"", "plain">>
WrittenNames == {"one", "two"} \X {"plain", "padded"}
Trimmed(name) == name[1]
One == <<"one", "plain">>
Connectors == {Trimmed(conf.connectors[i]) : i \in DOMAIN conf.connectors}
PoolNames == {Trimmed(conf.pools[i].name) : i \in DOMAIN conf.pools}
Repeats(names) == \E i, j \in DOMAIN names : i # j /\ Trimmed(names[i]) = Trimmed(names[j])
\* (of a mutant: the backup is not looked up)
PrimaryError(pool) == pool.cached \/ Trimmed(pool.primary) \notin Connectors
PoolError(pool) ==
    \/ pool.cached
    \/ Trimmed(pool.primary) \notin Connectors
    \/ pool.backup = EmptyName
    \/ pool.backup # <<>> /\ pool.backup[1] \notin Connectors
HubErrors ==
    \/ conf.connectors = <<>> \/ conf.pools = <<>>
    \/ Repeats(conf.connectors) \/ Repeats([i \in DOMAIN conf.pools |-> conf.pools[i].name])
    \/ \E i \in DOMAIN conf.pools : PoolError(conf.pools[i])
    \/ Trimmed(conf.default) \notin PoolNames \/ Trimmed(conf.policy) \notin PoolNames
\* VfsStorageHub::new looks names up as they are written.
Built == {conf.connectors[i] : i \in DOMAIN conf.connectors}
HubStarts ==
    /\ conf.connectors # <<>> /\ conf.pools # <<>>
    /\ \A i \in DOMAIN conf.pools :
         LET pool == conf.pools[i] IN
         /\ ~pool.cached /\ pool.primary \in Built
         /\ pool.backup \in {<<>>, EmptyName, pool.primary} \cup Built
\* Where a role with a policy goes, and one without.
PolicyPools == {conf.policy, conf.default}
RoutesFound == PolicyPools \subseteq {conf.pools[i].name : i \in DOMAIN conf.pools}

-----------------------------------------------------------------------------
(* Edits, validation, use                                                   *)

ConfInit ==
    /\ conf = [faults |-> {}, gone |-> {}, kinds |-> Kinds, builtin |-> FALSE,
               tools |-> Tools, seekMode |-> "auto", ratio |-> "good", seconds |-> "missing",
               connectors |-> <<One>>, default |-> One, policy |-> One,
               pools |-> <<[name |-> One, primary |-> One, backup |-> <<>>, cached |-> FALSE]>>]
    /\ stage = "edit" /\ edits = 0

BreakField ==
    /\ stage = "edit" /\ edits = 0 /\ conf.gone = {} /\ conf.faults = {}
    /\ \E fault \in Faults : conf' = [conf EXCEPT !.faults = {fault}]
    /\ UNCHANGED <<stage, edits>>
RemoveSection ==
    /\ stage = "edit" /\ edits = 0 /\ conf.gone = {} /\ conf.faults = {}
    /\ \E s \in Sections : conf' = [conf EXCEPT !.gone = {s}]
    /\ UNCHANGED <<stage, edits>>
Edit(changed) ==
    /\ stage = "edit" /\ edits < MaxEdits /\ conf.gone = {} /\ conf.faults = {}
    /\ conf' = changed /\ edits' = edits + 1 /\ UNCHANGED stage
EditThumbnails ==
    \/ \E k \in conf.kinds : Edit([conf EXCEPT !.kinds = @ \ {k}])
    \/ \E t \in conf.tools : Edit([conf EXCEPT !.tools = @ \ {t}])
    \/ Edit([conf EXCEPT !.builtin = TRUE])
EditSeek ==
    \/ \E mode \in {"ratio", "seconds", "unknown"} : Edit([conf EXCEPT !.seekMode = mode])
    \/ \E v \in {"missing", "wrong"} : Edit([conf EXCEPT !.ratio = v])
    \/ \E v \in {"good", "wrong"} : Edit([conf EXCEPT !.seconds = v])
EditConnectors ==
    \/ \E name \in WrittenNames : Edit([conf EXCEPT !.connectors = Append(@, name)])
    \/ \E name \in WrittenNames : conf.connectors # <<>> /\ Edit([conf EXCEPT !.connectors[1] = name])
    \/ Edit([conf EXCEPT !.connectors = <<>>])
EditPools ==
    \/ \E name \in WrittenNames : conf.pools # <<>> /\ Edit([conf EXCEPT !.pools = Append(@, [@[1] EXCEPT !.name = name])])
    \/ \E name \in WrittenNames, f \in {"name", "primary", "backup"} :
         conf.pools # <<>> /\ Edit([conf EXCEPT !.pools[1][f] = name])
    \/ conf.pools # <<>> /\ Edit([conf EXCEPT !.pools[1].backup = EmptyName])
    \/ conf.pools # <<>> /\ Edit([conf EXCEPT !.pools[1].cached = TRUE])
    \/ Edit([conf EXCEPT !.pools = <<>>])
EditRoutes ==
    \/ \E name \in WrittenNames : Edit([conf EXCEPT !.default = name])
    \/ \E name \in WrittenNames : Edit([conf EXCEPT !.policy = name])

Valid ==
    /\ conf.gone = {} /\ \A fault \in conf.faults : AcceptedField(fault)
    /\ ~ToolErrors /\ ~SeekErrors /\ ~HubErrors
Validate ==
    /\ stage = "edit" /\ stage' = IF Valid THEN "accepted" ELSE "refused"
    /\ UNCHANGED <<conf, edits>>
StartHub ==
    /\ stage = "accepted" /\ stage' = IF HubStarts THEN "running" ELSE "failed"
    /\ UNCHANGED <<conf, edits>>
\* A field that no line of validation mentions is not there in any configuration in use.
Unchecked == {<<"image", "imagemagick_max_mb">>, <<"image", "small_skip_mb">>, <<"video", "imagemagick_max_mb">>,
    <<"pdf", "imagemagick_max_mb">>, <<"office", "imagemagick_max_mb">>, <<"text", "imagemagick_max_mb">>,
    <<"model3d", "imagemagick_max_mb">>}
UseSettings ==
    /\ stage = "running"
    /\ \E profile \in Profiles : stage' = IF Panics(profile) \subseteq Unchecked THEN "answers" ELSE "panics"
    /\ UNCHANGED <<conf, edits>>

ConfNext ==
    \/ BreakField \/ RemoveSection \/ EditThumbnails \/ EditSeek \/ EditConnectors \/ EditPools \/ EditRoutes
    \/ Validate \/ StartHub \/ UseSettings
ConfSpec == ConfInit /\ [][ConfNext]_confVars

-----------------------------------------------------------------------------
(* Properties                                                               *)

\* Whatever validation accepts works: no getter panics on it, under any hardware profile,
\* except for the sizes of thumbnails that validation does not mention; the hub starts
\* with it and the policy's and the default pool are found, unless a name has blanks
\* around it (validation compares names trimmed, the hub as they are written); and
\* whatever kind of thumbnail or transcoding it enables can be rendered: one of each group
\* of tools it needs is there, and a video's frame has a place to seek to.
AcceptedWorks ==
    LET written == Built \cup {conf.default, conf.policy}
                   \cup UNION {{conf.pools[i].name, conf.pools[i].primary} \cup
                               (IF conf.pools[i].backup = <<>> THEN {} ELSE {conf.pools[i].backup})
                               : i \in DOMAIN conf.pools}
    IN /\ stage # "panics"
       /\ (\A name \in written : name[2] = "plain") =>
            stage # "failed" /\ (stage = "running" => RoutesFound)
       /\ stage \in {"accepted", "running"} =>
            /\ \A kind \in conf.kinds : \A group \in NeededTools(kind) : group \cap conf.tools # {}
            /\ "video" \in conf.kinds => ~SeekFails
=============================================================================
