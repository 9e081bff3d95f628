---------------------------- MODULE XcbFunctions ----------------------------
(***************************************************************************)
(* The functions of module XCB: those that source/xew_xcb.c wraps, by the  *)
(* header that declares them, and those that its fetchPointersFromLibrary  *)
(* looks up, by the library it looks in.  The two lists are generated      *)
(* separately and are translated separately; nothing here says they agree. *)
(* The names follow the X protocol: a request has two functions, or three  *)
(* if it is answered; a variable part has three; and so on.                *)
(***************************************************************************)
EXTENDS Integers, Sequences

\* The functions xcb_<r><x>.
Named(R, X) ==
  [i \in 1..(Len(R) * Len(X)) |->
     "xcb_" \o R[((i - 1) \div Len(X)) + 1] \o X[((i - 1) % Len(X)) + 1]]

Single(R) == Named(R, <<"">>)
\* Requests with a reply: the cookie may be checked or not.
Query(R) == Named(R, <<"", "_unchecked", "_reply">>)
\* Requests without one.
Void(R) == Named(R, <<"", "_checked">>)
\* What a request with a list of optional values has in addition.
Valued(R) == Named(R, <<"_aux", "_aux_checked", "_value_list", "_value_list_serialize",
                        "_value_list_unpack", "_value_list_sizeof">>)
\* A part of variable length: fixed elements that can be iterated, bytes with
\* an end, or elements of variable size themselves.
List(F) == Named(F, <<"", "_length", "_iterator">>)
Block(F) == Named(F, <<"", "_length", "_end">>)
Strings(F) == Named(F, <<"_length", "_iterator">>)
\* A type that iterators step through.
Walk(T) == Named(T, <<"_next", "_end">>)
Sized(R) == Named(R, <<"_sizeof">>)

(* xcb.h *)

XcbWrapped ==
  Single(<<"flush", "get_maximum_request_length", "prefetch_maximum_request_length",
           "wait_for_event", "poll_for_event", "poll_for_queued_event",
           "poll_for_special_event", "wait_for_special_event", "register_for_special_xge",
           "unregister_for_special_event", "request_check", "discard_reply",
           "discard_reply64", "get_extension_data", "prefetch_extension_data",
           "get_setup", "get_file_descriptor", "connection_has_error", "connect_to_fd",
           "disconnect", "parse_display", "connect", "connect_to_display_with_auth_info",
           "generate_id">>)

(* xproto.h *)

XprotoValuesWrapped ==
  Walk(<<"char2b", "window", "pixmap", "cursor", "font", "gcontext", "colormap", "atom",
         "drawable", "fontable", "bool32", "visualid", "timestamp", "keysym", "keycode",
         "keycode32", "button", "point">>)

XprotoScreensWrapped ==
  List(<<"depth_visuals">>)
  \o Strings(<<"screen_allowed_depths">>)
  \o Walk(<<"rectangle", "arc", "format", "visualtype", "depth", "screen">>)
  \o Sized(<<"depth", "screen">>)

XprotoSetupWrapped ==
  List(<<"setup_pixmap_formats">>)
  \o Block(<<"setup_request_authorization_protocol_name",
             "setup_request_authorization_protocol_data", "setup_failed_reason",
             "setup_authenticate_reason", "setup_vendor">>)
  \o Strings(<<"setup_roots">>)
  \o Walk(<<"setup_request", "setup_failed", "setup_authenticate", "setup",
            "client_message_data">>)
  \o Sized(<<"setup_request", "setup_failed", "setup_authenticate", "setup">>)

XprotoAttributesWrapped ==
  Valued(<<"create_window", "change_window_attributes">>)
  \o Void(<<"create_window", "change_window_attributes">>)
  \o Sized(<<"create_window", "change_window_attributes">>)

XprotoWindowsWrapped ==
  Valued(<<"configure_window">>)
  \o Query(<<"get_window_attributes">>)
  \o Void(<<"destroy_window", "destroy_subwindows", "change_save_set", "reparent_window",
            "map_window", "map_subwindows", "unmap_window", "unmap_subwindows",
            "configure_window", "circulate_window">>)
  \o Sized(<<"configure_window">>)

XprotoAtomsWrapped ==
  Query(<<"get_geometry", "query_tree", "intern_atom", "get_atom_name">>)
  \o Void(<<"change_property">>)
  \o Block(<<"query_tree_children", "get_atom_name_name", "change_property_data">>)
  \o Sized(<<"query_tree", "intern_atom", "get_atom_name", "change_property">>)

XprotoPropertiesWrapped ==
  Query(<<"get_property", "list_properties", "get_selection_owner">>)
  \o Void(<<"delete_property", "set_selection_owner", "convert_selection", "send_event">>)
  \o Block(<<"get_property_value", "list_properties_atoms">>)
  \o Sized(<<"get_property", "list_properties">>)

XprotoGrabsWrapped ==
  Query(<<"grab_pointer", "grab_keyboard">>)
  \o Void(<<"ungrab_pointer", "grab_button", "ungrab_button",
            "change_active_pointer_grab", "ungrab_keyboard", "grab_key", "ungrab_key">>)

XprotoPointerWrapped ==
  Query(<<"query_pointer", "get_motion_events", "translate_coordinates",
          "get_input_focus">>)
  \o Void(<<"allow_events", "grab_server", "ungrab_server", "warp_pointer",
            "set_input_focus">>)
  \o List(<<"get_motion_events_events">>)
  \o Walk(<<"timecoord">>)
  \o Sized(<<"get_motion_events">>)

XprotoFontsWrapped ==
  Query(<<"query_keymap", "query_font", "query_text_extents">>)
  \o Void(<<"open_font", "close_font">>)
  \o List(<<"query_font_properties", "query_font_char_infos">>)
  \o Block(<<"open_font_name", "str_name">>)
  \o Walk(<<"fontprop", "charinfo", "str">>)
  \o Sized(<<"open_font", "query_font", "query_text_extents", "str">>)

XprotoFontListsWrapped ==
  Query(<<"list_fonts", "list_fonts_with_info", "get_font_path">>)
  \o Void(<<"set_font_path", "create_pixmap", "free_pixmap">>)
  \o List(<<"list_fonts_with_info_properties">>)
  \o Block(<<"list_fonts_with_info_name">>)
  \o Strings(<<"list_fonts_names", "set_font_path_font", "get_font_path_path">>)
  \o Sized(<<"list_fonts", "list_fonts_with_info", "set_font_path", "get_font_path">>)

XprotoContextsWrapped ==
  Valued(<<"create_gc", "change_gc">>)
  \o Void(<<"create_gc", "change_gc", "copy_gc", "set_dashes">>)
  \o Block(<<"set_dashes_dashes">>)
  \o Sized(<<"create_gc", "change_gc", "set_dashes">>)

XprotoAreasWrapped ==
  Void(<<"set_clip_rectangles", "free_gc", "clear_area", "copy_area", "copy_plane">>)
  \o List(<<"set_clip_rectangles_rectangles">>)
  \o Sized(<<"set_clip_rectangles">>)

XprotoLinesWrapped ==
  Void(<<"poly_point", "poly_line", "poly_segment", "poly_rectangle">>)
  \o List(<<"poly_point_points", "poly_line_points", "poly_segment_segments",
            "poly_rectangle_rectangles">>)
  \o Walk(<<"segment">>)
  \o Sized(<<"poly_point", "poly_line", "poly_segment", "poly_rectangle">>)

XprotoFillsWrapped ==
  Void(<<"poly_arc", "fill_poly", "poly_fill_rectangle", "poly_fill_arc">>)
  \o List(<<"poly_arc_arcs", "fill_poly_points", "poly_fill_rectangle_rectangles",
            "poly_fill_arc_arcs">>)
  \o Sized(<<"poly_arc", "fill_poly", "poly_fill_rectangle", "poly_fill_arc">>)

XprotoImagesWrapped ==
  Query(<<"get_image">>)
  \o Void(<<"put_image", "poly_text_8">>)
  \o Block(<<"put_image_data", "get_image_data", "poly_text_8_items">>)
  \o Sized(<<"put_image", "get_image", "poly_text_8">>)

XprotoTextsWrapped ==
  Void(<<"poly_text_16", "image_text_8", "image_text_16">>)
  \o List(<<"image_text_16_string">>)
  \o Block(<<"poly_text_16_items", "image_text_8_string">>)
  \o Sized(<<"poly_text_16", "image_text_8", "image_text_16">>)

XprotoColormapsWrapped ==
  Query(<<"list_installed_colormaps", "alloc_color", "alloc_named_color">>)
  \o Void(<<"create_colormap", "free_colormap", "copy_colormap_and_free",
            "install_colormap", "uninstall_colormap">>)
  \o Block(<<"list_installed_colormaps_cmaps">>)
  \o Sized(<<"list_installed_colormaps", "alloc_named_color">>)

XprotoColorCellsWrapped ==
  Query(<<"alloc_color_cells", "alloc_color_planes">>)
  \o Void(<<"free_colors">>)
  \o Block(<<"alloc_color_cells_pixels", "alloc_color_cells_masks",
             "alloc_color_planes_pixels", "free_colors_pixels">>)
  \o Walk(<<"coloritem">>)
  \o Sized(<<"alloc_color_cells", "alloc_color_planes", "free_colors">>)

XprotoColorsWrapped ==
  Query(<<"query_colors", "lookup_color">>)
  \o Void(<<"store_colors", "store_named_color">>)
  \o List(<<"store_colors_items", "query_colors_colors">>)
  \o Block(<<"store_named_color_name">>)
  \o Walk(<<"rgb">>)
  \o Sized(<<"store_colors", "store_named_color", "query_colors", "lookup_color">>)

XprotoCursorsWrapped ==
  Query(<<"query_best_size", "query_extension">>)
  \o Void(<<"create_cursor", "create_glyph_cursor", "free_cursor", "recolor_cursor">>)
  \o Sized(<<"query_extension">>)

XprotoKeyboardWrapped ==
  Valued(<<"change_keyboard_control">>)
  \o Query(<<"list_extensions", "get_keyboard_mapping">>)
  \o Void(<<"change_keyboard_mapping", "change_keyboard_control">>)
  \o Block(<<"change_keyboard_mapping_keysyms", "get_keyboard_mapping_keysyms">>)
  \o Strings(<<"list_extensions_names">>)
  \o Sized(<<"list_extensions", "change_keyboard_mapping", "get_keyboard_mapping",
             "change_keyboard_control">>)

XprotoControlsWrapped ==
  Query(<<"get_keyboard_control", "get_pointer_control", "get_screen_saver">>)
  \o Void(<<"bell", "change_pointer_control", "set_screen_saver", "change_hosts">>)
  \o Block(<<"change_hosts_address", "host_address">>)
  \o Walk(<<"host">>)
  \o Sized(<<"change_hosts", "host">>)

XprotoHostsWrapped ==
  Query(<<"list_hosts", "set_pointer_mapping", "get_pointer_mapping">>)
  \o Void(<<"set_access_control", "set_close_down_mode", "kill_client",
            "rotate_properties", "force_screen_saver">>)
  \o Block(<<"rotate_properties_atoms", "get_pointer_mapping_map">>)
  \o Strings(<<"list_hosts_hosts">>)
  \o Sized(<<"list_hosts", "rotate_properties", "set_pointer_mapping",
             "get_pointer_mapping">>)

XprotoModifiersWrapped ==
  Query(<<"set_modifier_mapping", "get_modifier_mapping">>)
  \o Void(<<"no_operation">>)
  \o Block(<<"get_modifier_mapping_keycodes">>)
  \o Sized(<<"set_modifier_mapping", "get_modifier_mapping">>)

(* xcb_icccm.h *)

IcccmNamesWrapped ==
  Query(<<"icccm_get_text_property", "icccm_get_wm_name", "icccm_get_wm_icon_name",
          "icccm_get_wm_colormap_windows">>)
  \o Void(<<"icccm_set_wm_name", "icccm_set_wm_icon_name",
            "icccm_set_wm_colormap_windows">>)
  \o Single(<<"icccm_get_text_property_reply_wipe",
              "icccm_get_wm_colormap_windows_from_reply",
              "icccm_get_wm_colormap_windows_reply_wipe">>)

IcccmClientsWrapped ==
  Query(<<"icccm_get_wm_client_machine", "icccm_get_wm_class",
          "icccm_get_wm_transient_for">>)
  \o Void(<<"icccm_set_wm_client_machine", "icccm_set_wm_class",
            "icccm_set_wm_transient_for", "icccm_set_wm_size_hints">>)
  \o Single(<<"icccm_get_wm_class_from_reply", "icccm_get_wm_class_reply_wipe",
              "icccm_get_wm_transient_for_from_reply", "icccm_size_hints_set_position",
              "icccm_size_hints_set_size", "icccm_size_hints_set_min_size",
              "icccm_size_hints_set_max_size", "icccm_size_hints_set_resize_inc",
              "icccm_size_hints_set_aspect", "icccm_size_hints_set_base_size",
              "icccm_size_hints_set_win_gravity">>)

IcccmSizesWrapped ==
  Query(<<"icccm_get_wm_size_hints", "icccm_get_wm_normal_hints">>)
  \o Void(<<"icccm_set_wm_normal_hints">>)
  \o Single(<<"icccm_get_wm_size_hints_from_reply">>)

IcccmHintsWrapped ==
  Query(<<"icccm_get_wm_hints", "icccm_get_wm_protocols">>)
  \o Void(<<"icccm_set_wm_hints", "icccm_set_wm_protocols">>)
  \o Single(<<"icccm_wm_hints_get_urgency", "icccm_wm_hints_set_input",
              "icccm_wm_hints_set_iconic", "icccm_wm_hints_set_normal",
              "icccm_wm_hints_set_withdrawn", "icccm_wm_hints_set_none",
              "icccm_wm_hints_set_icon_pixmap", "icccm_wm_hints_set_icon_mask",
              "icccm_wm_hints_set_icon_window", "icccm_wm_hints_set_window_group",
              "icccm_wm_hints_set_urgency", "icccm_get_wm_hints_from_reply",
              "icccm_get_wm_protocols_from_reply", "icccm_get_wm_protocols_reply_wipe">>)

(* xcb_keysyms.h *)

KeysymsWrapped ==
  Single(<<"key_symbols_alloc", "key_symbols_free", "key_symbols_get_keysym",
           "key_symbols_get_keycode", "key_press_lookup_keysym",
           "key_release_lookup_keysym", "refresh_keyboard_mapping", "is_keypad_key",
           "is_private_keypad_key", "is_cursor_key", "is_pf_key", "is_function_key",
           "is_misc_function_key", "is_modifier_key">>)

(* xinerama.h *)

XcbXineramaWrapped ==
  Query(<<"xinerama_query_version", "xinerama_get_state", "xinerama_get_screen_count",
          "xinerama_get_screen_size", "xinerama_is_active", "xinerama_query_screens">>)
  \o List(<<"xinerama_query_screens_screen_info">>)
  \o Walk(<<"xinerama_screen_info">>)
  \o Sized(<<"xinerama_query_screens">>)

-----------------------------------------------------------------------------
(* Looked up: xcb.h *)

XcbFetched ==
  Single(<<"flush", "get_maximum_request_length", "prefetch_maximum_request_length",
           "wait_for_event", "poll_for_event", "poll_for_queued_event",
           "poll_for_special_event", "wait_for_special_event", "register_for_special_xge",
           "unregister_for_special_event", "request_check", "discard_reply",
           "discard_reply64", "get_extension_data", "prefetch_extension_data",
           "get_setup", "get_file_descriptor", "connection_has_error", "connect_to_fd",
           "disconnect", "parse_display", "connect", "connect_to_display_with_auth_info",
           "generate_id">>)

(* Looked up: xproto.h *)

XprotoValuesFetched ==
  List(<<"depth_visuals", "setup_pixmap_formats">>)
  \o Block(<<"setup_request_authorization_protocol_name",
             "setup_request_authorization_protocol_data", "setup_failed_reason",
             "setup_authenticate_reason", "setup_vendor">>)
  \o Strings(<<"screen_allowed_depths", "setup_roots">>)
  \o Walk(<<"char2b", "window", "pixmap", "cursor", "font", "gcontext", "colormap",
            "atom", "drawable", "fontable", "bool32", "visualid", "timestamp", "keysym",
            "keycode", "keycode32", "button", "point", "rectangle", "arc", "format",
            "visualtype", "depth", "screen", "setup_request", "setup_failed",
            "setup_authenticate", "setup", "client_message_data">>)
  \o Sized(<<"depth", "screen", "setup_request", "setup_failed", "setup_authenticate",
             "setup">>)

XprotoWindowsFetched ==
  Valued(<<"create_window", "change_window_attributes", "configure_window">>)
  \o Query(<<"get_window_attributes", "get_geometry", "query_tree", "intern_atom",
             "get_atom_name", "get_property", "list_properties", "get_selection_owner",
             "grab_pointer", "grab_keyboard", "query_pointer", "get_motion_events",
             "translate_coordinates", "get_input_focus">>)
  \o Void(<<"create_window", "change_window_attributes", "destroy_window",
            "destroy_subwindows", "change_save_set", "reparent_window", "map_window",
            "map_subwindows", "unmap_window", "unmap_subwindows", "configure_window",
            "circulate_window", "change_property", "delete_property",
            "set_selection_owner", "convert_selection", "send_event", "ungrab_pointer",
            "grab_button", "ungrab_button", "change_active_pointer_grab",
            "ungrab_keyboard", "grab_key", "ungrab_key", "allow_events", "grab_server",
            "ungrab_server", "warp_pointer", "set_input_focus">>)
  \o List(<<"get_motion_events_events">>)
  \o Block(<<"query_tree_children", "get_atom_name_name", "change_property_data",
             "get_property_value", "list_properties_atoms">>)
  \o Walk(<<"timecoord">>)
  \o Sized(<<"create_window", "change_window_attributes", "configure_window",
             "query_tree", "intern_atom", "get_atom_name", "change_property",
             "get_property", "list_properties", "get_motion_events">>)

XprotoFontsFetched ==
  Valued(<<"create_gc", "change_gc">>)
  \o Query(<<"query_keymap", "query_font", "query_text_extents", "list_fonts",
             "list_fonts_with_info", "get_font_path">>)
  \o Void(<<"open_font", "close_font", "set_font_path", "create_pixmap", "free_pixmap",
            "create_gc", "change_gc", "copy_gc", "set_dashes", "set_clip_rectangles",
            "free_gc", "clear_area", "copy_area", "copy_plane", "poly_point", "poly_line",
            "poly_segment", "poly_rectangle">>)
  \o List(<<"query_font_properties", "query_font_char_infos",
            "list_fonts_with_info_properties", "set_clip_rectangles_rectangles",
            "poly_point_points", "poly_line_points", "poly_segment_segments",
            "poly_rectangle_rectangles">>)
  \o Block(<<"open_font_name", "str_name", "list_fonts_with_info_name",
             "set_dashes_dashes">>)
  \o Strings(<<"list_fonts_names", "set_font_path_font", "get_font_path_path">>)
  \o Walk(<<"fontprop", "charinfo", "str", "segment">>)
  \o Sized(<<"open_font", "query_font", "query_text_extents", "str", "list_fonts",
             "list_fonts_with_info", "set_font_path", "get_font_path", "create_gc",
             "change_gc", "set_dashes", "set_clip_rectangles", "poly_point", "poly_line",
             "poly_segment", "poly_rectangle">>)

XprotoImagesFetched ==
  Query(<<"get_image", "list_installed_colormaps", "alloc_color", "alloc_named_color",
          "alloc_color_cells", "alloc_color_planes", "query_colors", "lookup_color">>)
  \o Void(<<"poly_arc", "fill_poly", "poly_fill_rectangle", "poly_fill_arc", "put_image",
            "poly_text_8", "poly_text_16", "image_text_8", "image_text_16",
            "create_colormap", "free_colormap", "copy_colormap_and_free",
            "install_colormap", "uninstall_colormap", "free_colors", "store_colors",
            "store_named_color", "create_cursor", "create_glyph_cursor", "free_cursor",
            "recolor_cursor">>)
  \o List(<<"poly_arc_arcs", "fill_poly_points", "poly_fill_rectangle_rectangles",
            "poly_fill_arc_arcs", "image_text_16_string", "store_colors_items",
            "query_colors_colors">>)
  \o Block(<<"put_image_data", "get_image_data", "poly_text_8_items",
             "poly_text_16_items", "image_text_8_string",
             "list_installed_colormaps_cmaps", "alloc_color_cells_pixels",
             "alloc_color_cells_masks", "alloc_color_planes_pixels", "free_colors_pixels",
             "store_named_color_name">>)
  \o Walk(<<"coloritem", "rgb">>)
  \o Sized(<<"poly_arc", "fill_poly", "poly_fill_rectangle", "poly_fill_arc", "put_image",
             "get_image", "poly_text_8", "poly_text_16", "image_text_8", "image_text_16",
             "list_installed_colormaps", "alloc_named_color", "alloc_color_cells",
             "alloc_color_planes", "free_colors", "store_colors", "store_named_color",
             "query_colors", "lookup_color">>)

XprotoSettingsFetched ==
  Valued(<<"change_keyboard_control">>)
  \o Query(<<"query_best_size", "query_extension", "list_extensions",
             "get_keyboard_mapping", "get_keyboard_control", "get_pointer_control",
             "get_screen_saver", "list_hosts", "set_pointer_mapping",
             "get_pointer_mapping", "set_modifier_mapping", "get_modifier_mapping">>)
  \o Void(<<"change_keyboard_mapping", "change_keyboard_control", "bell",
            "change_pointer_control", "set_screen_saver", "change_hosts",
            "set_access_control", "set_close_down_mode", "kill_client",
            "rotate_properties", "force_screen_saver", "no_operation">>)
  \o Block(<<"change_keyboard_mapping_keysyms", "get_keyboard_mapping_keysyms",
             "change_hosts_address", "host_address", "rotate_properties_atoms",
             "get_pointer_mapping_map", "get_modifier_mapping_keycodes">>)
  \o Strings(<<"list_extensions_names", "list_hosts_hosts">>)
  \o Walk(<<"host">>)
  \o Sized(<<"query_extension", "list_extensions", "change_keyboard_mapping",
             "get_keyboard_mapping", "change_keyboard_control", "change_hosts", "host",
             "list_hosts", "rotate_properties", "set_pointer_mapping",
             "get_pointer_mapping", "set_modifier_mapping", "get_modifier_mapping">>)

(* Looked up: xcb_icccm.h *)

IcccmFetched ==
  Query(<<"icccm_get_text_property", "icccm_get_wm_name", "icccm_get_wm_icon_name",
          "icccm_get_wm_colormap_windows", "icccm_get_wm_client_machine",
          "icccm_get_wm_class", "icccm_get_wm_transient_for", "icccm_get_wm_size_hints",
          "icccm_get_wm_normal_hints", "icccm_get_wm_hints", "icccm_get_wm_protocols">>)
  \o Void(<<"icccm_set_wm_name", "icccm_set_wm_icon_name",
            "icccm_set_wm_colormap_windows", "icccm_set_wm_client_machine",
            "icccm_set_wm_class", "icccm_set_wm_transient_for", "icccm_set_wm_size_hints",
            "icccm_set_wm_normal_hints", "icccm_set_wm_hints", "icccm_set_wm_protocols">>)
  \o Single(<<"icccm_get_text_property_reply_wipe",
              "icccm_get_wm_colormap_windows_from_reply",
              "icccm_get_wm_colormap_windows_reply_wipe", "icccm_get_wm_class_from_reply",
              "icccm_get_wm_class_reply_wipe", "icccm_get_wm_transient_for_from_reply",
              "icccm_size_hints_set_position", "icccm_size_hints_set_size",
              "icccm_size_hints_set_min_size", "icccm_size_hints_set_max_size",
              "icccm_size_hints_set_resize_inc", "icccm_size_hints_set_aspect",
              "icccm_size_hints_set_base_size", "icccm_size_hints_set_win_gravity",
              "icccm_get_wm_size_hints_from_reply", "icccm_wm_hints_get_urgency",
              "icccm_wm_hints_set_input", "icccm_wm_hints_set_iconic",
              "icccm_wm_hints_set_normal", "icccm_wm_hints_set_withdrawn",
              "icccm_wm_hints_set_none", "icccm_wm_hints_set_icon_pixmap",
              "icccm_wm_hints_set_icon_mask", "icccm_wm_hints_set_icon_window",
              "icccm_wm_hints_set_window_group", "icccm_wm_hints_set_urgency",
              "icccm_get_wm_hints_from_reply", "icccm_get_wm_protocols_from_reply",
              "icccm_get_wm_protocols_reply_wipe">>)

(* Looked up: xcb_keysyms.h *)

KeysymsFetched ==
  Single(<<"key_symbols_alloc", "key_symbols_free", "key_symbols_get_keysym",
           "key_symbols_get_keycode", "key_press_lookup_keysym",
           "key_release_lookup_keysym", "refresh_keyboard_mapping", "is_keypad_key",
           "is_private_keypad_key", "is_cursor_key", "is_pf_key", "is_function_key",
           "is_misc_function_key", "is_modifier_key">>)

(* Looked up: xinerama.h *)

XcbXineramaFetched ==
  Query(<<"xinerama_query_version", "xinerama_get_state", "xinerama_get_screen_count",
          "xinerama_get_screen_size", "xinerama_is_active", "xinerama_query_screens">>)
  \o List(<<"xinerama_query_screens_screen_info">>)
  \o Walk(<<"xinerama_screen_info">>)
  \o Sized(<<"xinerama_query_screens">>)

-----------------------------------------------------------------------------
\* The wrappers, by header.
XcbWrappers ==
  {[header |-> "xcb.h", functions |-> XcbWrapped],
   [header |-> "xproto.h", functions
      |-> XprotoValuesWrapped \o XprotoScreensWrapped \o XprotoSetupWrapped \o
          XprotoAttributesWrapped \o XprotoWindowsWrapped \o XprotoAtomsWrapped \o
          XprotoPropertiesWrapped \o XprotoGrabsWrapped \o XprotoPointerWrapped \o
          XprotoFontsWrapped \o XprotoFontListsWrapped \o XprotoContextsWrapped \o
          XprotoAreasWrapped \o XprotoLinesWrapped \o XprotoFillsWrapped \o
          XprotoImagesWrapped \o XprotoTextsWrapped \o XprotoColormapsWrapped \o
          XprotoColorCellsWrapped \o XprotoColorsWrapped \o XprotoCursorsWrapped \o
          XprotoKeyboardWrapped \o XprotoControlsWrapped \o XprotoHostsWrapped \o
          XprotoModifiersWrapped],
   [header |-> "xcb_icccm.h", functions
      |-> IcccmNamesWrapped \o IcccmClientsWrapped \o IcccmSizesWrapped \o
          IcccmHintsWrapped],
   [header |-> "xcb_keysyms.h", functions |-> KeysymsWrapped],
   [header |-> "xinerama.h", functions |-> XcbXineramaWrapped]}

\* The look-ups of fetchPointersFromLibrary: which library, which functions.
XcbLoaders ==
  <<[library |-> "xcb", functions |-> XcbFetched],
    [library |-> "xcb", functions |-> XprotoValuesFetched],
    [library |-> "xcb", functions |-> XprotoWindowsFetched],
    [library |-> "xcb", functions |-> XprotoFontsFetched],
    [library |-> "xcb", functions |-> XprotoImagesFetched],
    [library |-> "xcb", functions |-> XprotoSettingsFetched],
    [library |-> "xcb_icccm", functions |-> IcccmFetched],
    [library |-> "xcb_keysyms", functions |-> KeysymsFetched],
    [library |-> "xcb_xinerama", functions |-> XcbXineramaFetched]>>

XcbMacros == {}
=============================================================================
